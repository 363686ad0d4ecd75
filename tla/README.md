# Verification of the Pinjie blog

This directory holds TLA+ specifications of the parts of the blog in which several
requests, transactions, files, tabs and crashes meet, the TLC configurations that
check them on small instances, and theorems about them, for every instance, with
proofs checked by TLAPS. Paths below are relative to `src/`; `app/` stands for
`apps/backend/app/`, `admin/` for `apps/admin/src/`, `web/` for `apps/web/src/`.

## 1. The system

A FastAPI backend (one uvicorn process, `apps/backend/Dockerfile`) on PostgreSQL
and Redis serves a public web site (Next.js) and an admin console (Umi and React
Query). The backend is asynchronous: between any two `await`s of a request, others
run. Each request has an ORM session of its own; `transaction_scope`
(`app/db/transaction.py`) commits or rolls back. The database runs at READ
COMMITTED, so what serialises requests is what they lock: rows (`SELECT ... FOR
UPDATE`), advisory locks, foreign keys. The console is one page at a time, with
several requests of that page under way and answers in any order; the site puts a
page together from several reads on the server.

| Component | State | Operations | Hard part | What makes it correct |
|---|---|---|---|---|
| Authentication, sessions (`app/services/authentication.py`, `accounts.py`, `app/api/dependencies.py`, `app/core/rate_limit.py`) | users, sessions, refresh tokens; a Redis mutex per token | login, refresh, logout, password change, deletion of an account, revocation of sessions; administrative changes of accounts | rotation races revocation; bulk revocations race logins; objects older than their lock | one usable token per session; an end is final; a change of credentials ends the other sessions |
| Administrators, roles (`app/services/admin_management.py`) | admins, roles, grants, their sessions | create, status, superuser mark, roles, reset; create, change, delete roles | mutual demotion; a role changed while it is given or used | a superuser remains; a session has the power of its admin |
| Site settings and logo (`app/services/system_settings.py`, `settings_media.py`, `app/main.py`) | one row, one public file, trash, manifests | upload, delete, patch, recovery at start | no transaction spans row and file; crashes between any two steps | the file is the one the row names; it is never lost; recovery succeeds |
| File assets (`app/services/assets.py`, `storage/local.py`) | asset rows, files, trash | upload with deduplication, single and bulk deletion, references from avatars and articles | file before row, trash before commit; upload against deletion | a content with a row is kept, a referenced asset stays, a deleted one is no longer served |
| Console list pages (`admin/features/{users,admins,roles,assets,blog}`) | cached list, selection, dialog, locks, mutations | filter, select, row and bulk actions, confirmed deletions, forms | stale lists, double clicks, answers out of order, confirmations computed earlier | what is sent is what was shown, once, and permitted |
| Console forms (`admin/features/settings`, `blog/PostEditorPage.tsx`, `roles/RolesPage.tsx`) | drafts, the revision they started from, uploads, previews | edit, save, reload, remove, preview, leave | the query behind the form is refetched, others save, answers are lost | no draft is lost unasked, no save acts on another version |
| Console session (`admin/lib/api/http.ts`, `admin/app.tsx`) | cookies, a shared refresh promise, the calls of a tab | request, refresh, replay, login, logout, start | calls share a refresh while cookies are set and cleared under them | the tab does not end its own session, and tells its end truly |
| Console dashboards (`admin/features/system`, `security`) | queries, polling, tabs | open, poll, turn pages | requests dropped, joined and overtaken | nothing overtaken is shown as current |
| Public site (`web/app`, `web/features/blog`) over `app/services/public_blog.py` | reads shared within a request | pages, search, navigation, sitemaps | articles change between the reads of a page | one version of an article, true 404s, a whole navigation |
| Contract (`packages/api-client`, `admin/lib/api`, `app/api_router.py`) | none | calls written by hand beside generated operations | verbs, paths, types and permissions kept twice | every call reaches the operation it means |
| Blog (`app/services/blog.py`, `app/db/repositories/blog.py`) | articles, revisions, taxonomies, asset references | create, save, publish, trash, restore, delete, confirmed taxonomy deletion | advisory lock, stale confirmations, assets deleted meanwhile | a save over another revision is refused, no dangling reference |
| Audit (`app/services/security_events.py`) | events | start, complete, fail | three transactions around the operation | a completed event tells what happened |
| Request log (`app/core/request_metadata.py`, `apps/backend/scripts/consume_request_logs.py`) | a Redis stream, consumer group, dead letters, rows | add, read, reclaim, persist, acknowledge | lost, repeated and trimmed messages | each delivered entry is stored once |
| Reader client (`web/lib/api/http.ts`, `web/features/auth`) | a shared refresh promise | as the console's | as the console's | out of use at this commit, see section 6 |

They interact through the rows and through HTTP: the management of accounts and
roles ends sessions; avatars and articles hold assets; every administrative
operation runs inside the audit coordinator; the tab's refresh is the server's
rotation; a page's mutation is one of the operations of the contract and is
answered by the revisions the services keep; the public site reads what authors
publish.

## 2. Modules

| Module | Models | Proofs | Instances |
|---|---|---|---|
| `RefreshFamily` | what a login session promises, abstractly | in `AuthSessionsProofs` | through `AuthSessions` |
| `AuthSessions` | sessions, tokens, and everything that opens, rotates or ends them, web and admin | `AuthSessionsProofs` | `MCAuthSessions` |
| `AdminRbac` | admins, superusers, roles, and the power of sessions | `AdminRbacProofs` | `MCAdminRbac` |
| `SettingsMedia` | the site logo: row, files, manifests, crashes and recovery | `SettingsMediaProofs` | `MCSettingsMedia` |
| `AssetStore` | uploaded files: rows, public files, trash, and the articles and avatars that refer to them | `AssetStoreProofs` | `MCAssetStore` |
| `ConsoleSession` | one tab of the console: its calls, its refresh, its cookies | `ConsoleSessionProofs` | `MCConsoleSession` |
| `ApiContract` | the operations of the generated client, the calls of the console, the permissions of the routes, as data | | through `ListPage` |
| `ListPage` | what the list pages share: list, selection, dialog, locks, mutations, the server's answers | | through `ConsoleLists` |
| `UsersPage`, `AdminsPage`, `RolesPage`, `AssetsPage`, `PostsPage`, `TaxonomyPage` | one list page each (the last one twice: categories and tags) | | through `ConsoleLists` |
| `ConsoleLists` | composes the list pages | `ConsoleListsProofs` | `MCConsoleLists` |
| `SettingsForm`, `PostEditor`, `RolePermissions` | the three long-lived forms | | through `ConsoleForms` |
| `ConsoleForms` | composes the forms | `ConsoleFormsProofs` | `MCConsoleForms` |
| `Reading` | the pages of the public site over the public API | | through `ReadPages` |
| `Dashboards` | the console's status and security pages | | through `ReadPages` |
| `ReadPages` | composes the two | `ReadPagesProofs` | `MCReadPages` |

### Conventions

A request of the backend is split where another one can slip in: after a read
without lock, while it waits for a lock, after the read of what a bulk `UPDATE`
will touch, at its commit. What it wrote becomes visible at the commit. A lock is
held from the statement that takes it to the end of the transaction, so it is a
predicate on the stages of the requests (`HoldsUser`, `HoldsRow`, ...), and waiting
for a lock is the postponement of the step that takes it. A deadlock between
requests is broken by PostgreSQL, which aborts one: any request may `Abort`.
An ORM object keeps the attributes of its first load unless the locking read says
`populate_existing`; SQLAlchemy writes only the columns that changed.

In the modules of the frontends a request is sent, served (or lost on the way, or
refused) and then answered: three steps, so that answers come in any order and
others act in between. A handler runs to its next `await` in one step. Operators
marked "Mutant" in their comment are plausible mistakes; no action uses them.

### AuthSessions and RefreshFamily

`users`, `sessions` and `tokens` are the rows; `requests` the transactions under
way with what they have read (`seen` is the ORM object); `mutex` the Redis lock
of a refresh; `hashes` counts the passwords ever set, to name a new one.

`LoginVerify`/`LoginCommit` are `login`; `RefreshAcquire`, `RefreshPresent`,
`RefreshLoadUser`, `RefreshRotate` and `RefreshRevoke` are `refresh`;
`LogoutPresent`/`LogoutCommit` are `logout`; `Authenticate`, `LockUser`,
`LockSession`, `BulkRevoke`, `CommitPassword`, `CommitDelete`, `RevokeOne`,
`SweepFind` and `SweepCommit` are what an account does to itself; `ManagerLock`,
`CommitManaged`, `ManagerRevokeOne` and `ManagerSweep` what an administrator does
to it. `MutexExpires` is the ten-second life of the Redis lock, `TokenExpires`
the idle and absolute limits, `Abort` every failure before a commit.

The reader's and the admin's protocol are the same and differ in three constants:
`FreshLock` (only `AdminRepository.get` refreshes the row it locks, cf.
`docs/architecture/authentication-authorization.md:90`), `OwnOps` and
`ManagedOps`. The insert of a token takes a key-share lock on its session through
the foreign key, which is why a rotation waits for a password change. Sweeps that
take no lock see the rows as of their statement, then commit. The several `UPDATE`s
of a bulk revocation are merged where the lock of the account keeps new sessions
out.

`RefreshFamily` is what a client may rely on: a session is opened once, has at
most one usable token, replaces it only by one never issued before, and once
closed never has one again. `AuthSessions` implements it under the mapping `F`.

### AdminRbac

`admins` and `roles` are the rows with their association tables, `sessions[a]`
the powers with which the open sessions of `a` began, `requests` the operations
under way: `Start`, `LockActor`, `LockTargets`, `LockGuard`, `CountSuperusers`,
`CommitAccounts` for one or several accounts; `ReadRoles`, `CommitAssign`,
`CommitCreate`; `CreateRole`, `LockRoles`, `LockMembers`, `CommitRoles`,
`CountMembers`, `CommitDelete`. Single and bulk status changes are one operation,
as are reset and "revoke all" (both end the sessions and change no power). The
rows locked by one ordered statement are taken in one step. An insert into
`admin_roles` waits for the row lock of its role (`RoleGiven`). `get_role` does not
refresh a role that was loaded with the actor, so `CommitRoles` works on the
roles `seen` then (`Permitted`). `InitialAdmin` is the script.

### SettingsMedia

`setting` is the row, `public` the files served, `trash[c]` what change `c`
moved away, `manifests` the manifests on disk, `changes` the requests, `server`
the process. A change goes `StageLogo`, `LockSetting`, `WriteManifest`, `MoveOld`,
`Install`, `Commit`, `BeginPurge`, `PurgeOld`, `DropManifest`; or fails
(`PrepareFails`, `CommitFails`) and goes back with `BeginUndo`, `RemoveNew`,
`RestoreOld`, `DropManifest`. `Patch` is `update_site`. `Crash` may happen between
any two file operations; `Recover` and `Ready` are `recover_settings_media` in the
lifespan of the application. The asyncio lock of the store is `MediaFree`, the
row lock `RowFree`. When going back or purging fails, `_compensate` and
`_finalize` report or log it and leave the manifest: `CleanupFails` leaves the change
`"stuck"` for the operator or the next start, and a recovery that fails ends the
process that is starting (`"failed"`, to be started again; `"refused"` is the
recovery that does not know the state it finds).

A manifest's `state` field is written and never read, and left out. The old files
are moved, and purged, in any order. Manifests are named at random and recovered in
the order of their names, so the numbers of two changes come in either order. One
process runs at a time (ADR 0013, decision 8: a single instance). Abstracted or
left out: the validation of images (an image is valid, or never staged), staged
files forgotten by a crash (harmless), reads, the registration setting (another
row, no file), a commit that reports an error although it took effect (the code
cannot tell, and no document promises anything), cancellation within one file
operation.

### AssetStore

`rows` are the assets with the content their unique constraint compares (uploader,
scene, digest), `files` the public directory, `refs` what articles (`post_assets`)
and avatars refer to, `requests` the uploads, deletions and bindings under way with
the files they have in the trash (`moved`). `trash` are the files there that no
request will take back. `issued` makes a new identifier new (a UUID7).

`FindDuplicate` begins an upload after its content has been checked: it goes on with
`StoreFile`, `InsertRow` or, when another upload was first or the database fails,
`InsertFails` and `TakeBack`; or with `CheckFile` and `Refill` when there is a row.
`LockTargets`, `CheckReferences`, `MoveToTrash`, `CommitDelete`, `Purge` are
`_delete_many` for one asset or several; `MoveFails` and `CommitFails` lead to
`Restore`, which runs after the transaction has let go of the rows. `Choose`,
`LockChosen`, `CommitChosen` are `update_avatar`, the avatar of an admin, and the save
of an article, reduced to the assets they refer to; `HolderFree` is the row lock of an
account or the advisory lock of all content. `Crash` drops every request and nothing
recovers, since no code looks at the trash at a start. A foreign key keeps the
references of articles (`ForeignKey`); avatars are URLs, for which only the locks do.

Left out: the validation of names, sizes and types, staged copies (private, and
discarded), who may use an asset, listing, a request cancelled between two steps
without the process dying, and the rest of an article.

### ConsoleSession

One tab. `jar` are the cookies of the browser, `calls` the calls of `apiRequest`
with what they sent, `refreshes` and `promise` the refresh requests and the one
`refreshSession` shares, `page` what the tab shows, `server` the session reduced to
what a tab can tell: alive or not, the triple of tokens it accepts, the refresh
tokens that were used. Triples of access, refresh and CSRF token are numbered in
the order they are handed out. `disturbed` says whether the session was changed
under the tab's calls (`"changed"`: its own password change, or cookies cleared in
an outage) or is `"forked"` (an answer that set cookies was lost or forgotten by a
reload, or another tab refreshed).

`ServesProtected`, `ServesPassword`, `ServesLogin`, `ServesLogout` and
`RefreshServes` are the routes of `app/domains/admin/auth_router.py` behind their
dependencies, with the cookies each answer sets or clears; `RefreshPutOff` is the
refresh that meets a busy mutex or an unreachable Redis; `CallFails`, `CallLost`,
`RefreshFails`, `RefreshLost` the network. `Arrives` is an answer of `apiRequest`:
the first session error of a call that is not a login or logout joins the refresh
(`JoinsRefresh`), everything else ends the call; `RefreshArrives` settles the
refresh and every call that waits for it. `Visits`, `Loads` and `PageAfter` are
`getInitialState` and the navigations. A request that was sent and never served
before a reload is taken as never served.

### ApiContract, ListPage and the list pages

`Contract` lists the operations of the generated client in the order in which the
backend registers them; a call of the console reaches the first whose method and
path template match (`Reaching`). The tables beside it hold the types each operation
takes and answers with, the types the console writes by hand, and the permission of
each route (`Needs`).

`ListPage` has the rows on the server (`rows`: current, in the recycle bin or gone,
with a revision), the list the page has cached (`shown`, `list`, `answer`), the
selection (`picked`), the dialog, the locks of submissions (`locked`), the requests
(`reqs`) and what the page was told of each row (`acked`). `Reload`, `ReadRows`,
`ListArrives` and `ListFails` are the query; `ViewChanges` is another filter, page or
recycle bin; `Picks` the checkboxes; `RowSends` and `PickedSends` the buttons;
`Opens`, `Confirms`, `CancelsConfirm` the standard confirmation with its lock;
`Submits`, `SubmitsLocked` and `CancelsForm` the form dialogs; `Serves`, `Breaks`,
`Succeeds` and `Fails` the mutations with their `onSuccess` and the invalidation of
the list. `Elsewhere` is another administrator.

Each page module lists its mutations with what their success does (`Effect`: which
dialog it closes and when, whether it clears the selection and refetches), and its
buttons with the operation, the permissions the page looks at and the lock they
take; `PageOps` collects the operations. `TaxonomyPage` asks the server for the impact
of a deletion first (`Previewed`); the deletion names the versions of that answer.

### SettingsForm, PostEditor, RolePermissions

`SettingsForm` keeps, of the setting on the server, its revision and the revisions
that last changed its text and its logo, because a save and a removal compare the
one and act on the others. The form follows its query until it is dirty
(`Followed`), a conflict offers the latest configuration, the removal of the logo is
confirmed on what was then shown. `PostEditor` freezes the article it was opened on;
`draft` counts the changes typed, `stored` those saved; uploads insert into the draft,
previews are numbered by the text they were rendered from, and `useUnsavedChanges`
guards every way out. `RolePermissions` is the tree of the catalogue with its search:
what is ticked but hidden stays in the set that is sent (`MergeVisible`).

### Reading, Dashboards

`Reading` puts one page of the public site together: `target` is the address,
`memo` the reads made by its parts (layout, metadata, body, shell, navigation), which
React's `cache` shares within the request; `Plan`, `Walk` and `Steps` say in which
order each part reads, `Counts` and `Selects` are the two statements of a list,
`End` and `Outcomes` what the visitor gets. Authors change `content` at any step.
`Follows` takes a link of the page shown.

`Dashboards` has the queries of the status page and of the three logs, with
data, error and the request under way: `AskAll`, `MountAsks`, `Polls` and `Refetches`
follow the rules of React Query the pages rely on (a fresh or running request is
joined, one that has data is dropped for the new one), `Opens`, `Switches` and `Turns`
the pages. `truth` records what was so since a request was sent.

## 3. What is checked

| Run | Question | Bounds | Result |
|---|---|---|---|
| `sessions` | every interleaving of two requests on one account: `IndInv`, `ClosedAccountHasNoSession`, `RevokedSessionStaysEnded`, `MutexKeptByOwner`, `ImplementsRefreshFamily`, `CredentialChangeEndsSessions` | 1 account with the refreshing lock, 2 sessions, 2 tokens, 2 requests, 2 versions, 2 passwords | holds (569,341 states) |
| `rbac` | `IndInv`, `AtLeastOneSuperuser`, `SessionPowerCurrent`, `SuperuserTouchedBySuperuser` | 2 admins, 1 role, 1 permission, 2 requests | holds (1,236,245) |
| `overlap` | `IndInv`, `NothingOverwritten` with two changes of the logo beside other writes | 3 images in 2 formats, 4 revisions, 2 crashes; failures before and after the commit | holds (218,641) |
| `single` | `CommittedLogoServed`, `LogoNeverLost`, `StartsAfterCrash`, `ChangesSettle` with every failure | 1 change at a time, 4 revisions, 3 crashes | holds (6,424) |
| `assets` | `IndInv`, `ReferencesHold`, `ContentKept`, `ReferencedServed` with every failure | 3 assets, 2 contents, 1 article, 1 account, 2 requests, any number of crashes | holds (280,238) |
| `pages` | `SentAsPermitted`, `TargetsOfView`, `DeletesAsConfirmed`, `OneDeletion`, `OwnChangeShown`, `LocksReturned` on each of the seven lists | 1 or 2 rows, 2 requests under way, 1 change of a row | holds (780,923) |
| `forms` | `WritesAsShown`, `PreviewOfItsText`, `NothingLostSilently`, `SavedAsTicked`, `DraftKept`, `FormsSettle` on each of the three forms | 2 revisions of the setting, 4 of the article, 2 changes typed, 4 permissions of the three kinds | holds (210,779) |
| `session` | `LoneTabKeepsSession`, `SessionErrorsTrue`, `EveryCallEnds` | 2 calls, 3 triples of tokens | holds (230,854) |
| `reads` | `OneVersion`, `AbsenceIsTrue`, `NavigationWhole`, `LinksLead`, `ShownIsCurrent` | 2 articles, 2 categories, 1 row a page, 1 change of the content; 3 kinds of administrators, 2 pages of one log | holds (402,582) |
| `late_login` | `ClosedAccountHasNoSession` for a reader | 1 session, 2 tokens, 2 requests, without the refreshing lock | violated |
| `signed_out` | `UnavailableByFault` | as `session` | violated |
| `put_off` | `OutageKeepsCookies` | as `session` | violated |

Why the bounds are enough to be interesting: two requests are what every race of
the backend needs, and a third party (time, Redis, a crash) is an action of its own;
two sessions distinguish the one kept from the others, two tokens a rotation from a
replay; two superusers are what mutual demotion needs; three images give one change
of content within a format and one of format; two crashes allow a crash within a
recovery; two contents and three assets let a content be deleted and uploaded again
beside another. Two requests of a page are what overlaps, two rows what a selection
can confuse, one change of a row what makes it stale. Two calls share a refresh, and
three triples are a login, a refresh and a refresh or password change on top. A page
size of one row gives two articles and two categories a second page, a page past the
end and a walk.

Tokens, versions, passwords, revisions and triples run out: the bound is a guard of
the action that uses them up. Runs that may stop for it (`sessions`, `late_login`),
in which a process may refuse to start (`overlap`, `single`), or in which an author
has left the editor (`forms`), say `CHECK_DEADLOCK FALSE`; the others check deadlock.

Symmetry is used only for interchangeable constants and only with safety.

Fairness. In `SettingsMedia` a change that has begun goes on (nothing in it waits for
the client, and its locks are all released by changes that go on too), and so does a
process that is starting. In the console a request that was sent is answered or fails
(a connection ends with an answer or with an error), and the handler that waits for it
runs:
`SettingsReply` and `EditorReply` in `ConsoleForms`, the server's and the network's
steps and `Arrives`, `RefreshArrives` in `ConsoleSession`, `Answers`, `Previewed` and
the reads of the list in `ConsoleLists`. Nobody has to click, type, publish or change
anything. Requests in the other modules of the backend may wait or be aborted for
ever, and those modules claim no liveness.

### Where code and documents disagree

- `late_login` (`app/services/authentication.py:303`): a login checks the account
  again under its lock, but on the object it loaded before the password was verified.
  A reader disabled in between ends up with an open session, against
  `docs/architecture/authentication-authorization.md:54`. With the refreshing read
  that admins have, the account's state is seen (`sessions`).
- `signed_out` (`app/domains/admin/auth_router.py:77`, `app/api/dependencies.py:198`):
  who has no cookies is answered 401 and tries to refresh, which is refused for its
  CSRF pair with a 403. That is no session error, so the console shows the page that
  could not start instead of the login page that `admin/app.test.tsx:57` expects.
- `put_off` (`app/domains/admin/auth_router.py:80`): the refresh marks the cookies for
  clearing before it is tried, so that a busy mutex (429) or an unreachable Redis
  (503) signs the tab out, against
  `docs/architecture/authentication-authorization.md:81`.

The models have further behaviours of this kind. They are what the code does, and no
run is about them.

- A login that verified the old password opens its session after the password was
  changed (`app/services/authentication.py:303`). For the same reason two password
  changes that loaded the same version store the same new version
  (`app/services/accounts.py:116`): `NewPasswordRaisesVersion` is proved where the read
  refreshes the row and fails without that.
- With `"database"` among the failures `Allowed` in two overlapping changes of the logo
  `CommittedLogoServed` fails: files are moved back after the row was released
  (`app/services/system_settings.py:146`), so that another change can be undone on disk,
  where `docs/architecture/system-settings.md:64` speaks of one file at any time.
- With `"same"` among them `LogoNeverLost` fails: recovery takes the old file for the new
  one if their content is the same (`app/services/settings_media.py:225`,
  `docs/adr/0013-全局系统设置与配置媒体决策.md:21`).
- An upload of a content that has a row looks for its file without locking the row
  (`app/services/assets.py:145`). A deletion that commits in between has its file put
  back: it stays public without a row (`docs/architecture/file-asset-storage.md:64`).
- Two manifests pending at a crash, or a setting patched after a purge failed, make the
  next process refuse to start. The documents foresee the refusal
  (`system-settings.md:66`), which is why `StartsAfterCrash` is checked for one change at
  a time only.
- Opening the edit drawer of the administrators again during the refetch that follows a
  save drops the callback that gives its lock back (`admin/features/admins/AdminsPage.tsx:457`).
- The text of the settings is saved with the revision the query holds by then
  (`admin/features/settings/SettingsPage.tsx:108`), not the one the form was filled from,
  so that a change fetched meanwhile is overwritten (cf. `system-settings.md:53` and `:72`).
- What is typed between the success of an editor's save and its navigation is lost
  (`admin/features/blog/PostEditorPage.tsx:61`).
- Without the catalogue the permission dialog sends the empty set
  (`admin/features/roles/RolesPage.tsx:398`).
- A password change with other calls of the tab under way: their late answers clear
  the cookies it has just been given (`admin/features/account/AccountSettingsPage.tsx:31`).
  Two tabs that refresh at once may end their session.
- `webAuthApi.logout` expects an `ActionResult` where `POST /auth/logout` answers a
  boolean (`web/features/auth/api.ts:16`); the types of the console agree throughout.

## 4. What is proved

All for any sets of accounts, sessions, tokens, requests, admins, roles, images,
changes, calls, rows, articles and terms, and any bounds.

- `AuthSessionsProofs!Invariance`: `IndInv` is inductive. `LiveTokenIsCurrent` alone
  is not: a rotation must know that the token it holds is still live when it
  commits (`RequestOK`), which rests on who holds which lock (`LocksExclusive`) and
  on what a bulk revocation has found covering all it has to revoke. From it
  `LiveTokenTheorem` and `Refinement`: initial states map to initial states of
  `RefreshFamily`, and each step to one of its steps or to a stutter.
  `MutexTheorem`, `CredentialTheorem` and `RevokedTheorem` need no further assumption;
  `VersionTheorem` and `ClosedTheorem` assume `FreshLock`, and `late_login` shows that
  the second must. `LinearTheorem` is the invariant of `RefreshFamily`, proved of that
  module alone and carried over to the sessions by the refinement.
- `AdminRbacProofs`: `Invariance` from the rows each request has locked and what the
  locks keep true; from it the three properties of `rbac` and `GuardTheorem`, that the
  count under the advisory lock never refuses: the actor's own locked row remains.
- `SettingsMediaProofs`: `Invariance` locates every file between any two steps
  (`MidwayOK`) and needs that only one change is undecided (`LocksOK`). It assumes
  `Orderly`: no failing commit, no failure on the way back, no upload of the same
  image; section 3 says what happens otherwise. `OverwrittenTheorem` assumes nothing
  of the kind and uses the smaller `RowInv`. `StartsTheorem` and `AloneTheorem` allow
  every failure, on the way back and in the clean-up too, and instead assume `Alone`:
  one change at a time, between patches of the setting. A manifest that outlives its
  change, because its clean-up failed, matches no later revision of the row, so without
  that assumption the next process refuses to start. `RecoveryInv` says that the row
  tells of a manifest whether its change is committed, and that a committed one has its
  file in place; `LogoInv` adds where the files of the old logo are meanwhile.
- `AssetStoreProofs`: `Invariance` assumes nothing about failures. `ReferencesHold` and
  `ContentKept` need to know that locked rows exist and are locked once
  (`LocksExclusive`, `RequestOK`), that a deletion still under way has found its
  targets without references, and that uploads under way have identifiers of their
  own (`UploadsApart`), so that no compensation removes the file of a row.
  `ReferencesTheorem`, `KeptTheorem` and `ServedTheorem` follow.
- `ConsoleSessionProofs!TabInvariant`: `Ind` is inductive for any number of calls.
  `LoneTabKeepsSession` needs to know that the one refresh under way sends a token not
  yet used (`UnusedSent`), hence where used and new tokens are: what is on its way to
  the tab is new to server and tab (`NewOnTheWay`, `AllDifferent`), and the tab holds a
  used one only while its successor is on its way (`HeldUnused`). All of that holds
  until the session is forked (`Unforked`), and rests on one refresh at a time
  (`OneFlight`) and on what each page may have under way (`PageCalls`).
  `SessionErrorsTheorem` adds that a call sent again carries an access token the
  session accepts (`CallTrue`, `RefreshTrue`). Two generic lemmas (`AnswerStep`,
  `RefreshStep`) carry all steps of the server and the network; `SendStep`, `FreshTab`,
  `EndsStep` and `JoinsStep` those of the tab.
- `ConsoleListsProofs!ListsInvariant`: `ListInv` is inductive for any rows and any
  number of overlapping requests, whichever page is open. A lock has one holder, and
  only requests under way hold one (`OneHolder`), while a deletion always holds that of
  the confirmation (`Confirmed`): hence `OneDeletionTheorem` and
  `DeletesAsConfirmedTheorem`. `Returned` turns the same around for
  `LocksReturnedTheorem`; its exception is the drawer of administrators, whose saves
  take no lock but their own. `InView` follows the rows from the selection through
  dialogs and previews to the requests, for `TargetsOfViewTheorem`. `Fresh` compares
  what the page was told with the server, the answer on its way and the list, for
  `OwnChangeShownTheorem`; a mutation that does not refresh the list must then be one
  that changes nothing it shows (`QuietEffects`). Each page's buttons reduce to a few
  kinds of step (`RowSendingKeeps`, `DialogSendingKeeps`, `OpeningKeeps`, ...), provided
  that use, operation and lock go together (`Fits`). For `SentAsPermittedTheorem` each
  operation is looked up in the tables of the routers (`UserGrants`, `TaxonomyGrants`,
  ...), and no later step changes what a request asks for (`RestGrants`). That the call
  of each operation reaches it, in a table of a hundred routes searched in order, is one
  closed statement without parameters, `CallsAssumption`: TLC evaluates it whenever it
  starts on `pages`, and the theorem rests on it.
- `ConsoleFormsProofs!FormsInvariant`: `FormsInv` is inductive for any number of
  revisions, changes typed and permissions. `WritesAsShown` needs that a row the page
  holds, wherever it got it, is an earlier one or the one on the server (`Snapshots`), and
  that the article has the content the editor started from as long as it has that
  revision (`Started`): then a server that compares revisions compares contents.
  `Filled` says that the form is filled before anything of it can be sent. For
  `NothingLostTheorem`, `Accounted` follows a draft through its submission: it is frozen
  until the answer, and nobody leaves unasked before everything but what is typed late is
  stored. `SavedAsTickedTheorem` needs that tools and tree are only offered on the whole
  catalogue. `DraftKeptTheorem`, an action property, needs that only a form filled
  from a cached row is dirty.
- `ReadPagesProofs!ReadPagesInvariant`: `PagesInv` is inductive for any articles, terms
  and page sizes. `ReadingInv` says that everything a page has read was so of some
  content since it was asked for (`Told`), the two statements of a list each of its own.
  `AbsenceIsTrueTheorem` follows read by read. For `NavigationWholeTheorem` the pages of
  a list have to be shown to hold all of its rows (`PagesHaveAll`), and the walk to reach
  the last one (`WalkReachesAll`). `LinksLeadTheorem` needs `LinkStands`, that a link that
  was followed is to what is there until the content changes; `LinkedIsThere` proves it
  for lists, articles, the navigation and the sitemaps.
  `OneVersionTheorem` needs no invariant: title and text go through the same read.
  `DashInv` compares what each query holds, and what is on its way to it, with what was
  so when it last was asked (`TrueSince`), for `ShownIsCurrentTheorem`.

Only model-checked: liveness (`ChangesSettle`, `FormsSettle`, `EveryCallEnds`), which
is out of the reach of the provers, and the closed statement `CallsAssumption` about the
tables of `ApiContract`, which takes an evaluator rather than a prover. Every other
property of a run that holds is a theorem; three of `SettingsMedia` and one of
`AuthSessions` (`ClosedTheorem`) under the assumptions named above. No module of this
development declares a RECURSIVE operator.

## 5. What could follow

1. `BlogContent`: the advisory lock, the impact token of a confirmed taxonomy deletion
   and the slugs, below the revisions and references that `ListPage`, `PostEditor` and
   `AssetStore` already rely on.
2. `RequestLog`: stream, group, reclaiming and dead letters over an abstract bag of
   entries.
3. `AuditTrail`: an event's three transactions around an abstract operation.

## 6. Not modelled

- The audit trail and the request log: rows nothing in the service reads back. The
  insert of a request log ignores an identifier it already has.
- The blog's own server side beyond what the others rely on: the impact token, slugs,
  Markdown, the dates of publication.
- The reader client (`web/lib/api/http.ts`, `web/features/auth`): at this commit the
  pages for login, registration and the account call `notFound()`, the proxy passes on
  only cookies whose names begin with `pinjie_web_`, and the components that show the
  system's status and upload images are not mounted.
- Layout, themes, fields and their validation, the selects of taxonomies, the return
  address of a login, metadata other than whose version it is.
- Health probes, telemetry, headers, rate limits, the sanitising of payloads, password
  hashing and its upgrades, the synchronisation of the permission catalogue.
- Migrations, operator scripts, CI.
