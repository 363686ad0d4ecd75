----------------------------- MODULE Dashboards -----------------------------
(***************************************************************************)
(* The pages of the admin console that only read: the status of the        *)
(* system, which may be polled, and the security page with its logs.  Each *)
(* page of a log is a query of its own; the request logs may be switched   *)
(* off on the server, which its tab shows as a notice instead of an error. *)
(* A query keeps its data beside the error of a later request.             *)
(***************************************************************************)
EXTENDS Naturals

CONSTANTS
  Staff,       \* the permissions an administrator may have, as sets
  LogPages,    \* page numbers of each log
  MaxRev       \* bound on the changes of what the pages show

Logs == {"login", "audit", "request"}
Grants == Logs \cup {"overview"}

ASSUME StaffAssumption == Staff \subseteq SUBSET Grants
ASSUME LogPagesAssumption ==
  DOMAIN LogPages = Logs /\ \A log \in Logs : LogPages[log] \subseteq Nat /\ 1 \in LogPages[log]
ASSUME RevAssumption == MaxRev \in Nat

VARIABLES
  grants,      \* permissions of the administrator, as of the login
  facts,       \* on the server: what there is to show, the request log's mode
  screen,      \* the page that is open, and the tab of the security page
  number,      \* the page of each log
  polling,     \* the status is asked for again by itself
  queries,     \* the queries: data, error, and the request that is under way
  truth        \* per query, what was true since its last settled request was sent

dashVars == <<grants, facts, screen, number, polling, queries, truth>>

-----------------------------------------------------------------------------
\* The key of a query.
Queries == {<<"overview", 1>>} \cup UNION {{log} \X LogPages[log] : log \in Logs}

Errors == {"none", "disabled", "other"}
Reply == [rev : 0..MaxRev, error : Errors]
NoReply == [rev |-> 0, error |-> "none"]

\* rev 0: the query has no data.
Query == [rev : 0..MaxRev, error : Errors, fetch : {"idle", "sent", "served"}, reply : Reply]
Unasked == [rev |-> 0, error |-> "none", fetch |-> "idle", reply |-> NoReply]

\* What was so: the earliest revision, and whether the request log was off,
\* since the request under way was sent and since the last settled one was.
Truth == [from : 0..MaxRev, off : BOOLEAN, before : 0..MaxRev, offBefore : BOOLEAN]
Sent(t) == [t EXCEPT !.from = facts.rev, !.off = ~facts.logging]

-----------------------------------------------------------------------------
(* What is open and what it shows.                                         *)

\* canSystem, canSecurity: the entries of the menu.
Entries == (IF "overview" \in grants THEN {"overview"} ELSE {})
             \cup (IF grants \cap Logs # {} THEN {"security"} ELSE {})

\* SecurityPage: a tab for each log the administrator may read.
Tabs == grants \cap Logs

Open == IF screen.page = "security" THEN {<<screen.tab, number[screen.tab]>>}
        ELSE IF screen.page = "overview" THEN {<<"overview", 1>>} ELSE {}

\* Mutant: the warning is shown only where there is nothing else to show.
WarnsIfEmpty(q) == queries[q].error # "none" /\ queries[q].rev = 0

\* query.isError: an alert beside the data or in their place.
Warns(q) == queries[q].error # "none"

\* RequestLogs: an ApiError 409 replaces the table.
Notice(q) == q[1] = "request" /\ queries[q].error = "disabled"

Shown(q) == queries[q].rev # 0 /\ ~Notice(q)

-----------------------------------------------------------------------------
(* The queries.                                                            *)

\* A query is asked.  Where it has data a request under way is dropped for
\* the new one, else the new one joins it.  An error is forgotten where there
\* is nothing else to show.
Asked(q) ==
  IF queries[q].fetch # "idle" /\ queries[q].rev = 0 THEN queries[q]
  ELSE [queries[q] EXCEPT !.fetch = "sent", !.reply = NoReply,
                          !.error = IF queries[q].rev = 0 THEN "none" ELSE queries[q].error]

AskAll(set) ==
  /\ queries' = [q \in Queries |-> IF q \in set THEN Asked(q) ELSE queries[q]]
  /\ truth' = [q \in Queries |->
       IF q \in set /\ ~(queries[q].fetch # "idle" /\ queries[q].rev = 0)
       THEN Sent(truth[q]) ELSE truth[q]]

\* What the page asks when it comes to show a query: nothing if the data are
\* fresh (staleTime) or the tab was mounted before, else a request unless one
\* is under way.
MountAsks(q) ==
  \/ /\ queries[q].fetch = "idle"
     /\ AskAll({q})
  \/ /\ queries[q] # Unasked
     /\ UNCHANGED <<queries, truth>>

Goes(page, tab) ==
  LET q == IF page = "overview" THEN <<"overview", 1>> ELSE <<tab, number'[tab]>> IN
  /\ screen' = [page |-> page, tab |-> tab]
  /\ MountAsks(q)

\* A page left and opened anew starts its logs from their first page and does
\* not poll.
Opens(page) ==
  /\ page \in Entries
  /\ number' = [log \in Logs |-> 1]
  /\ polling' = FALSE
  /\ \E tab \in IF page = "security" THEN Tabs ELSE {"none"} : Goes(page, tab)
  /\ UNCHANGED <<grants, facts>>

\* Another tab, at the page of its log that was open last.
Switches(tab) ==
  /\ screen.page = "security"
  /\ tab \in Tabs
  /\ UNCHANGED number
  /\ Goes("security", tab)
  /\ UNCHANGED <<grants, facts, polling>>

\* Another page of the log.
Turns(page) ==
  /\ screen.page = "security"
  /\ queries[<<screen.tab, number[screen.tab]>>].rev # 0
  /\ ~Notice(<<screen.tab, number[screen.tab]>>)
  /\ number' = [number EXCEPT ![screen.tab] = page]
  /\ Goes("security", screen.tab)
  /\ UNCHANGED <<grants, facts, polling>>

\* The reload and retry buttons, and a return to the window.
Refetches ==
  /\ Open # {}
  /\ AskAll(Open)
  /\ UNCHANGED <<grants, facts, screen, number, polling>>

SetsPolling(on) ==
  /\ screen.page = "overview"
  /\ polling' = on
  /\ UNCHANGED <<grants, facts, screen, number, queries, truth>>

\* The interval: a request under way is joined.
Polls ==
  /\ polling
  /\ queries[<<"overview", 1>>].fetch = "idle"
  /\ AskAll({<<"overview", 1>>})
  /\ UNCHANGED <<grants, facts, screen, number, polling>>

Permitted(q) == q[1] \in grants

ServesQuery(q) ==
  /\ queries[q].fetch = "sent"
  /\ queries' = [queries EXCEPT ![q].fetch = "served", ![q].reply =
       IF ~Permitted(q) THEN [rev |-> 0, error |-> "other"]
       ELSE IF q[1] = "request" /\ ~facts.logging THEN [rev |-> 0, error |-> "disabled"]
       ELSE [rev |-> facts.rev, error |-> "none"]]
  /\ UNCHANGED <<grants, facts, screen, number, polling, truth>>

\* The request fails: no answer, or an error of another kind.
BreaksQuery(q) ==
  /\ queries[q].fetch # "idle"
  /\ queries' = [queries EXCEPT ![q].fetch = "served",
                                ![q].reply = [rev |-> 0, error |-> "other"]]
  /\ UNCHANGED <<grants, facts, screen, number, polling, truth>>

\* Data replace the data, an error leaves them.
QueryArrives(q) ==
  LET reply == queries[q].reply IN
  /\ queries[q].fetch = "served"
  /\ queries' = [queries EXCEPT ![q] =
       [rev |-> IF reply.error = "none" THEN reply.rev ELSE @.rev, error |-> reply.error,
        fetch |-> "idle", reply |-> NoReply]]
  /\ truth' = [truth EXCEPT ![q] = [from |-> 0, off |-> FALSE,
                                     before |-> @.from, offBefore |-> @.off]]
  /\ UNCHANGED <<grants, facts, screen, number, polling>>

\* What the pages show changes; the mode of the request log is changed by a
\* restart.
FactsChange ==
  /\ \/ /\ facts.rev < MaxRev
        /\ facts' = [facts EXCEPT !.rev = @ + 1]
     \/ facts' = [facts EXCEPT !.logging = ~@]
  /\ truth' = [q \in Queries |->
       [truth[q] EXCEPT !.off = queries[q].fetch # "idle" /\ (@ \/ ~facts'.logging),
                        !.offBefore = (queries[q].rev # 0 \/ queries[q].error # "none") /\ (@ \/ ~facts'.logging)]]
  /\ UNCHANGED <<grants, screen, number, polling, queries>>

DashInit ==
  /\ grants \in Staff
  /\ facts = [rev |-> 1, logging |-> TRUE]
  /\ screen = [page |-> "none", tab |-> "none"]
  /\ number = [log \in Logs |-> 1]
  /\ polling = FALSE
  /\ queries = [q \in Queries |-> Unasked]
  /\ truth = [q \in Queries |-> [from |-> 0, off |-> FALSE, before |-> 0, offBefore |-> FALSE]]

DashNext ==
  \/ \E page \in {"overview", "security"} : Opens(page)
  \/ \E tab \in Logs : Switches(tab)
  \/ \E log \in Logs : \E page \in LogPages[log] : log = screen.tab /\ Turns(page)
  \/ \E on \in BOOLEAN : SetsPolling(on)
  \/ Refetches
  \/ Polls
  \/ \E q \in Queries : ServesQuery(q) \/ BreaksQuery(q) \/ QueryArrives(q)
  \/ FactsChange

-----------------------------------------------------------------------------
(* Properties.                                                             *)

\* What a dashboard shows without a warning was so at some moment since the
\* last of its requests that was settled, whatever was dropped, joined or
\* polled meanwhile; and the request log is only said to be switched off if
\* it was (SystemStatusPage, RequestLogs).
ShownIsCurrent ==
  \A q \in Open :
    /\ Shown(q) /\ ~Warns(q) => queries[q].rev >= truth[q].before
    /\ Notice(q) => truth[q].offBefore
=============================================================================
