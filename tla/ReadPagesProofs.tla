-------------------------- MODULE ReadPagesProofs --------------------------
(***************************************************************************)
(* Proofs about the pages that only read, for any articles, terms, page    *)
(* sizes, logs and permissions.                                            *)
(***************************************************************************)
EXTENDS ReadPages, FiniteSetTheorems, WellFoundedInduction, TLAPS

-----------------------------------------------------------------------------
(* The inductive invariant of the dashboards.                              *)

Screen == [page : {"none", "overview", "security"}, tab : Logs \cup {"none"}]
AnyReply == [rev : Nat, error : Errors]
AnyQuery == [rev : Nat, error : Errors, fetch : {"idle", "sent", "served"}, reply : AnyReply]
AnyTruth == [from : Nat, off : BOOLEAN, before : Nat, offBefore : BOOLEAN]

DashTyped ==
  /\ grants \subseteq Grants
  /\ facts \in [rev : Nat, logging : BOOLEAN]
  /\ screen \in Screen
  /\ screen.page = "security" => screen.tab \in Logs
  /\ number \in [Logs -> Nat]
  /\ \A log \in Logs : number[log] \in LogPages[log]
  /\ queries \in [Queries -> AnyQuery]
  /\ truth \in [Queries -> AnyTruth]

\* A request under way was sent at a moment whose truth is kept until it is
\* settled, and its answer is as of that moment or later; what is shown
\* without a warning came with the last answer that was settled.
TrueSince(q) ==
  /\ truth[q].from <= facts.rev
  /\ queries[q].fetch = "sent" => (~facts.logging => truth[q].off)
  /\ queries[q].fetch = "served" =>
       /\ queries[q].reply.error = "none" => queries[q].reply.rev >= truth[q].from
       /\ queries[q].reply.error = "disabled" => truth[q].off
  /\ queries[q].error = "none" /\ queries[q].rev # 0 => queries[q].rev >= truth[q].before
  /\ queries[q].error = "disabled" => truth[q].offBefore

DashInv == DashTyped /\ \A q \in Queries : TrueSince(q)

-----------------------------------------------------------------------------
(* The queries of the dashboards.                                          *)

LEMMA NoReplyType == NoReply \in AnyReply /\ Unasked \in AnyQuery
<1>1. NoReply \in AnyReply BY DEF NoReply, AnyReply, Errors
<1>. QED BY <1>1 DEF Unasked, AnyQuery, Errors

\* Asking a query, which drops or joins a request under way.
LEMMA AskedQuery ==
  ASSUME NEW q \in Queries, queries[q] \in AnyQuery
  PROVE  /\ Asked(q) \in AnyQuery
         /\ Asked(q).rev = queries[q].rev
         /\ queries[q].fetch # "idle" /\ queries[q].rev = 0 => Asked(q) = queries[q]
         /\ ~(queries[q].fetch # "idle" /\ queries[q].rev = 0) =>
              /\ Asked(q).fetch = "sent"
              /\ queries[q].rev = 0 => Asked(q).error = "none"
              /\ queries[q].rev # 0 => Asked(q).error = queries[q].error
<1>. DEFINE error == IF queries[q].rev = 0 THEN "none" ELSE queries[q].error
            a == [queries[q] EXCEPT !.fetch = "sent"]
            b == [a EXCEPT !.reply = NoReply]
            c == [b EXCEPT !.error = error]
<1>1. error \in Errors BY DEF AnyQuery, Errors
<1>2. a \in AnyQuery /\ a.fetch = "sent" /\ a.rev = queries[q].rev BY DEF AnyQuery
<1>. HIDE DEF a, error
<1>3. b \in AnyQuery /\ b.fetch = "sent" /\ b.rev = queries[q].rev
  BY <1>2, NoReplyType DEF AnyQuery
<1>. HIDE DEF b
<1>4. c \in AnyQuery /\ c.fetch = "sent" /\ c.rev = queries[q].rev /\ c.error = error
  BY <1>1, <1>3 DEF AnyQuery
<1>. HIDE DEF c
<1>5. Asked(q) = IF queries[q].fetch # "idle" /\ queries[q].rev = 0 THEN queries[q] ELSE c
  BY DEF Asked, a, b, c, error
<1>. QED BY <1>4, <1>5 DEF error

LEMMA SentTruth ==
  ASSUME DashTyped, NEW t \in AnyTruth
  PROVE  /\ Sent(t) \in AnyTruth
         /\ Sent(t).from = facts.rev /\ (~facts.logging => Sent(t).off)
         /\ Sent(t).before = t.before /\ Sent(t).offBefore = t.offBefore
<1>. DEFINE a == [t EXCEPT !.from = facts.rev]
            b == [a EXCEPT !.off = ~facts.logging]
<1>1. /\ a \in AnyTruth /\ a.from = facts.rev
      /\ a.before = t.before /\ a.offBefore = t.offBefore
  BY DEF DashTyped, AnyTruth
<1>. HIDE DEF a
<1>2. /\ b \in AnyTruth /\ b.from = facts.rev /\ (~facts.logging => b.off)
      /\ b.before = t.before /\ b.offBefore = t.offBefore
  BY <1>1 DEF AnyTruth
<1>. HIDE DEF b
<1>3. Sent(t) = b BY DEF Sent, a, b
<1>. QED BY <1>2, <1>3

LEMMA AskingAll ==
  ASSUME DashInv, NEW set \in SUBSET Queries, AskAll(set), facts' = facts
  PROVE  /\ queries' \in [Queries -> AnyQuery] /\ truth' \in [Queries -> AnyTruth]
         /\ \A q \in Queries : TrueSince(q)'
<1>1. queries \in [Queries -> AnyQuery] /\ truth \in [Queries -> AnyTruth]
  BY DEF DashInv, DashTyped
<1>2. ASSUME NEW q \in Queries
      PROVE  queries'[q] \in AnyQuery /\ truth'[q] \in AnyTruth /\ TrueSince(q)'
  <2>1. TrueSince(q) /\ queries[q] \in AnyQuery /\ truth[q] \in AnyTruth
    BY <1>1 DEF DashInv
  <2>2. CASE q \in set /\ ~(queries[q].fetch # "idle" /\ queries[q].rev = 0)
    <3>1. queries'[q] = Asked(q) /\ truth'[q] = Sent(truth[q])
      BY <2>2 DEF AskAll
    <3>2. /\ queries'[q] \in AnyQuery /\ queries'[q].fetch = "sent"
          /\ queries'[q].rev = queries[q].rev
          /\ queries[q].rev = 0 => queries'[q].error = "none"
          /\ queries[q].rev # 0 => queries'[q].error = queries[q].error
      BY <2>1, <2>2, <3>1, AskedQuery
    <3>3. /\ truth'[q] \in AnyTruth
          /\ truth'[q].from = facts.rev /\ (~facts.logging => truth'[q].off)
          /\ truth'[q].before = truth[q].before /\ truth'[q].offBefore = truth[q].offBefore
      BY <2>1, <3>1, SentTruth DEF DashInv
    <3>4. facts' = facts /\ facts.rev \in Nat /\ facts.logging \in BOOLEAN BY DEF DashInv, DashTyped
    <3>5. TrueSince(q)'
      <4>1. queries[q].rev \in Nat /\ truth[q].offBefore \in BOOLEAN BY <2>1 DEF AnyQuery, AnyTruth
      <4>2. truth'[q].from <= facts'.rev /\ (~facts'.logging => truth'[q].off)
        BY <3>3, <3>4
      <4>3. queries'[q].error = "none" /\ queries'[q].rev # 0 => queries'[q].rev >= truth'[q].before
        BY <2>1, <3>2, <3>3 DEF TrueSince
      <4>4. queries'[q].error = "disabled" => truth'[q].offBefore
        BY <2>1, <3>2, <3>3 DEF TrueSince
      <4>. QED BY <3>2, <4>2, <4>3, <4>4 DEF TrueSince
    <3>. QED BY <3>2, <3>3, <3>5
  <2>3. CASE ~(q \in set /\ ~(queries[q].fetch # "idle" /\ queries[q].rev = 0))
    <3>1. queries'[q] = queries[q] /\ truth'[q] = truth[q]
      BY <2>1, <2>3, AskedQuery DEF AskAll
    <3>. QED BY <2>1, <3>1 DEF TrueSince
  <2>. QED BY <2>2, <2>3
<1>3. queries' = [q \in Queries |-> queries'[q]] /\ truth' = [q \in Queries |-> truth'[q]]
  BY DEF AskAll
<1>. QED BY <1>2, <1>3

LEMMA DashInitOK == DashInit => DashInv
<1>. SUFFICES ASSUME DashInit PROVE DashInv OBVIOUS
<1>1. DashTyped
  <2>1. grants \subseteq Grants BY StaffAssumption DEF DashInit
  <2>2. facts \in [rev : Nat, logging : BOOLEAN] BY DEF DashInit
  <2>3. screen \in Screen /\ screen.page # "security" BY DEF DashInit, Screen
  <2>4. number \in [Logs -> Nat] /\ \A log \in Logs : number[log] \in LogPages[log]
    BY LogPagesAssumption DEF DashInit
  <2>5. queries \in [Queries -> AnyQuery] BY NoReplyType DEF DashInit
  <2>6. truth \in [Queries -> AnyTruth] BY DEF DashInit, AnyTruth
  <2>. QED BY <2>1, <2>2, <2>3, <2>4, <2>5, <2>6 DEF DashTyped
<1>2. ASSUME NEW q \in Queries PROVE TrueSince(q)
  BY DEF DashInit, TrueSince, Unasked
<1>. QED BY <1>1, <1>2 DEF DashInv

\* The page that is opened asks for what it shows.
LEMMA OpenQuery == ASSUME DashTyped PROVE Open \in SUBSET Queries
  BY DEF DashTyped, Open, Queries

\* A step that only asks.
LEMMA AskingStep ==
  ASSUME DashInv, NEW set \in SUBSET Queries,
         AskAll(set) \/ UNCHANGED <<queries, truth>>, UNCHANGED <<grants, facts>>,
         screen' \in Screen, screen'.page = "security" => screen'.tab \in Logs,
         number' \in [Logs -> Nat], \A log \in Logs : number'[log] \in LogPages[log]
  PROVE  DashInv'
<1>1. queries' \in [Queries -> AnyQuery] /\ truth' \in [Queries -> AnyTruth]
        /\ \A q \in Queries : TrueSince(q)'
  <2>1. CASE AskAll(set) BY <2>1, AskingAll
  <2>2. CASE UNCHANGED <<queries, truth>> BY <2>2 DEF DashInv, DashTyped, TrueSince
  <2>. QED BY <2>1, <2>2
<1>. QED BY <1>1 DEF DashInv, DashTyped

LEMMA PageSteps ==
  ASSUME DashInv,
         \/ \E page \in {"overview", "security"} : Opens(page)
         \/ \E tab \in Logs : Switches(tab)
         \/ \E log \in Logs : \E page \in LogPages[log] : log = screen.tab /\ Turns(page)
         \/ \E on \in BOOLEAN : SetsPolling(on)
         \/ Refetches \/ Polls
  PROVE  DashInv'
<1>0. DashTyped BY DEF DashInv
<1>1. ASSUME NEW page \in {"overview", "security"}, NEW tab \in Logs \cup {"none"},
             page = "security" => tab \in Logs,
             number' \in [Logs -> Nat], \A log \in Logs : number'[log] \in LogPages[log],
             Goes(page, tab), UNCHANGED <<grants, facts>>
      PROVE  DashInv'
  <2>. DEFINE q == IF page = "overview" THEN <<"overview", 1>> ELSE <<tab, number'[tab]>>
  <2>1. q \in Queries BY <1>1 DEF Queries
  <2>2. screen' \in Screen /\ (screen'.page = "security" => screen'.tab \in Logs)
    BY <1>1 DEF Goes, Screen
  <2>3. AskAll({q}) \/ UNCHANGED <<queries, truth>> BY <1>1 DEF Goes, MountAsks
  <2>4. {q} \in SUBSET Queries BY <2>1
  <2>. QED BY <1>1, <2>2, <2>3, <2>4, AskingStep
<1>2. ASSUME NEW page \in {"overview", "security"}, Opens(page) PROVE DashInv'
  <2>1. PICK tab \in IF page = "security" THEN Tabs ELSE {"none"} : Goes(page, tab)
    BY <1>2 DEF Opens
  <2>2. number' \in [Logs -> Nat] /\ \A log \in Logs : number'[log] \in LogPages[log]
    BY <1>2, LogPagesAssumption DEF Opens
  <2>. QED BY <1>1, <1>2, <2>1, <2>2 DEF Opens, Tabs
<1>3. ASSUME NEW tab \in Logs, Switches(tab) PROVE DashInv'
  BY <1>0, <1>1, <1>3 DEF Switches, DashTyped
<1>4. ASSUME NEW log \in Logs, NEW page \in LogPages[log], log = screen.tab, Turns(page)
      PROVE  DashInv'
  <2>1. page \in Nat BY LogPagesAssumption
  <2>2. number' = [number EXCEPT ![log] = page] BY <1>4 DEF Turns
  <2>3. number' \in [Logs -> Nat] /\ \A x \in Logs : number'[x] \in LogPages[x]
    BY <1>0, <2>1, <2>2 DEF DashTyped
  <2>. QED BY <1>1, <1>4, <2>3 DEF Turns
<1>5. ASSUME NEW on \in BOOLEAN, SetsPolling(on) PROVE DashInv'
  BY <1>0, <1>5, AskingStep DEF SetsPolling, DashTyped
<1>6. CASE Refetches BY <1>0, <1>6, OpenQuery, AskingStep DEF Refetches, DashTyped
<1>7. CASE Polls
  <2>1. {<<"overview", 1>>} \in SUBSET Queries BY DEF Queries
  <2>. QED BY <1>0, <1>7, <2>1, AskingStep DEF Polls, DashTyped
<1>. QED BY <1>2, <1>3, <1>4, <1>5, <1>6, <1>7

\* An answer of the server, or none.
LEMMA AnswerSteps ==
  ASSUME DashInv, NEW q \in Queries, ServesQuery(q) \/ BreaksQuery(q)
  PROVE  DashInv'
<1>0. DashTyped /\ TrueSince(q) /\ queries[q] \in AnyQuery /\ truth[q] \in AnyTruth
  BY DEF DashInv, DashTyped
<1>1. PICK reply \in AnyReply :
        /\ queries' = [queries EXCEPT ![q].fetch = "served", ![q].reply = reply]
        /\ reply.error = "none" => reply.rev = facts.rev /\ queries[q].fetch = "sent"
        /\ reply.error = "disabled" => ~facts.logging /\ queries[q].fetch = "sent"
  <2>1. /\ [rev |-> 0, error |-> "other"] \in AnyReply
        /\ [rev |-> 0, error |-> "disabled"] \in AnyReply
        /\ [rev |-> facts.rev, error |-> "none"] \in AnyReply
    BY <1>0 DEF AnyReply, Errors, DashTyped
  <2>2. CASE BreaksQuery(q) BY <2>1, <2>2 DEF BreaksQuery
  <2>3. CASE ServesQuery(q)
    <3>1. CASE ~Permitted(q) BY <2>1, <2>3, <3>1 DEF ServesQuery
    <3>2. CASE Permitted(q) /\ q[1] = "request" /\ ~facts.logging
      BY <2>1, <2>3, <3>2 DEF ServesQuery
    <3>3. CASE Permitted(q) /\ ~(q[1] = "request" /\ ~facts.logging)
      BY <2>1, <2>3, <3>3 DEF ServesQuery
    <3>. QED BY <3>1, <3>2, <3>3
  <2>. QED BY <2>2, <2>3
<1>2. /\ queries' \in [Queries -> AnyQuery]
      /\ queries'[q].fetch = "served" /\ queries'[q].reply = reply
      /\ queries'[q].rev = queries[q].rev /\ queries'[q].error = queries[q].error
      /\ \A x \in Queries : x # q => queries'[x] = queries[x]
  BY <1>0, <1>1 DEF DashTyped, AnyQuery
<1>3. UNCHANGED <<grants, facts, screen, number, truth>>
  BY DEF ServesQuery, BreaksQuery
<1>4. TrueSince(q)'
  BY <1>0, <1>1, <1>2, <1>3 DEF TrueSince, AnyTruth, DashTyped
<1>5. \A x \in Queries : x # q => TrueSince(x)'
  BY <1>2, <1>3 DEF DashInv, TrueSince
<1>6. DashTyped' BY <1>0, <1>2, <1>3 DEF DashTyped
<1>. QED BY <1>4, <1>5, <1>6 DEF DashInv

\* A request is settled: its data replace the data, an error leaves them.
LEMMA ArrivalStep ==
  ASSUME DashInv, NEW q \in Queries, QueryArrives(q)
  PROVE  DashInv'
<1>0. DashTyped /\ TrueSince(q) /\ queries[q] \in AnyQuery /\ truth[q] \in AnyTruth
  BY DEF DashInv, DashTyped
<1>. DEFINE reply == queries[q].reply
            rev == IF reply.error = "none" THEN reply.rev ELSE queries[q].rev
            new == [rev |-> rev, error |-> reply.error, fetch |-> "idle", reply |-> NoReply]
            past == [from |-> 0, off |-> FALSE,
                     before |-> truth[q].from, offBefore |-> truth[q].off]
<1>1. /\ queries[q].fetch = "served"
      /\ queries' = [queries EXCEPT ![q] = new]
      /\ truth' = [truth EXCEPT ![q] = past]
      /\ UNCHANGED <<grants, facts, screen, number, polling>>
  BY DEF QueryArrives
<1>2. reply \in AnyReply BY <1>0 DEF AnyQuery
<1>3. rev \in Nat BY <1>0, <1>2 DEF AnyQuery, AnyReply
<1>. HIDE DEF rev
<1>4. new \in AnyQuery BY <1>2, <1>3, NoReplyType DEF AnyQuery, AnyReply
<1>5. past \in AnyTruth BY <1>0 DEF AnyTruth
<1>6. /\ queries' \in [Queries -> AnyQuery] /\ truth' \in [Queries -> AnyTruth]
      /\ queries'[q] = new /\ truth'[q] = past
      /\ \A x \in Queries : x # q => queries'[x] = queries[x] /\ truth'[x] = truth[x]
  BY <1>0, <1>1, <1>4, <1>5 DEF DashTyped
<1>7. TrueSince(q)'
  <2>1. reply.error = "none" => rev >= truth[q].from BY <1>0, <1>1 DEF TrueSince, rev
  <2>2. reply.error = "disabled" => truth[q].off BY <1>0, <1>1 DEF TrueSince
  <2>3. 0 <= facts'.rev BY <1>0, <1>1 DEF DashTyped
  <2>. QED BY <1>6, <2>1, <2>2, <2>3 DEF TrueSince
<1>8. \A x \in Queries : x # q => TrueSince(x)'
  BY <1>1, <1>6 DEF DashInv, TrueSince
<1>9. DashTyped' BY <1>0, <1>1, <1>6 DEF DashTyped
<1>. QED BY <1>7, <1>8, <1>9 DEF DashInv

\* What the pages show changes on the server.
LEMMA FactsStep ==
  ASSUME DashInv, FactsChange
  PROVE  DashInv'
<1>0. DashTyped BY DEF DashInv
<1>1. facts' \in [rev : Nat, logging : BOOLEAN] /\ facts'.rev >= facts.rev
  <2>1. \/ facts' = [facts EXCEPT !.rev = @ + 1]
        \/ facts' = [facts EXCEPT !.logging = ~@]
    BY Zenon DEF FactsChange
  <2>2. facts \in [rev : Nat, logging : BOOLEAN] BY <1>0 DEF DashTyped
  <2>3. CASE facts' = [facts EXCEPT !.rev = @ + 1] BY <2>2, <2>3
  <2>4. CASE facts' = [facts EXCEPT !.logging = ~@]
    <3>1. PICK on \in BOOLEAN : facts' = [facts EXCEPT !.logging = on] BY <2>4, Zenon
    <3>2. facts' \in [rev : Nat, logging : BOOLEAN] /\ facts'.rev = facts.rev BY <2>2, <3>1
    <3>. QED BY <2>2, <3>2
  <2>. QED BY <2>1, <2>3, <2>4
<1>2. UNCHANGED <<grants, screen, number, queries>>
  <2>1. UNCHANGED <<grants, screen, number, polling, queries>> BY Zenon DEF FactsChange
  <2>. QED BY <2>1
<1>3. ASSUME NEW q \in Queries
      PROVE  /\ truth'[q] \in AnyTruth
             /\ truth'[q].from = truth[q].from /\ truth'[q].before = truth[q].before
             /\ truth'[q].off = (queries[q].fetch # "idle" /\ (truth[q].off \/ ~facts'.logging))
             /\ truth'[q].offBefore = ((queries[q].rev # 0 \/ queries[q].error # "none")
                                         /\ (truth[q].offBefore \/ ~facts'.logging))
  <2>. DEFINE off == queries[q].fetch # "idle" /\ (truth[q].off \/ ~facts'.logging)
              offBefore == (queries[q].rev # 0 \/ queries[q].error # "none")
                              /\ (truth[q].offBefore \/ ~facts'.logging)
              a == [truth[q] EXCEPT !.off = off]
              b == [a EXCEPT !.offBefore = offBefore]
  <2>1. truth[q] \in AnyTruth BY <1>0 DEF DashTyped
  <2>2. a \in AnyTruth /\ a.from = truth[q].from /\ a.before = truth[q].before
          /\ a.off = off /\ a.offBefore = truth[q].offBefore
    BY <2>1 DEF AnyTruth
  <2>3. truth'[q] = b
    BY DEF FactsChange
  <2>. HIDE DEF a, off, offBefore
  <2>4. offBefore \in BOOLEAN BY DEF offBefore
  <2>5. b \in AnyTruth /\ b.from = a.from /\ b.before = a.before /\ b.off = a.off
          /\ b.offBefore = offBefore
    BY <2>2, <2>4 DEF AnyTruth
  <2>. HIDE DEF b
  <2>. QED BY <2>2, <2>3, <2>5 DEF off, offBefore
<1>4. truth' \in [Queries -> AnyTruth]
  <2>1. truth' = [q \in Queries |-> truth'[q]] BY Zenon DEF FactsChange
  <2>. QED BY <1>3, <2>1
<1>5. ASSUME NEW q \in Queries PROVE TrueSince(q)'
  <2>1. TrueSince(q) /\ queries[q] \in AnyQuery /\ truth[q] \in AnyTruth
    BY <1>0 DEF DashInv, DashTyped
  <2>. QED BY <1>0, <1>1, <1>2, <1>3, <2>1 DEF TrueSince, DashTyped, AnyTruth, AnyQuery
<1>. QED BY <1>0, <1>1, <1>2, <1>4, <1>5 DEF DashInv, DashTyped

LEMMA DashStep ==
  ASSUME DashInv, DashNext \/ UNCHANGED dashVars
  PROVE  DashInv'
<1>1. CASE DashNext
  BY <1>1, PageSteps, AnswerSteps, ArrivalStep, FactsStep DEF DashNext
<1>2. CASE UNCHANGED dashVars BY <1>2 DEF dashVars, DashInv, DashTyped, TrueSince
<1>. QED BY <1>1, <1>2

LEMMA DashCurrent == DashInv => ShownIsCurrent
  BY OpenQuery DEF DashInv, ShownIsCurrent, TrueSince, Shown, Warns, Notice

-----------------------------------------------------------------------------
(* The inductive invariant of the public site.                             *)

Ats == {"home", "article", "term", "search", "index", "map"} \cup Kinds
AnyPage == [at : Ats, name : Nat, page : Nat]
NoResult == Result("none", 0, 0, {})

\* What a read has come to was so of a content since the page was asked for:
\* of one where it failed to find anything, of one it found, or of one that
\* was counted and one that was listed.
Told(read, result) ==
  \/ result = Faulty
  \/ /\ result = Missing /\ read.what \notin Lists
     /\ \E c \in seen : ~Exists(read, c)
  \/ /\ result.is = "ok" /\ result.pages = 0 /\ read.what = "post"
     /\ \E c \in seen : read.name \in Public(c) /\ result.items = c[read.name].terms
  \/ result = Result("ok", 0, 0, {}) /\ read.what \notin Lists \cup {"post"}
  \/ /\ result.is \in {"counted", "ok"} /\ read.what \in Lists
     /\ result = Result(result.is, 0, result.pages, result.items)
     /\ \E c \in seen : result.pages = PagesOf(Rows(read, c))
     /\ result.is = "counted" => result.items = {}
     /\ result.is = "ok" => \E c \in seen : result.items = OnPage(Rows(read, c), read.page)

\* A link is to what is there, until the content changes.
LinkStands == linked /\ seen = {content} => ~Absent(target, content)

ReadingInv ==
  /\ target \in AnyPage
  /\ seen \subseteq Contents /\ content \in seen
  /\ \A key \in DOMAIN memo : Told(key[2], memo[key])
  /\ LinkStands

-----------------------------------------------------------------------------
(* Lists and their pages.                                                  *)

LEMMA ContentType ==
  ASSUME NEW c \in Contents
  PROVE  \A a \in Articles : c[a].terms \subseteq Terms
  BY DEF Contents, Article

LEMMA RowsType ==
  ASSUME NEW c \in Contents, NEW read
  PROVE  /\ IsFiniteSet(Rows(read, c))
         /\ Rows(read, c) \subseteq Nat \ {0}
         /\ read.what \in Kinds => Rows(read, c) \subseteq Terms
         /\ read.what \notin Kinds => Rows(read, c) \subseteq Public(c)
<1>1. CASE read.what \in Kinds
  <2>1. Rows(read, c) \subseteq Terms
    BY <1>1, SubsetsAssumption DEF Rows, OfKind
  <2>. QED BY <1>1, <2>1, NumbersAssumption, FS_Subset
<1>2. CASE read.what \notin Kinds
  <2>1. Rows(read, c) \subseteq Public(c) /\ Public(c) \subseteq Articles
    BY <1>2 DEF Rows, Public
  <2>2. Rows(read, c) \in SUBSET Articles BY <2>1
  <2>. QED BY <1>2, <2>1, <2>2, NumbersAssumption, FS_Subset
<1>. QED BY <1>1, <1>2

LEMMA RowsOfAnyPage ==
  ASSUME NEW c, NEW what, NEW name, NEW page1, NEW page2
  PROVE  Rows(Read(what, name, page1), c) = Rows(Read(what, name, page2), c)
  BY DEF Rows, Read

LEMMA PagesType ==
  ASSUME NEW set, IsFiniteSet(set)
  PROVE  /\ PagesOf(set) \in Nat
         /\ PagesOf(set) # 0 => set # {}
<1>1. Cardinality(set) \in Nat BY FS_CardinalityType
<1>2. PagesOf(set) \in Nat BY <1>1, SizeAssumption DEF PagesOf
<1>3. set = {} => PagesOf(set) = 0
  <2>1. (0 + PageSize - 1) \div PageSize = 0 BY SizeAssumption
  <2>. QED BY <2>1, FS_EmptySet DEF PagesOf
<1>. QED BY <1>2, <1>3

LEMMA PageBound ==
  ASSUME NEW size \in Nat \ {0}, NEW before \in Nat, NEW all \in Nat, before < all
  PROVE  (before \div size) + 1 \in 1..((all + size - 1) \div size)
  OBVIOUS

\* The pages of a list have every row of it, and no other.
LEMMA PagesHaveAll ==
  ASSUME NEW set \in SUBSET Nat, IsFiniteSet(set)
  PROVE  /\ \A page : OnPage(set, page) \subseteq set
         /\ \A x \in set : \E page \in 1..PagesOf(set) : x \in OnPage(set, page)
<1>1. \A page : OnPage(set, page) \subseteq set BY DEF OnPage
<1>2. ASSUME NEW x \in set PROVE \E page \in 1..PagesOf(set) : x \in OnPage(set, page)
  <2>. DEFINE before == {y \in set : y < x}
              page == (Cardinality(before) \div PageSize) + 1
  <2>1. before \in SUBSET set /\ before # set OBVIOUS
  <2>2. Cardinality(before) \in Nat /\ Cardinality(set) \in Nat
          /\ Cardinality(before) < Cardinality(set)
    <3>1. IsFiniteSet(before) /\ Cardinality(before) <= Cardinality(set)
            /\ Cardinality(before) # Cardinality(set)
      BY <2>1, FS_Subset
    <3>. QED BY <3>1, FS_CardinalityType
  <2>. HIDE DEF before
  <2>3. page \in 1..PagesOf(set)
    BY <2>2, PageBound, SizeAssumption DEF PagesOf
  <2>4. Cardinality(before) \div PageSize = page - 1
    <3>1. Cardinality(before) \div PageSize \in Int BY <2>2, SizeAssumption
    <3>. QED BY <3>1
  <2>. HIDE DEF page
  <2>5. x \in OnPage(set, page) BY <2>4 DEF OnPage, before
  <2>. QED BY <2>3, <2>5
<1>. QED BY <1>1, <1>2

LEMMA LeastNumber ==
  ASSUME NEW S \in SUBSET Nat, S # {}
  PROVE  \E n \in S : \A m \in S : n <= m
<1>1. PICK n \in S : \A m \in S : <<m, n>> \notin OpToRel(<, Nat)
  BY NatLessThanWellFounded, WFMin
<1>2. \A m \in S : ~(m < n) BY <1>1 DEF OpToRel
<1>. QED BY <1>2

-----------------------------------------------------------------------------
(* What the parts of a page read.                                          *)

LEMMA ListingWhat ==
  ASSUME NEW t \in AnyPage, t.at \in {"home", "term", "search", "map"} \cup Kinds
  PROVE  /\ Listing(t).what \in Lists
         /\ t.at = "term" => Listing(t) = Read("term_posts", t.name, t.page)
         /\ t.at # "term" => \E what \in Lists \ {"term_posts"} : Listing(t) = Read(what, 0, t.page)
  BY DEF AnyPage, Listing, Read, Lists, Kinds

\* Site, the article or term that is asked for, or a list.
Planned(read) ==
  \/ read = Site
  \/ target.at = "article" /\ read = Read("post", target.name, 1)
  \/ target.at = "term" /\ read = Read("term", target.name, 1)
  \/ read.what \in Lists

LEMMA ReachedSteps ==
  ASSUME NEW part, NEW read \in Reached(part)
  PROVE  \E i \in DOMAIN Steps(part) : read \in Steps(part)[i]
  BY DEF Reached

LEMMA PlanOf ==
  ASSUME NEW t
  PROVE  /\ t.at = "home" => /\ Plan(t, "head") = HomeMetadata(t)
                             /\ Plan(t, "body") = HomeReadingPage(t)
         /\ t.at = "article" => /\ Plan(t, "head") = ArticleMetadata(t)
                                /\ Plan(t, "body") = ArticleReadingPage(t)
         /\ t.at = "term" => /\ Plan(t, "head") = TaxonomyReading(t)
                             /\ Plan(t, "body") = TaxonomyReading(t)
         /\ t.at = "search" => /\ Plan(t, "head") = << >>
                               /\ Plan(t, "body") = SearchReadingPage(t)
         /\ t.at = "index" => Plan(t, "body") = SitemapIndex
         /\ t.at \in {"map"} \cup Kinds => Plan(t, "body") = <<{Listing(t)}>>
<1>1. t.at = "home" => /\ Plan(t, "head") = HomeMetadata(t)
                       /\ Plan(t, "body") = HomeReadingPage(t)
  BY DEF Plan, Kinds
<1>2. t.at = "article" => /\ Plan(t, "head") = ArticleMetadata(t)
                          /\ Plan(t, "body") = ArticleReadingPage(t)
  BY DEF Plan, Kinds
<1>3. t.at = "term" => /\ Plan(t, "head") = TaxonomyReading(t)
                       /\ Plan(t, "body") = TaxonomyReading(t)
  BY DEF Plan, Kinds
<1>4. t.at = "search" => /\ Plan(t, "head") = << >>
                         /\ Plan(t, "body") = SearchReadingPage(t)
  BY DEF Plan, Kinds
<1>5. t.at = "index" => Plan(t, "body") = SitemapIndex
  BY DEF Plan, Kinds
<1>6. t.at \in {"map"} \cup Kinds => Plan(t, "body") = <<{Listing(t)}>>
  BY DEF Plan, Kinds
<1>. QED BY <1>1, <1>2, <1>3, <1>4, <1>5, <1>6

LEMMA PlannedReads ==
  ASSUME target \in AnyPage, NEW part \in Rendered, NEW read \in Reached(part)
  PROVE  Planned(read)
<1>0. PICK i \in DOMAIN Steps(part) : read \in Steps(part)[i] BY ReachedSteps
<1>1. CASE part \in Kinds
  <2>1. read.what = part BY <1>0, <1>1 DEF Steps, Walk, Read
  <2>. QED BY <1>1, <2>1 DEF Planned, Lists
<1>2. CASE part \notin Kinds /\ Malformed(target) /\ part = "body"
  BY <1>0, <1>2 DEF Steps
<1>3. CASE part \notin Kinds /\ Malformed(target) /\ part = "head"
  BY <1>0, <1>3 DEF Steps, Planned
<1>4. CASE part \in {"layout", "shell"}
  <2>1. Steps(part) = <<{Site}>> BY <1>4 DEF Steps, Plan, Kinds
  <2>. QED BY <1>0, <2>1 DEF Planned
<1>5. CASE part \in {"head", "body"} /\ ~Malformed(target)
  <2>1. Steps(part) = Plan(target, part) BY <1>5 DEF Steps, Kinds
  <2>2. part = "head" => target.at \in {"home", "article", "term", "search"}
    BY DEF Rendered, AnyPage, Sitemaps, Ats, Kinds
  <2>3. target.at \in Ats BY DEF AnyPage
  <2>4. CASE target.at = "home"
    <3>1. Steps(part) \in {HomeMetadata(target), HomeReadingPage(target)}
      BY <1>5, <2>1, <2>4, PlanOf
    <3>. QED BY <1>0, <2>4, <3>1, ListingWhat DEF HomeMetadata, HomeReadingPage, Planned
  <2>5. CASE target.at = "article"
    <3>1. Steps(part) \in {ArticleMetadata(target), ArticleReadingPage(target)}
      BY <1>5, <2>1, <2>5, PlanOf
    <3>. QED BY <1>0, <2>5, <3>1 DEF ArticleMetadata, ArticleReadingPage, Planned
  <2>6. CASE target.at = "term"
    <3>1. Steps(part) = TaxonomyReading(target) BY <1>5, <2>1, <2>6, PlanOf
    <3>. QED BY <1>0, <2>6, <3>1, ListingWhat DEF TaxonomyReading, Planned
  <2>7. CASE target.at = "search"
    <3>1. Steps(part) \in {<< >>, <<{Listing(target)}>>}
      BY <1>5, <2>1, <2>7, PlanOf DEF SearchReadingPage
    <3>. QED BY <1>0, <2>7, <3>1, ListingWhat DEF Planned
  <2>8. CASE target.at = "index"
    <3>1. Steps(part) = SitemapIndex BY <1>5, <2>1, <2>2, <2>8, PlanOf
    <3>. QED BY <1>0, <3>1 DEF SitemapIndex, Planned, Read, Lists, Kinds
  <2>9. CASE target.at \in {"map"} \cup Kinds
    <3>1. Steps(part) = <<{Listing(target)}>>
      BY <1>5, <2>1, <2>2, <2>9, PlanOf DEF Kinds
    <3>. QED BY <1>0, <2>9, <3>1, ListingWhat DEF Planned
  <2>. QED BY <2>3, <2>4, <2>5, <2>6, <2>7, <2>8, <2>9 DEF Ats
<1>. QED BY <1>1, <1>2, <1>3, <1>4, <1>5 DEF Rendered

LEMMA OfTold ==
  ASSUME ReadingInv, NEW part, NEW read
  PROVE  Of(part, read) = NoResult \/ Told(read, Of(part, read))
  BY DEF ReadingInv, Of, Key, NoResult

-----------------------------------------------------------------------------
(* The steps of the public site.                                           *)

LEMMA ReadingInitOK == ReadingInit => ReadingInv
<1>. SUFFICES ASSUME ReadingInit PROVE ReadingInv OBVIOUS
<1>1. target \in AnyPage BY DEF ReadingInit, Page, AnyPage, Ats
<1>2. seen \subseteq Contents /\ content \in seen BY DEF ReadingInit
<1>3. DOMAIN memo = {} BY DEF ReadingInit
<1>4. LinkStands BY DEF ReadingInit, LinkStands
<1>. QED BY <1>1, <1>2, <1>3, <1>4 DEF ReadingInv

LEMMA FindsStep ==
  ASSUME ReadingInv, NEW key, NEW result, Told(key[2], result), Finds(key, result)
  PROVE  ReadingInv'
<1>1. UNCHANGED <<content, changes, target, linked, seen>> BY DEF Finds
<1>2. ASSUME NEW k \in DOMAIN memo' PROVE Told(k[2], memo[k])'
  <2>1. k = key => memo'[k] = result BY DEF Finds
  <2>2. k # key => k \in DOMAIN memo /\ memo'[k] = memo[k] BY DEF Finds
  <2>3. Told(k[2], memo'[k]) BY <2>1, <2>2 DEF ReadingInv
  <2>. QED BY <1>1, <2>3 DEF Told
<1>3. LinkStands' BY <1>1 DEF ReadingInv, LinkStands, Absent
<1>. QED BY <1>1, <1>2, <1>3 DEF ReadingInv

LEMMA ReadsStep ==
  ASSUME ReadingInv, Reads
  PROVE  ReadingInv'
<1>1. PICK part \in Rendered : \E read \in Wants(part) :
        LET key == Key(part, read) IN ReadsOne(key) \/ Counts(key) \/ Selects(key) \/ ReadFails(key)
  BY DEF Reads, Keys
<1>2. PICK read \in Wants(part) :
        LET key == Key(part, read) IN ReadsOne(key) \/ Counts(key) \/ Selects(key) \/ ReadFails(key)
  BY <1>1
<1>. DEFINE key == Key(part, read)
<1>3. key[2] = read BY DEF Key
<1>4. Planned(read) BY PlannedReads DEF Wants, ReadingInv
<1>5. content \in seen /\ content \in Contents BY DEF ReadingInv
<1>6. Of(part, read).is \in Pending /\ (key \in DOMAIN memo => Of(part, read) = memo[key])
  BY DEF Wants, Of
<1>7. key \in DOMAIN memo => Told(read, memo[key]) BY <1>3 DEF ReadingInv
<1>. HIDE DEF key
<1>8. CASE ReadsOne(key)
  <2>1. read.what \notin Lists BY <1>3, <1>8 DEF ReadsOne
  <2>2. CASE ~Exists(read, content)
    <3>1. Finds(key, Missing) BY <1>3, <1>8, <2>2 DEF ReadsOne, MissingOrFailure
    <3>2. Told(read, Missing) BY <1>5, <2>1, <2>2 DEF Told
    <3>. QED BY <1>3, <3>1, <3>2, FindsStep
  <2>3. CASE Exists(read, content) /\ read.what = "post"
    <3>. DEFINE found == Result("ok", content[read.name].version, 0, content[read.name].terms)
    <3>1. Finds(key, found) BY <1>3, <1>8, <2>3 DEF ReadsOne
    <3>2. found.is = "ok" /\ found.pages = 0 /\ found.items = content[read.name].terms
      BY DEF Result
    <3>3. read.name \in Public(content) BY <2>3 DEF Exists
    <3>. HIDE DEF found
    <3>4. Told(read, found) BY <1>5, <2>3, <3>2, <3>3 DEF Told
    <3>. QED BY <1>3, <3>1, <3>4, FindsStep
  <2>4. CASE Exists(read, content) /\ read.what # "post"
    <3>1. Finds(key, Result("ok", 0, 0, {})) BY <1>3, <1>8, <2>4 DEF ReadsOne
    <3>2. Told(read, Result("ok", 0, 0, {})) BY <2>1, <2>4 DEF Told
    <3>. QED BY <1>3, <3>1, <3>2, FindsStep
  <2>. QED BY <2>2, <2>3, <2>4
<1>9. CASE Counts(key)
  <2>. DEFINE found == Result("counted", 0, PagesOf(Rows(read, content)), {})
  <2>1. Finds(key, found) /\ read.what \in Lists BY <1>3, <1>9 DEF Counts
  <2>2. /\ found.is = "counted" /\ found.pages = PagesOf(Rows(read, content))
        /\ found.items = {} /\ found = Result(found.is, 0, found.pages, found.items)
    BY DEF Result
  <2>. HIDE DEF found
  <2>3. Told(read, found) BY <1>5, <2>1, <2>2 DEF Told
  <2>. QED BY <1>3, <2>1, <2>3, FindsStep
<1>10. CASE Selects(key)
  <2>. DEFINE items == OnPage(Rows(read, content), read.page)
              found == [memo[key] EXCEPT !.is = "ok", !.items = items]
  <2>1. Finds(key, found) /\ key \in DOMAIN memo BY <1>3, <1>10 DEF Selects
  <2>2. Told(read, memo[key]) /\ memo[key].is \in Pending BY <1>6, <1>7, <2>1
  <2>3. /\ memo[key].is = "counted" /\ read.what \in Lists
        /\ memo[key] = Result(memo[key].is, 0, memo[key].pages, memo[key].items)
        /\ \E c \in seen : memo[key].pages = PagesOf(Rows(read, c))
    BY <2>2 DEF Told, Pending, Result, Faulty, Missing
  <2>. HIDE DEF items, found
  <2>4. found = Result("ok", 0, memo[key].pages, items)
    <3>. DEFINE a == [memo[key] EXCEPT !.is = "ok"]
                b == [a EXCEPT !.items = items]
    <3>1. memo[key] = [is |-> "counted", version |-> 0,
                       pages |-> memo[key].pages, items |-> memo[key].items]
      BY <2>3 DEF Result
    <3>2. a = [is |-> "ok", version |-> 0,
               pages |-> memo[key].pages, items |-> memo[key].items]
      BY <3>1
    <3>. HIDE DEF a
    <3>3. b = [is |-> "ok", version |-> 0, pages |-> memo[key].pages, items |-> items]
      BY <3>2
    <3>. HIDE DEF b
    <3>4. found = b BY DEF found, a, b
    <3>. QED BY <3>3, <3>4 DEF Result
  <2>5. /\ found.is = "ok" /\ found.pages = memo[key].pages
        /\ found.items = items /\ found = Result(found.is, 0, found.pages, found.items)
    BY <2>4 DEF Result
  <2>. HIDE DEF found
  <2>6. Told(read, found) BY <1>5, <2>3, <2>5 DEF Told, items
  <2>. QED BY <1>3, <2>1, <2>6, FindsStep
<1>11. CASE ReadFails(key)
  <2>1. Finds(key, Faulty) BY <1>11 DEF ReadFails, MissingOrFailure
  <2>2. Told(read, Faulty) BY DEF Told
  <2>. QED BY <1>3, <2>1, <2>2, FindsStep
<1>. QED BY <1>2, <1>8, <1>9, <1>10, <1>11 DEF key

LEMMA AuthorStep ==
  ASSUME ReadingInv, AuthorChanges
  PROVE  ReadingInv'
<1>1. /\ content' \in Contents /\ seen' = seen \cup {content'} /\ content' # content
      /\ UNCHANGED <<target, memo, linked>>
  BY DEF AuthorChanges
<1>2. seen' \subseteq Contents /\ content' \in seen' /\ seen \subseteq seen'
  BY <1>1 DEF ReadingInv
<1>3. ASSUME NEW k \in DOMAIN memo' PROVE Told(k[2], memo[k])'
  <2>1. Told(k[2], memo[k]) /\ memo' = memo BY <1>1 DEF ReadingInv
  <2>. QED BY <1>2, <2>1 DEF Told
<1>4. LinkStands'
  <2>1. content \in seen' BY <1>2 DEF ReadingInv
  <2>2. seen' # {content'} BY <1>1, <2>1
  <2>. QED BY <2>2 DEF LinkStands
<1>. QED BY <1>1, <1>2, <1>3, <1>4 DEF ReadingInv

LEMMA AsksStep ==
  ASSUME ReadingInv, NEW page \in AnyPage, NEW fresh, Asks(page, fresh),
         fresh => ~Absent(page, content)
  PROVE  ReadingInv'
<1>1. target' = page /\ linked' = fresh /\ seen' = {content} /\ content' = content
  BY DEF Asks
<1>2. DOMAIN memo' = {} BY DEF Asks
<1>3. LinkStands' BY <1>1 DEF LinkStands, Absent
<1>. QED BY <1>1, <1>2, <1>3 DEF ReadingInv

LEMMA AddressesAreTyped == Addresses \subseteq AnyPage
<1>1. Numbered \subseteq Nat BY BoundsAssumption DEF Numbered
<1>2. Articles \cup {0} \subseteq Nat /\ Terms \cup {0} \subseteq Nat BY NumbersAssumption
<1>3. \A at \in Ats, name \in Nat, page \in Nat : Page(at, name, page) \in AnyPage
  BY DEF AnyPage, Page
<1>4. Kinds \cup {"home", "article", "term", "search", "index", "map"} \subseteq Ats
        /\ {0, 1, 2} \subseteq Nat
  BY DEF Ats
<1>5. ASSUME NEW page \in Addresses PROVE page \in AnyPage
  <2>1. \/ \E p \in Numbered : page = Page("home", 0, p)
        \/ \E a \in Articles \cup {0} : page = Page("article", a, 1)
        \/ \E t \in Terms \cup {0}, p \in Numbered : page = Page("term", t, p)
        \/ \E q \in {0, 1, 2}, p \in Numbered : page = Page("search", q, p)
        \/ page = Page("index", 0, 1)
        \/ \E at \in {"map"} \cup Kinds, p \in Numbered : page = Page(at, 0, p)
    BY DEF Addresses, Keyword, TooLong
  <2>. QED BY <1>1, <1>2, <1>3, <1>4, <2>1
<1>. QED BY <1>5

LEMMA VisitsStep == ASSUME ReadingInv, Visits PROVE ReadingInv'
  BY AsksStep, AddressesAreTyped DEF Visits

-----------------------------------------------------------------------------
(* What is linked.                                                         *)

\* The rows and the number of pages of a list were those of a content.
LEMMA ListTold ==
  ASSUME ReadingInv, NEW part, NEW read, read.what \in Lists
  PROVE  /\ \E c \in seen : Of(part, read).items \subseteq Rows(read, c)
         /\ \/ Of(part, read).pages = 0
            \/ \E c \in seen : Of(part, read).pages = PagesOf(Rows(read, c))
<1>1. content \in seen /\ read.what # "post" BY DEF ReadingInv, Lists, Kinds
<1>2. CASE Of(part, read).items = {} /\ Of(part, read).pages = 0 BY <1>1, <1>2
<1>3. CASE /\ Of(part, read).is \in {"counted", "ok"}
           /\ \E c \in seen : Of(part, read).pages = PagesOf(Rows(read, c))
           /\ Of(part, read).is = "counted" => Of(part, read).items = {}
           /\ Of(part, read).is = "ok" =>
                \E c \in seen : Of(part, read).items = OnPage(Rows(read, c), read.page)
  <2>1. CASE Of(part, read).is = "counted" BY <1>1, <1>3, <2>1
  <2>2. CASE Of(part, read).is = "ok"
    <3>1. PICK c \in seen : Of(part, read).items = OnPage(Rows(read, c), read.page)
      BY <1>3, <2>2
    <3>2. Of(part, read).items \subseteq Rows(read, c) BY <3>1 DEF OnPage
    <3>. QED BY <1>3, <3>2
  <2>. QED BY <1>3, <2>1, <2>2
<1>4. Of(part, read) = NoResult \/ Told(read, Of(part, read)) BY OfTold
<1>. QED BY <1>1, <1>2, <1>3, <1>4 DEF Told, NoResult, Result, Faulty, Missing

\* The terms of an article were those it had, while public, in a content.
LEMMA PostTold ==
  ASSUME ReadingInv, NEW part, NEW name
  PROVE  LET items == Of(part, Read("post", name, 1)).items IN
         items = {} \/ \E c \in seen : name \in Public(c) /\ items = c[name].terms
<1>. DEFINE read == Read("post", name, 1)
<1>1. read.what = "post" /\ read.name = name BY DEF Read
<1>. HIDE DEF read
<1>2. read.what \notin Lists BY <1>1 DEF Lists, Kinds
<1>3. Of(part, read) = NoResult \/ Told(read, Of(part, read)) BY OfTold
<1>. QED BY <1>1, <1>2, <1>3 DEF Told, NoResult, Result, Faulty, Missing, read

LEMMA PageType ==
  \A at \in Ats, name \in Nat, page \in Nat : Page(at, name, page) \in AnyPage
  BY DEF AnyPage, Page

LEMMA ArticleIsThere ==
  ASSUME NEW c \in Contents, NEW a \in Public(c)
  PROVE  Page("article", a, 1) \in AnyPage /\ ~Absent(Page("article", a, 1), c)
<1>1. a \in Nat /\ a # 0 BY NumbersAssumption DEF Public
<1>2. Exists(Read("post", a, 1), c) BY DEF Exists, Read
<1>3. Page("article", a, 1) \in AnyPage BY <1>1, PageType DEF Ats
<1>. QED BY <1>1, <1>2, <1>3 DEF Absent, Malformed, Page, Kinds

LEMMA TermIsThere ==
  ASSUME NEW c \in Contents, NEW t, \E a \in Public(c) : t \in c[a].terms
  PROVE  Page("term", t, 1) \in AnyPage /\ ~Absent(Page("term", t, 1), c)
<1>1. t \in Terms BY ContentType DEF Public
<1>2. t \in Nat /\ t # 0 BY <1>1, NumbersAssumption
<1>3. Exists(Read("term", t, 1), c) BY DEF Exists, Read
<1>4. Page("term", t, 1) \in AnyPage BY <1>2, PageType DEF Ats
<1>. QED BY <1>2, <1>3, <1>4 DEF Absent, Malformed, Page, Kinds

LEMMA ListPageIsThere ==
  ASSUME NEW c \in Contents, NEW at \in {"home", "term", "search", "map"} \cup Kinds,
         NEW name \in Nat, NEW p \in Nat \ {0},
         at = "term" => name # 0 /\ \E a \in Public(c) : name \in c[a].terms,
         p = 1 \/ p \in 1..PagesOf(Rows(Listing(Page(at, name, p)), c))
  PROVE  Page(at, name, p) \in AnyPage /\ ~Absent(Page(at, name, p), c)
<1>. DEFINE page == Page(at, name, p)
<1>1. page \in AnyPage BY PageType DEF Ats, Kinds
<1>2. page.at = at /\ page.name = name /\ page.page = p BY DEF Page
<1>3. at = "term" => Exists(Read("term", name, 1), c) BY DEF Exists, Read
<1>4. at # "article" BY DEF Kinds
<1>5. p > 1 => p <= PagesOf(Rows(Listing(page), c))
  <2>1. PagesOf(Rows(Listing(page), c)) \in Nat BY RowsType, PagesType
  <2>. QED BY <2>1
<1>6. ~Malformed(page) BY <1>2, <1>4 DEF Malformed
<1>7. PagesOf(Rows(Listing(page), c)) \in Nat BY RowsType, PagesType
<1>. HIDE DEF page
<1>8. ~Absent(page, c) BY <1>2, <1>3, <1>4, <1>5, <1>6, <1>7 DEF Absent
<1>. QED BY <1>1, <1>8 DEF page

LEMMA SitemapPageIsThere ==
  ASSUME ReadingInv, NEW at \in {"map"} \cup Kinds, NEW p,
         p \in 1..Of("body", Listing(Page(at, 0, 1))).pages
  PROVE  \E c \in seen : Page(at, 0, p) \in AnyPage /\ ~Absent(Page(at, 0, p), c)
<1>. DEFINE read == Listing(Page(at, 0, 1))
<1>0. seen \subseteq Contents BY DEF ReadingInv
<1>1. read.what \in Lists BY DEF Listing, Page, Read, Lists, Kinds
<1>2. Of("body", read).pages # 0 OBVIOUS
<1>3. PICK c \in seen : Of("body", read).pages = PagesOf(Rows(read, c))
  BY <1>1, <1>2, ListTold
<1>4. c \in Contents BY <1>0
<1>5. PagesOf(Rows(read, c)) \in Nat BY <1>4, RowsType, PagesType
<1>6. p \in Nat \ {0} BY <1>3, <1>5
<1>7. Rows(Listing(Page(at, 0, p)), c) = Rows(read, c)
  BY RowsOfAnyPage DEF Listing, Page, Kinds
<1>8. p \in 1..PagesOf(Rows(Listing(Page(at, 0, p)), c)) BY <1>3, <1>7
<1>9. at # "term" BY DEF Kinds
<1>. QED BY <1>4, <1>6, <1>8, <1>9, ListPageIsThere

\* Every link is to a page that was there in a content since the page that
\* has it was asked for.
LEMMA LinkedIsThere ==
  ASSUME ReadingInv, NEW page \in Links
  PROVE  \E c \in seen : page \in AnyPage /\ ~Absent(page, c)
<1>. DEFINE listing == Of("body", Listing(target))
            Leads == \E c \in seen : page \in AnyPage /\ ~Absent(page, c)
            Further == \E p \in Numbers(target.page, listing.pages) :
                         page = Page(target.at, target.name, p)
            ToArticle == \E a \in listing.items : page = Page("article", a, 1)
            ToTerm == \E t \in NavigationTerms : page = Page("term", t, 1)
<1>0. target \in AnyPage /\ seen \subseteq Contents /\ content \in seen BY DEF ReadingInv
<1>1. ASSUME target.at \in {"home", "term", "search", "map"}, ToArticle PROVE Leads
  <2>1. Listing(target).what \in Lists /\ Listing(target).what \notin Kinds
    BY <1>0, <1>1 DEF Listing, Lists, Kinds, Read
  <2>2. PICK c \in seen : listing.items \subseteq Rows(Listing(target), c)
    BY <2>1, ListTold
  <2>3. Rows(Listing(target), c) \subseteq Public(c) BY <1>0, <2>1, RowsType
  <2>. QED BY <1>0, <1>1, <2>2, <2>3, ArticleIsThere
<1>2. ASSUME target.at \in {"home", "term", "search"}, Further PROVE Leads
  <2>1. PICK p \in Numbers(target.page, listing.pages) : page = Page(target.at, target.name, p)
    BY <1>2
  <2>2. Listing(target).what \in Lists
    BY <1>0, <1>2, ListingWhat
  <2>3. listing.pages # 0 /\ p \in 1..listing.pages
    BY <2>1 DEF Numbers
  <2>4. PICK c \in seen : listing.pages = PagesOf(Rows(Listing(target), c))
    BY <2>2, <2>3, ListTold
  <2>5. c \in Contents BY <1>0
  <2>6. IsFiniteSet(Rows(Listing(target), c)) BY <2>5, RowsType
  <2>7. listing.pages \in Nat /\ Rows(Listing(target), c) # {}
    BY <2>3, <2>4, <2>6, PagesType
  <2>8. p \in Nat \ {0} BY <2>3, <2>7
  <2>9. Rows(Listing(Page(target.at, target.name, p)), c) = Rows(Listing(target), c)
    BY <1>2, RowsOfAnyPage DEF Listing, Page, Kinds
  <2>10. target.at = "term" =>
           target.name # 0 /\ \E a \in Public(c) : target.name \in c[a].terms
    <3>1. SUFFICES ASSUME target.at = "term"
          PROVE  target.name # 0 /\ \E a \in Public(c) : target.name \in c[a].terms
      OBVIOUS
    <3>2. Listing(target) = Read("term_posts", target.name, target.page)
      BY <3>1 DEF Listing, Kinds
    <3>3. \E a \in Public(c) : target.name \in c[a].terms
      BY <2>7, <3>2 DEF Rows, Read, Kinds
    <3>4. target.name \in Terms BY <2>5, <3>3, ContentType DEF Public
    <3>. QED BY <3>3, <3>4, NumbersAssumption
  <2>11. target.name \in Nat BY <1>0 DEF AnyPage
  <2>12. p \in 1..PagesOf(Rows(Listing(Page(target.at, target.name, p)), c))
    BY <2>3, <2>4, <2>9
  <2>. HIDE DEF listing
  <2>. QED BY <1>2, <2>1, <2>5, <2>8, <2>10, <2>11, <2>12, ListPageIsThere
<1>3. ASSUME NEW kind \in Kinds, NEW c \in seen, NEW name, NEW p,
             NEW t \in Rows(Read(kind, name, p), c), page = Page("term", t, 1)
      PROVE  Leads
  <2>1. \E a \in Public(c) : t \in c[a].terms BY <1>3 DEF Rows, Read
  <2>. QED BY <1>0, <1>3, <2>1, TermIsThere
<1>4. ASSUME ToTerm PROVE Leads
  <2>1. PICK kind \in Kinds : \E t \in UNION {Of(kind, read).items : read \in Reached(kind)} :
          page = Page("term", t, 1)
    BY <1>4 DEF NavigationTerms
  <2>2. PICK read \in Reached(kind) : \E t \in Of(kind, read).items : page = Page("term", t, 1)
    BY <2>1
  <2>3. PICK p : read = Read(kind, 0, p)
    <3>1. \E i \in DOMAIN Steps(kind) : read \in Steps(kind)[i] BY ReachedSteps
    <3>. QED BY <3>1 DEF Steps, Walk
  <2>4. read.what \in Lists BY <2>3 DEF Read, Lists
  <2>5. PICK c \in seen : Of(kind, read).items \subseteq Rows(read, c) BY <2>4, ListTold
  <2>. QED BY <1>3, <2>2, <2>3, <2>5
<1>5. ASSUME target.at = "article",
             \E t \in Of("body", Read("post", target.name, 1)).items : page = Page("term", t, 1)
      PROVE  Leads
  <2>1. PICK c \in seen : /\ target.name \in Public(c)
                          /\ Of("body", Read("post", target.name, 1)).items = c[target.name].terms
    BY <1>5, PostTold
  <2>. QED BY <1>0, <1>5, <2>1, TermIsThere
<1>6. ASSUME target.at \in Kinds, \E t \in listing.items : page = Page("term", t, 1) PROVE Leads
  <2>1. Listing(target) = Read(target.at, 0, target.page) BY <1>6 DEF Listing, Kinds
  <2>2. Listing(target).what \in Lists BY <1>6, <2>1 DEF Read, Lists
  <2>3. PICK c \in seen : listing.items \subseteq Rows(Listing(target), c) BY <2>2, ListTold
  <2>. QED BY <1>3, <1>6, <2>1, <2>3
<1>7. ASSUME NEW at \in {"map"} \cup Kinds, page \in AllPages(at) PROVE Leads
  <2>1. PICK p \in 1..Of("body", Listing(Page(at, 0, 1))).pages : page = Page(at, 0, p)
    BY <1>7 DEF AllPages
  <2>. QED BY <2>1, SitemapPageIsThere
<1>8. target.at \in Ats BY <1>0 DEF AnyPage
<1>9. page \in OfTerms(NavigationTerms) => ToTerm BY DEF OfTerms
<1>10. page \in ListedArticles => ToArticle BY DEF ListedArticles
<1>11. page \in FurtherPages => Further BY DEF FurtherPages
<1>. HIDE DEF Leads, ToArticle, Further, ToTerm
<1>12. ASSUME target.at \in {"home", "term"} \/ (target.at = "search" /\ target.name = Keyword)
       PROVE  Leads
  <2>1. Links = ListedArticles \cup FurtherPages \cup OfTerms(NavigationTerms)
    <3>1. CASE target.at \in {"home", "term"} BY <3>1 DEF Links, Kinds
    <3>2. CASE target.at = "search" /\ target.name = Keyword BY <3>2 DEF Links, Kinds
    <3>. QED BY <1>12, <3>1, <3>2
  <2>. QED BY <1>1, <1>2, <1>4, <1>9, <1>10, <1>11, <1>12, <2>1
<1>13. ASSUME target.at = "search" /\ target.name # Keyword PROVE Leads
  <2>1. page \in OfTerms(NavigationTerms) BY <1>13 DEF Links, Kinds
  <2>. QED BY <1>4, <1>9, <2>1
<1>14. ASSUME target.at = "article" PROVE Leads
  <2>1. page \in OfTerms(NavigationTerms \cup Of("body", Read("post", target.name, 1)).items)
    BY <1>14 DEF Links, Kinds
  <2>2. \/ page \in OfTerms(NavigationTerms)
        \/ \E t \in Of("body", Read("post", target.name, 1)).items : page = Page("term", t, 1)
    BY <2>1 DEF OfTerms
  <2>. QED BY <1>4, <1>5, <1>9, <1>14, <2>2
<1>15. ASSUME target.at = "map" PROVE Leads
  <2>1. page \in ListedArticles BY <1>15 DEF Links, Kinds
  <2>. QED BY <1>1, <1>10, <1>15, <2>1
<1>16. ASSUME target.at \in Kinds PROVE Leads
  <2>1. page \in OfTerms(Of("body", Listing(target)).items) BY <1>16 DEF Links, Kinds
  <2>2. \E t \in Of("body", Listing(target)).items : page = Page("term", t, 1)
    BY <2>1 DEF OfTerms
  <2>. QED BY <1>6, <1>16, <2>2
<1>17. ASSUME target.at = "index" PROVE Leads
  <2>1. page \in {Page("map", 0, 1)} \cup UNION {AllPages(at) : at \in {"map"} \cup Kinds}
    BY <1>17 DEF Links, Kinds
  <2>2. page = Page("map", 0, 1) \/ \E at \in {"map"} \cup Kinds : page \in AllPages(at)
    BY <2>1
  <2>3. CASE page = Page("map", 0, 1)
    <3>1. Page("map", 0, 1) \in AnyPage /\ ~Absent(Page("map", 0, 1), content)
      BY <1>0, ListPageIsThere
    <3>. QED BY <1>0, <2>3, <3>1 DEF Leads
  <2>. QED BY <1>7, <2>2, <2>3
<1>18. Leads
  BY <1>8, <1>12, <1>13, <1>14, <1>15, <1>16, <1>17 DEF Ats
<1>. QED BY <1>18 DEF Leads

LEMMA FollowsStep == ASSUME ReadingInv, Follows PROVE ReadingInv'
<1>1. PICK page \in Links : Asks(page, seen = {content}) BY DEF Follows
<1>2. PICK c \in seen : page \in AnyPage /\ ~Absent(page, c) BY LinkedIsThere
<1>. DEFINE fresh == seen = {content}
<1>3. fresh => ~Absent(page, content) BY <1>2
<1>4. Asks(page, fresh) BY <1>1
<1>. HIDE DEF fresh
<1>. QED BY <1>2, <1>3, <1>4, AsksStep

LEMMA ReadingStep ==
  ASSUME ReadingInv, ReadingNext \/ UNCHANGED readingVars
  PROVE  ReadingInv'
<1>1. CASE ReadingNext
  BY <1>1, ReadsStep, VisitsStep, FollowsStep, AuthorStep DEF ReadingNext
<1>2. CASE UNCHANGED readingVars
  <2>1. UNCHANGED <<content, target, memo, linked, seen>> BY <1>2 DEF readingVars
  <2>2. ASSUME NEW k \in DOMAIN memo' PROVE Told(k[2], memo[k])'
    <3>1. Told(k[2], memo[k]) BY <2>1 DEF ReadingInv
    <3>. QED BY <2>1, <3>1 DEF Told
  <2>3. LinkStands' BY <2>1 DEF ReadingInv, LinkStands, Absent
  <2>. QED BY <2>1, <2>2, <2>3 DEF ReadingInv
<1>. QED BY <1>1, <1>2

-----------------------------------------------------------------------------
(* What follows from the invariant of the public site.                     *)

LEMMA ResultKinds ==
  ASSUME ReadingInv, NEW part, NEW read
  PROVE  /\ Of(part, read).is \in {"none", "counted", "ok", "fault", "missing"}
         /\ Of(part, read).is = "missing" =>
              read.what \notin Lists /\ \E c \in seen : ~Exists(read, c)
         /\ Of(part, read).is = "ok" /\ read.what \in Lists =>
              /\ \E c \in seen : Of(part, read).pages = PagesOf(Rows(read, c))
              /\ \E c \in seen : Of(part, read).items = OnPage(Rows(read, c), read.page)
<1>1. "post" \notin Lists BY DEF Lists, Kinds
<1>2. Of(part, read) = NoResult \/ Told(read, Of(part, read)) BY OfTold
<1>. QED BY <1>1, <1>2 DEF Told, NoResult, Result, Faulty, Missing

LEMMA MissingIsAbsent == ReadingInv => AbsenceIsTrue
<1>. SUFFICES ASSUME ReadingInv, "missing" \in Outcomes
              PROVE  \E c \in seen : Absent(target, c)
  BY DEF AbsenceIsTrue
<1>0. target \in AnyPage /\ content \in seen BY DEF ReadingInv
<1>1. PICK part \in Rendered : End(part) = "missing" BY DEF Outcomes
<1>2. \/ \E read \in Reached(part) : Of(part, read).is = "missing"
      \/ Malformed(target) \/ TooFar(part)
  BY <1>1 DEF End
<1>3. CASE \E read \in Reached(part) : Of(part, read).is = "missing"
  <2>1. PICK read \in Reached(part) : Of(part, read).is = "missing" BY <1>3
  <2>2. read.what \notin Lists /\ \E c \in seen : ~Exists(read, c)
    BY <2>1, ResultKinds
  <2>3. Planned(read) BY <1>0, PlannedReads
  <2>4. read # Site
    <3>1. \A c : Exists(Site, c) BY DEF Exists, Site, Read
    <3>. QED BY <2>2, <3>1
  <2>. QED BY <2>2, <2>3, <2>4 DEF Planned, Absent
<1>4. CASE Malformed(target) BY <1>0, <1>4 DEF Absent
<1>5. CASE TooFar(part)
  <2>1. /\ target.at \in {"home", "term", "search", "map"} \cup Kinds
        /\ target.page > 1 /\ Of(part, Listing(target)).is = "ok"
        /\ target.page > Of(part, Listing(target)).pages
    BY <1>5 DEF TooFar, Ok
  <2>2. Listing(target).what \in Lists BY <1>0, <2>1, ListingWhat
  <2>3. PICK c \in seen : Of(part, Listing(target)).pages = PagesOf(Rows(Listing(target), c))
    BY <2>1, <2>2, ResultKinds
  <2>. QED BY <2>1, <2>3 DEF Absent
<1>. QED BY <1>2, <1>3, <1>4, <1>5

LEMMA LinkedIsFound == ReadingInv => LinksLead
  BY MissingIsAbsent DEF ReadingInv, LinkStands, LinksLead, AbsenceIsTrue

LEMMA PartsShareReads == OneVersion
  BY DEF OneVersion, Ok, Of, Key, Scope

\* The walk over the pages of the terms, once it has ended, has been to all
\* of them.
LEMMA WalkReachesAll ==
  ASSUME NEW kind \in Kinds, NEW pages \in Nat,
         pages = Of(kind, Read(kind, 0, 1)).pages,
         \A read \in Reached(kind) : Ok(kind, read)
  PROVE  \A i \in 1..pages : Read(kind, 0, i) \in Reached(kind)
<1>. DEFINE last == IF pages > 1 THEN pages ELSE 1
            left == {i \in 1..last : Read(kind, 0, i) \notin Reached(kind)}
<1>1. Steps(kind) = [i \in 1..last |-> {Read(kind, 0, i)}] BY DEF Steps, Walk
<1>2. last \in Nat /\ pages <= last OBVIOUS
<1>. HIDE DEF last
<1>3. left = {}
  <2>1. SUFFICES ASSUME left # {} PROVE FALSE OBVIOUS
  <2>2. left \in SUBSET Nat BY <1>2
  <2>3. PICK n \in left : \A m \in left : n <= m BY <2>1, <2>2, LeastNumber
  <2>4. n \in 1..last /\ n \in Nat BY <1>2, <2>3
  <2>5. ASSUME NEW k \in 1..(n - 1), NEW read \in Steps(kind)[k] PROVE Ok(kind, read)
    <3>1. k \in 1..last /\ k < n BY <1>2, <2>4
    <3>2. read = Read(kind, 0, k) BY <1>1, <2>5, <3>1
    <3>3. k \notin left BY <2>3, <2>4, <3>1
    <3>. QED BY <3>1, <3>2, <3>3
  <2>6. n \in {j \in DOMAIN Steps(kind) :
                 \A k \in 1..(j - 1) : \A read \in Steps(kind)[k] : Ok(kind, read)}
    BY <1>1, <2>4, <2>5
  <2>7. Read(kind, 0, n) \in Steps(kind)[n] BY <1>1, <2>4
  <2>8. Read(kind, 0, n) \in Reached(kind) BY <2>6, <2>7 DEF Reached
  <2>. QED BY <2>3, <2>8
<1>. QED BY <1>2, <1>3

LEMMA WalkedReads ==
  ASSUME NEW kind \in Kinds, NEW read \in Reached(kind)
  PROVE  \E p : read = Read(kind, 0, p)
<1>1. \E i \in DOMAIN Steps(kind) : read \in Steps(kind)[i] BY ReachedSteps
<1>. QED BY <1>1 DEF Steps, Walk

LEMMA WalkIsWhole == ReadingInv => NavigationWhole
<1>. SUFFICES ASSUME ReadingInv, "shown" \in Outcomes, target.at \notin Sitemaps
              PROVE  LET there(c) == UNION {Rows(Read(kind, 0, 1), c) : kind \in Kinds} IN
                     /\ NavigationTerms \subseteq UNION {there(c) : c \in seen}
                     /\ seen = {content} => NavigationTerms = there(content)
  BY DEF NavigationWhole
<1>. DEFINE there(c) == UNION {Rows(Read(kind, 0, 1), c) : kind \in Kinds}
<1>0. seen \subseteq Contents /\ content \in seen BY DEF ReadingInv
<1>1. ASSUME NEW t \in NavigationTerms
      PROVE  \E c \in seen : t \in there(c)
  <2>1. PICK kind \in Kinds : t \in UNION {Of(kind, read).items : read \in Reached(kind)}
    BY <1>1 DEF NavigationTerms
  <2>2. PICK read \in Reached(kind) : t \in Of(kind, read).items BY <2>1
  <2>3. PICK p : read = Read(kind, 0, p) BY <2>2, WalkedReads
  <2>4. read.what \in Lists BY <2>3 DEF Read, Lists
  <2>5. PICK c \in seen : Of(kind, read).items \subseteq Rows(read, c) BY <2>4, ListTold
  <2>6. Rows(read, c) = Rows(Read(kind, 0, 1), c) BY <2>3, RowsOfAnyPage
  <2>. QED BY <2>2, <2>5, <2>6
<1>2. \A part \in Rendered : End(part) = "shown" BY DEF Outcomes
<1>3. Kinds \subseteq Rendered
  <2>1. "body" \in Rendered BY DEF Rendered
  <2>. QED BY <1>2, <2>1 DEF Rendered
<1>4. ASSUME NEW kind \in Kinds, NEW read \in Reached(kind) PROVE Ok(kind, read)
  <2>1. End(kind) = "shown" BY <1>2, <1>3
  <2>2. Of(kind, read).is \notin {"fault", "missing", "none", "counted"}
    BY <2>1 DEF End, Pending
  <2>. QED BY <2>2, ResultKinds DEF Ok
<1>5. ASSUME seen = {content}, NEW kind \in Kinds, NEW t \in Rows(Read(kind, 0, 1), content)
      PROVE  t \in NavigationTerms
  <2>. DEFINE rows == Rows(Read(kind, 0, 1), content)
              first == Read(kind, 0, 1)
  <2>1. content \in Contents BY <1>0
  <2>2. IsFiniteSet(rows) /\ rows \in SUBSET Nat BY <2>1, RowsType
  <2>3. \A p : Read(kind, 0, p).what \in Lists /\ Read(kind, 0, p).page = p
                 /\ Rows(Read(kind, 0, p), content) = rows
    BY RowsOfAnyPage DEF Read, Lists
  <2>4. first \in Reached(kind)
    <3>1. /\ DOMAIN Steps(kind) =
               1..(IF Of(kind, first).pages > 1 THEN Of(kind, first).pages ELSE 1)
          /\ 1 \in DOMAIN Steps(kind) => Steps(kind)[1] = {first}
      BY DEF Steps, Walk
    <3>2. 1 \in DOMAIN Steps(kind)
      <4>1. Of(kind, first).pages \in Nat
        <5>1. \/ Of(kind, first).pages = 0
              \/ \E c \in seen : Of(kind, first).pages = PagesOf(Rows(first, c))
          BY <2>3, ListTold
        <5>. QED BY <1>5, <2>2, <5>1, PagesType
      <4>. QED BY <3>1, <4>1
    <3>3. 1 \in {j \in DOMAIN Steps(kind) :
                   \A k \in 1..(j - 1) : \A read \in Steps(kind)[k] : Ok(kind, read)}
      BY <3>2
    <3>4. first \in Steps(kind)[1] BY <3>1, <3>2
    <3>. QED BY <3>3, <3>4 DEF Reached
  <2>5. Of(kind, first).pages = PagesOf(rows) /\ PagesOf(rows) \in Nat
    <3>1. Of(kind, first).is = "ok" BY <1>4, <2>4 DEF Ok
    <3>2. \E c \in seen : Of(kind, first).pages = PagesOf(Rows(first, c))
      BY <2>3, <3>1, ResultKinds
    <3>. QED BY <1>5, <2>2, <3>2, PagesType
  <2>6. PICK p \in 1..PagesOf(rows) : t \in OnPage(rows, p)
    BY <1>5, <2>2, PagesHaveAll
  <2>7. Read(kind, 0, p) \in Reached(kind)
    BY <1>4, <2>5, <2>6, WalkReachesAll
  <2>8. Of(kind, Read(kind, 0, p)).is = "ok" BY <1>4, <2>7 DEF Ok
  <2>9. \E c \in seen : Of(kind, Read(kind, 0, p)).items
                          = OnPage(Rows(Read(kind, 0, p), c), Read(kind, 0, p).page)
    BY <2>3, <2>8, ResultKinds
  <2>10. Of(kind, Read(kind, 0, p)).items = OnPage(rows, p) BY <1>5, <2>3, <2>9
  <2>. HIDE DEF rows
  <2>11. t \in Of(kind, Read(kind, 0, p)).items BY <2>6, <2>10
  <2>. QED BY <2>7, <2>11 DEF NavigationTerms
<1>6. NavigationTerms \subseteq UNION {there(c) : c \in seen} BY <1>1
<1>7. ASSUME seen = {content} PROVE NavigationTerms = there(content)
  <2>1. NavigationTerms \subseteq there(content) BY <1>1, <1>7
  <2>2. there(content) \subseteq NavigationTerms BY <1>5, <1>7
  <2>. QED BY <2>1, <2>2
<1>. QED BY <1>6, <1>7

-----------------------------------------------------------------------------
(* Both at once.                                                           *)

PagesInv == DashInv /\ ReadingInv

\* Whatever is published and read, asked and answered, the invariants of the
\* public site and of the dashboards hold.
THEOREM ReadPagesInvariant == Spec => []PagesInv
<1>1. Init => PagesInv BY DashInitOK, ReadingInitOK DEF Init, PagesInv
<1>2. ASSUME PagesInv, [Next]_vars PROVE PagesInv'
  <2>1. CASE SiteStep
    <3>1. DashInv' BY <1>2, <2>1, DashStep DEF PagesInv, SiteStep
    <3>2. ReadingInv' BY <1>2, <2>1, ReadingStep DEF PagesInv, SiteStep
    <3>. QED BY <3>1, <3>2 DEF PagesInv
  <2>2. CASE ConsoleStep
    <3>1. DashInv' BY <1>2, <2>2, DashStep DEF PagesInv, ConsoleStep
    <3>2. ReadingInv' BY <1>2, <2>2, ReadingStep DEF PagesInv, ConsoleStep
    <3>. QED BY <3>1, <3>2 DEF PagesInv
  <2>3. CASE UNCHANGED vars
    <3>1. UNCHANGED readingVars /\ UNCHANGED dashVars BY <2>3 DEF vars
    <3>2. DashInv' BY <1>2, <3>1, DashStep DEF PagesInv
    <3>3. ReadingInv' BY <1>2, <3>1, ReadingStep DEF PagesInv
    <3>. QED BY <3>2, <3>3 DEF PagesInv
  <2>. QED BY <1>2, <2>1, <2>2, <2>3 DEF Next
<1>. QED BY <1>1, <1>2, PTL DEF Spec

\* The title of an article (generateMetadata) and its text (the page) are of
\* one version, since both wait for the same read of cache().
THEOREM OneVersionTheorem == Spec => []OneVersion
<1>1. OneVersion BY PartsShareReads
<1>. QED BY <1>1, PTL

\* notFound() is called only for a page that did not exist at some moment
\* since it was asked for: missingOrFailure lets through nothing but a 404,
\* and a page number is compared with the total of a list that was read.
THEOREM AbsenceIsTrueTheorem == Spec => []AbsenceIsTrue
<1>1. PagesInv => AbsenceIsTrue BY MissingIsAbsent DEF PagesInv
<1>. QED BY <1>1, ReadPagesInvariant, PTL

\* getAllTaxonomy, one page after the other, returns every term there is and
\* no other while nothing changes, and else only terms there were.
THEOREM NavigationWholeTheorem == Spec => []NavigationWhole
<1>1. PagesInv => NavigationWhole BY WalkIsWhole DEF PagesInv
<1>. QED BY <1>1, ReadPagesInvariant, PTL

\* ArticleList, ArticlePagination, the navigation, the terms of an article
\* and the sitemaps link only pages that are found while nothing changes.
THEOREM LinksLeadTheorem == Spec => []LinksLead
<1>1. PagesInv => LinksLead BY LinkedIsFound DEF PagesInv
<1>. QED BY <1>1, ReadPagesInvariant, PTL

\* SystemStatusPage and RequestLogs show without a warning only what is at
\* least as new as the moment the last request was sent.
THEOREM ShownIsCurrentTheorem == Spec => []ShownIsCurrent
<1>1. PagesInv => ShownIsCurrent BY DashCurrent DEF PagesInv
<1>. QED BY <1>1, ReadPagesInvariant, PTL

=============================================================================
