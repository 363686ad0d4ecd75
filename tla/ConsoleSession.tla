--------------------------- MODULE ConsoleSession ---------------------------
(***************************************************************************)
(* One tab of the console and its login session: the calls of its pages,   *)
(* the single refresh they share when the access token has run out, the    *)
(* cookies every answer may set or clear, and the page the answers lead    *)
(* to.  The server is reduced to one session: whether it is alive and      *)
(* which of the triples of access, refresh and CSRF token it has handed    *)
(* out it still accepts (AuthSessions has the rest).                       *)
(*                                                                         *)
(* The triples are numbered.  A number is a token, 0 is a missing cookie.  *)
(* The refresh and the CSRF cookie are set and cleared together and live   *)
(* equally long, so that one number names both.                            *)
(***************************************************************************)
EXTENDS Naturals

CONSTANTS
  Call,       \* calls the tab can have under way
  None,       \* no call
  MaxIssued   \* bound on the triples handed out

ASSUME CallAssumption == Call # {} /\ None \notin Call
ASSUME IssuedAssumption == MaxIssued \in Nat

VARIABLES
  server,     \* the session on the server
  jar,        \* the cookies of the browser
  calls,      \* apiRequest: the calls under way, with what they have sent
  refreshes,  \* the refresh requests, by the call that started them
  promise,    \* refreshPromise: the call whose refresh the others share
  page,       \* what the tab shows
  disturbed   \* what happened to the session that is not this tab's doing

vars == <<server, jar, calls, refreshes, promise, page, disturbed>>

-----------------------------------------------------------------------------
Issued == 1..MaxIssued

\* since: access tokens older than it carry an old credential version.
Server == [alive: BOOLEAN, issued: 0..MaxIssued, since: 1..(MaxIssued + 1),
           consumed: SUBSET Issued, reused: BOOLEAN]

Jar == [access: 0..MaxIssued, refresh: 0..MaxIssued]

\* What an answer means to isSessionError, and what it does to the cookies.
Outcome == {"ok", "session", "refused", "fault"}
Answer == [is: Outcome, clears: BOOLEAN, sets: 0..MaxIssued]
Plain(outcome) == [is |-> outcome, clears |-> FALSE, sets |-> 0]
Clearing(outcome) == [is |-> outcome, clears |-> TRUE, sets |-> 0]
HandsOut(number) == [is |-> "ok", clears |-> FALSE, sets |-> number]

Kind == {"none", "me", "page", "profile", "password", "login", "logout"}
Row == [kind: Kind, stage: {"idle", "sent", "served", "waiting"},
        access: 0..MaxIssued, token: 0..MaxIssued, sends: Nat,
        answer: Answer, waits: Call \cup {None}]
Refresh == [stage: {"none", "sent", "served"}, token: 0..MaxIssued, answer: Answer]

Idle == [kind |-> "none", stage |-> "idle", access |-> 0, token |-> 0, sends |-> 0,
         answer |-> Plain("ok"), waits |-> None]
NoRefresh == [stage |-> "none", token |-> 0, answer |-> Plain("ok")]

NoCalls == [c \in Call |-> Idle]
NoRefreshes == [c \in Call |-> NoRefresh]

\* AUTH_RETRY_EXCLUDED
Excluded == {"login", "logout"}

\* Mutant: every error is taken for the end of the session.
AnyError(outcome) == outcome # "ok"

IsSessionError(outcome) == outcome = "session"

\* The session is changed under the calls of this tab, by its own password
\* change or by cookies cleared in an outage.  It is forked once its tokens
\* may be known to the server and not to the tab: after a lost answer, or when
\* another tab uses them.
Changed == IF disturbed = "forked" THEN "forked" ELSE "changed"

\* The slot of a call that is alone.
First == CHOOSE c \in Call : TRUE

UnderWay(c) == calls[c].stage # "idle"

\* The request reads the cookies when it is sent.
Sent(kind, sends, cookies) ==
  [Idle EXCEPT !.kind = kind, !.stage = "sent", !.sends = sends,
               !.access = cookies.access, !.token = cookies.refresh]

SetsCookies(answer) == answer.clears \/ answer.sets # 0

\* The browser applies Set-Cookie before the code sees the answer.
Applied(answer) ==
  IF SetsCookies(answer) THEN [access |-> answer.sets, refresh |-> answer.sets] ELSE jar

-----------------------------------------------------------------------------
(* The server.                                                             *)

Fault == Plain("fault")
Refused == Plain("refused")

\* get_current_admin: a missing access token is reported and leaves the
\* cookies alone, one the session no longer accepts clears them.
AccessError(row) ==
  IF row.access = 0 THEN Plain("session")
  ELSE Clearing("session")
AccessAccepted(row) == row.access # 0 /\ server.alive /\ row.access >= server.since

\* require_admin_csrf: the pair of the request is the one the session holds.
CsrfAccepted(row) == row.token # 0 /\ row.token = server.issued

\* What a call has sent is of no use any more once it is answered.
Answers(c, answer) ==
  calls' = [calls EXCEPT ![c] = [Idle EXCEPT !.kind = calls[c].kind, !.stage = "served",
                                             !.sends = calls[c].sends, !.answer = answer]]

\* Who is signed in, the profile, and the reads and writes of the workspace.
\* A read does not look at the CSRF pair.
ServesProtected(c) ==
  LET row == calls[c] IN
  /\ row.stage = "sent"
  /\ row.kind \in {"me", "page", "profile"}
  /\ \/ /\ ~AccessAccepted(row)
        /\ Answers(c, AccessError(row))
     \/ /\ AccessAccepted(row)
        /\ row.kind = "profile" => CsrfAccepted(row)
        /\ Answers(c, Plain("ok"))
     \/ /\ AccessAccepted(row)
        /\ row.kind # "me"
        /\ ~CsrfAccepted(row)
        /\ Answers(c, Refused)
  /\ UNCHANGED <<server, jar, refreshes, promise, page, disturbed>>

\* change_password raises the credential version and hands out new tokens.
\* A wrong password is refused with AUTH_INVALID_CREDENTIALS.
ServesPassword(c) ==
  LET row == calls[c] IN
  /\ row.stage = "sent"
  /\ row.kind = "password"
  /\ \/ /\ ~AccessAccepted(row)
        /\ Answers(c, AccessError(row))
        /\ UNCHANGED <<server, disturbed>>
     \/ /\ AccessAccepted(row)
        /\ Answers(c, Refused)
        /\ UNCHANGED <<server, disturbed>>
     \/ /\ AccessAccepted(row)
        /\ CsrfAccepted(row)
        /\ server.issued < MaxIssued
        /\ Answers(c, HandsOut(server.issued + 1))
        /\ server' = [server EXCEPT !.issued = @ + 1, !.since = server.issued + 1]
        /\ disturbed' = Changed
  /\ UNCHANGED <<jar, refreshes, promise, page>>

\* A login opens a session of its own.
ServesLogin(c) ==
  LET row == calls[c] IN
  /\ row.stage = "sent"
  /\ row.kind = "login"
  /\ \/ /\ Answers(c, Refused)
        /\ UNCHANGED <<server, disturbed>>
     \/ /\ server.issued < MaxIssued
        /\ Answers(c, HandsOut(server.issued + 1))
        /\ server' = [server EXCEPT !.alive = TRUE, !.issued = @ + 1,
                                    !.since = server.issued + 1, !.reused = FALSE]
        /\ disturbed' = "no"
  /\ UNCHANGED <<jar, refreshes, promise, page>>

\* Whatever the route raises once it has been entered clears the cookies.
ServesLogout(c) ==
  LET row == calls[c] IN
  /\ row.stage = "sent"
  /\ row.kind = "logout"
  /\ Answers(c, IF row.token = 0 THEN Refused
                ELSE IF row.token # server.issued THEN Clearing("refused")
                ELSE Clearing("ok"))
  /\ server' = IF CsrfAccepted(row) THEN [server EXCEPT !.alive = FALSE] ELSE server
  /\ UNCHANGED <<jar, refreshes, promise, page, disturbed>>

\* The server cannot answer.
CallFails(c) ==
  /\ calls[c].stage = "sent"
  /\ Answers(c, Fault)
  /\ UNCHANGED <<server, jar, refreshes, promise, page, disturbed>>

\* The answer does not reach the browser.
CallLost(c) ==
  /\ calls[c].stage = "served"
  /\ calls[c].answer # Fault
  /\ Answers(c, Fault)
  /\ disturbed' = IF ~SetsCookies(calls[c].answer) THEN disturbed ELSE "forked"
  /\ UNCHANGED <<server, jar, refreshes, promise, page>>

RefreshAnswers(s, answer) ==
  refreshes' = [refreshes EXCEPT ![s] = [NoRefresh EXCEPT !.stage = "served",
                                                          !.answer = answer]]

\* A token that was used before ends the session; the CSRF pair is checked
\* before the session's own state.
RefreshServes(s) ==
  LET token == refreshes[s].token IN
  /\ refreshes[s].stage = "sent"
  /\ \/ /\ token = 0
        /\ RefreshAnswers(s, Refused)
        /\ UNCHANGED server
     \/ /\ token # 0
        /\ token \in server.consumed
        /\ RefreshAnswers(s, Clearing("session"))
        /\ server' = [server EXCEPT !.alive = FALSE, !.reused = TRUE]
     \/ /\ token # 0
        /\ token \notin server.consumed
        /\ token # server.issued
        /\ RefreshAnswers(s, Clearing("refused"))
        /\ UNCHANGED server
     \/ /\ token # 0
        /\ token \notin server.consumed
        /\ token = server.issued
        /\ ~server.alive
        /\ RefreshAnswers(s, Clearing("session"))
        /\ UNCHANGED server
     \/ /\ token # 0
        /\ token \notin server.consumed
        /\ token = server.issued
        /\ server.alive
        /\ server.issued < MaxIssued
        /\ RefreshAnswers(s, HandsOut(server.issued + 1))
        /\ server' = [server EXCEPT !.issued = @ + 1, !.consumed = @ \cup {token}]
  /\ UNCHANGED <<jar, calls, promise, page, disturbed>>

\* The server cannot answer, or never gets the request.
RefreshFails(s) ==
  /\ refreshes[s].stage = "sent"
  /\ RefreshAnswers(s, Fault)
  /\ UNCHANGED <<server, jar, calls, promise, page, disturbed>>

\* The refresh lock is held by another refresh of the token (429) or Redis is
\* down (503): the route has been entered and marks the cookies for clearing.
RefreshPutOff(s) ==
  /\ refreshes[s].stage = "sent"
  /\ refreshes[s].token # 0
  /\ RefreshAnswers(s, Clearing("fault"))
  /\ disturbed' = Changed
  /\ UNCHANGED <<server, jar, calls, promise, page>>

RefreshLost(s) ==
  /\ refreshes[s].stage = "served"
  /\ refreshes[s].answer # Fault
  /\ RefreshAnswers(s, Fault)
  /\ disturbed' = IF ~SetsCookies(refreshes[s].answer) THEN disturbed
                  ELSE "forked"
  /\ UNCHANGED <<server, jar, calls, promise, page>>

-----------------------------------------------------------------------------
(* The tab.                                                                *)

\* The page is loaded anew and asks who is signed in; whatever was under way
\* is forgotten.
Loads(cookies) ==
  /\ page' = "starting"
  /\ calls' = [NoCalls EXCEPT ![First] = Sent("me", 1, cookies)]
  /\ refreshes' = NoRefreshes
  /\ promise' = None

\* A reload forgets an answer that had changed what the server accepts, other
\* than the answer of c.
ForgottenBut(c) ==
  \/ \E other \in Call \ {c} : calls[other].stage = "served" /\ SetsCookies(calls[other].answer)
  \/ \E s \in Call : refreshes[s].stage = "served" /\ SetsCookies(refreshes[s].answer)

\* A visit to a page of the workspace, a reload, or the retry button of the
\* page that could not start.
Visits ==
  /\ page # "starting"
  /\ Loads(jar)
  /\ disturbed' = IF ForgottenBut(None) THEN "forked" ELSE disturbed
  /\ UNCHANGED <<server, jar>>

Starts(c, kind) ==
  /\ page = "workspace"
  /\ ~UnderWay(c)
  /\ calls' = [calls EXCEPT ![c] = Sent(kind, 1, jar)]
  /\ UNCHANGED <<server, jar, refreshes, promise, page, disturbed>>

\* A page of the workspace sends a read or a write.
Calls(c) == Starts(c, "page")

\* The button or entry is disabled while its own call runs.
StartsAlone(c, kind) ==
  /\ \A other \in Call : UnderWay(other) => calls[other].kind # kind
  /\ Starts(c, kind)

\* The forms of the account, and the account's menu.
SavesProfile(c) == StartsAlone(c, "profile")
ChangesPassword(c) == StartsAlone(c, "password")
LogsOut(c) == StartsAlone(c, "logout")

LogsIn ==
  /\ page = "login"
  /\ \A c \in Call : ~UnderWay(c)
  /\ calls' = [calls EXCEPT ![First] = Sent("login", 1, jar)]
  /\ UNCHANGED <<server, jar, refreshes, promise, page, disturbed>>

\* Mutant: every call refreshes on its own.
RefreshesAlone(c, cookies) ==
  /\ calls' = [calls EXCEPT ![c] = [Idle EXCEPT !.kind = calls[c].kind, !.stage = "waiting",
                                                !.sends = calls[c].sends, !.waits = c]]
  /\ promise' = c
  /\ refreshes' = [refreshes EXCEPT ![c] = [NoRefresh EXCEPT !.stage = "sent",
                                                             !.token = cookies.refresh]]

\* refreshSession: joins the refresh under way or starts one.
JoinsRefresh(c, cookies) ==
  /\ calls' = [calls EXCEPT ![c] = [Idle EXCEPT !.kind = calls[c].kind, !.stage = "waiting",
                                                !.sends = calls[c].sends,
                                                !.waits = IF promise = None THEN c ELSE promise]]
  /\ promise' = IF promise = None THEN c ELSE promise
  /\ refreshes' = IF promise = None
                  THEN [refreshes EXCEPT ![c] = [NoRefresh EXCEPT !.stage = "sent",
                                                                  !.token = cookies.refresh]]
                  ELSE refreshes

\* What the result of a call does to the page: getInitialState for the first
\* call, nothing for the others (their page shows the error).
PageAfter(c, outcome) ==
  IF calls[c].kind # "me" THEN page
  ELSE IF outcome = "ok" THEN "workspace"
  ELSE IF IsSessionError(outcome) THEN "login"
  ELSE "unavailable"

\* The call is answered with a session error for the first time.
Retries(c) ==
  /\ IsSessionError(calls[c].answer.is)
  /\ calls[c].sends = 1
  /\ calls[c].kind \notin Excluded

\* An answer of apiRequest.  A login or a profile saved loads the page anew; a
\* logout drops what the tab holds.
Arrives(c) ==
  LET answer == calls[c].answer
      cookies == Applied(answer) IN
  /\ calls[c].stage = "served"
  /\ jar' = cookies
  /\ \/ /\ Retries(c)
        /\ JoinsRefresh(c, cookies)
        /\ UNCHANGED <<page, disturbed>>
     \/ /\ ~Retries(c)
        /\ calls[c].kind = "login" /\ answer.is = "ok"
        /\ Loads(cookies)
        /\ UNCHANGED disturbed
     \/ /\ ~Retries(c)
        /\ calls[c].kind = "profile" /\ answer.is = "ok"
        /\ Loads(cookies)
        /\ disturbed' = IF ForgottenBut(c) THEN "forked" ELSE disturbed
     \/ /\ ~Retries(c)
        /\ calls[c].kind = "logout" /\ answer.is = "ok"
        /\ page' = "login"
        /\ calls' = NoCalls
        /\ refreshes' = NoRefreshes
        /\ promise' = None
        /\ disturbed' = IF ForgottenBut(c) THEN "forked" ELSE disturbed
     \/ /\ ~Retries(c)
        /\ ~(calls[c].kind \in {"login", "profile", "logout"} /\ answer.is = "ok")
        /\ calls' = [calls EXCEPT ![c] = Idle]
        /\ page' = PageAfter(c, answer.is)
        /\ UNCHANGED <<refreshes, promise, disturbed>>
  /\ UNCHANGED server

\* Mutant: the refresh settles the call that started it only.
StarterOnly(c, s) == calls[c].stage = "waiting" /\ c = s

\* The calls that wait for the refresh started by s.
WaitsFor(c, s) == calls[c].stage = "waiting" /\ calls[c].waits = s

Resent(c, cookies) == Sent(calls[c].kind, calls[c].sends + 1, cookies)

\* The answer of the refresh: the calls that wait for it are sent again, or
\* fail as it did.
RefreshArrives(s) ==
  LET answer == refreshes[s].answer
      cookies == Applied(answer) IN
  /\ refreshes[s].stage = "served"
  /\ jar' = cookies
  /\ refreshes' = [refreshes EXCEPT ![s] = NoRefresh]
  /\ promise' = IF promise = s THEN None ELSE promise
  /\ calls' = [c \in Call |->
       IF ~WaitsFor(c, s) THEN calls[c]
       ELSE IF answer.is = "ok" THEN Resent(c, cookies)
       ELSE Idle]
  /\ \/ /\ answer.is # "ok"
        /\ \E c \in Call : WaitsFor(c, s) /\ page' = PageAfter(c, answer.is)
     \/ /\ answer.is = "ok" \/ \A c \in Call : ~WaitsFor(c, s)
        /\ UNCHANGED page
  /\ UNCHANGED <<server, disturbed>>

-----------------------------------------------------------------------------
(* Time and others.                                                        *)

\* The browser drops the access cookie before the server stops accepting it
\* (decode_access_token has a leeway of 30 s), and an access token outlives
\* the answer to a call sent again with it.
AccessRunsOut ==
  /\ jar.access # 0
  /\ \A c \in Call : calls[c].sends = 2 => calls[c].stage \notin {"sent", "served"}
  /\ jar' = [jar EXCEPT !.access = 0]
  /\ UNCHANGED <<server, calls, refreshes, promise, page, disturbed>>

\* The session is revoked, its account is closed, or its time is over.
SessionEnds ==
  /\ server.alive
  /\ server' = [server EXCEPT !.alive = FALSE]
  /\ UNCHANGED <<jar, calls, refreshes, promise, page, disturbed>>

\* Another tab of the browser refreshes the session with the same cookies.
OtherTabRefreshes ==
  /\ server.alive
  /\ jar.refresh # 0
  /\ jar.refresh = server.issued
  /\ server.issued < MaxIssued
  /\ server' = [server EXCEPT !.issued = @ + 1, !.consumed = @ \cup {server.issued}]
  /\ jar' = [access |-> server.issued + 1, refresh |-> server.issued + 1]
  /\ disturbed' = "forked"
  /\ UNCHANGED <<calls, refreshes, promise, page>>

-----------------------------------------------------------------------------
Init ==
  /\ server = [alive |-> FALSE, issued |-> 0, since |-> 1, consumed |-> {}, reused |-> FALSE]
  /\ jar = [access |-> 0, refresh |-> 0]
  /\ calls = NoCalls
  /\ refreshes = NoRefreshes
  /\ promise = None
  /\ page = "login"
  /\ disturbed = "no"

Serves(c) == ServesProtected(c) \/ ServesPassword(c) \/ ServesLogin(c) \/ ServesLogout(c)

Next ==
  \/ Visits
  \/ LogsIn
  \/ \E c \in Call : \/ Calls(c) \/ SavesProfile(c) \/ ChangesPassword(c) \/ LogsOut(c)
                     \/ Serves(c)
                     \/ CallFails(c)
                     \/ CallLost(c)
                     \/ Arrives(c)
  \/ \E s \in Call : \/ RefreshServes(s)
                     \/ RefreshFails(s)
                     \/ RefreshPutOff(s)
                     \/ RefreshLost(s)
                     \/ RefreshArrives(s)
  \/ AccessRunsOut
  \/ SessionEnds
  \/ OtherTabRefreshes

\* A request is answered, by the server or by the network's error, and its
\* answer is handled.
Fairness ==
  \A c \in Call : /\ WF_vars(Serves(c) \/ CallFails(c))
                  /\ WF_vars(Arrives(c))
                  /\ WF_vars(RefreshServes(c) \/ RefreshFails(c))
                  /\ WF_vars(RefreshArrives(c))

Spec == Init /\ [][Next]_vars /\ Fairness

-----------------------------------------------------------------------------
(* Type correctness: the cookies, the calls and the refreshes of the tab   *)
(* and the session on the server stay within their types.                  *)
TypeOK ==
  /\ server \in Server
  /\ jar \in Jar
  /\ calls \in [Call -> Row]
  /\ refreshes \in [Call -> Refresh]
  /\ promise \in Call \cup {None}
  /\ page \in {"login", "starting", "workspace", "unavailable"}
  /\ disturbed \in {"no", "changed", "forked"}

\* A tab on its own, none of whose answers was lost, never has its session
\* ended for presenting a refresh token twice, however many of its calls find
\* the access token run out (refreshSession shares one refresh).
LoneTabKeepsSession == server.reused => disturbed = "forked"

\* A call is sent at most twice, whatever its answers: one refresh and one
\* replay (apiRequest).
SentAtMostTwice == \A c \in Call : calls[c].sends <= 2

\* The call ends with this outcome, of its own answer or of the refresh it
\* waited for.
EndsWith(c, outcome) ==
  /\ UnderWay(c)
  /\ calls'[c].stage = "idle"
  /\ page' = page \/ page = "starting"
  /\ outcome = IF calls[c].stage = "waiting" THEN refreshes[calls[c].waits].answer.is
               ELSE calls[c].answer.is

\* A page is told of a session error, and the tab goes back to the login page
\* without a logout, only if the session is over, unless the session was
\* changed under the call: by another tab, by the tab's own password change,
\* by a lost answer, or by cookies cleared in an outage.
SessionErrorsTrue ==
  [][ (\/ \E c \in Call : EndsWith(c, "session")
       \/ page = "starting" /\ page' = "login")
      => ~server.alive \/ disturbed # "no" ]_vars

\* Every call ends: with its result, its error, or the page that sent it.
EveryCallEnds == \A c \in Call : UnderWay(c) ~> ~UnderWay(c)

\* The page that could not start is shown for a fault of the service: who is
\* merely not signed in comes to the login page (app.test.tsx:57).
UnavailableByFault ==
  [][ page = "starting" /\ page' = "unavailable" =>
        \E c \in Call : EndsWith(c, "fault") ]_vars

\* An outage does not sign the tab out: a call that ends with one leaves the
\* cookies as they were (authentication-authorization.md:81).
OutageKeepsCookies ==
  [][ \A c \in Call : EndsWith(c, "fault") => jar' = jar ]_vars
=============================================================================
