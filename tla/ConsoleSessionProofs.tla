------------------------ MODULE ConsoleSessionProofs ------------------------
(***************************************************************************)
(* Proofs about ConsoleSession, for any number of calls in the tab.        *)
(***************************************************************************)
EXTENDS ConsoleSession, TLAPS

-----------------------------------------------------------------------------
(* The inductive invariant.                                                *)

\* Only tokens that were handed out are anywhere.
Bounded ==
  /\ server.consumed \subseteq 1..server.issued
  /\ server.since <= server.issued + 1
  /\ jar.refresh <= server.issued
  /\ \A c \in Call : calls[c].answer.sets <= server.issued
  /\ \A s \in Call : /\ refreshes[s].token <= server.issued
                     /\ refreshes[s].answer.sets <= server.issued

\* There is one refresh at most, the one that is shared, and the call that
\* started it waits for it; a call that waits has been sent once.
OneFlight ==
  /\ \A s \in Call : refreshes[s].stage # "none" =>
       promise = s /\ calls[s].stage = "waiting" /\ calls[s].waits = s
  /\ \A c \in Call : /\ calls[c].stage \in {"sent", "served"} => calls[c].sends \in {1, 2}
                     /\ calls[c].stage = "waiting" => calls[c].sends = 1
                     /\ calls[c].stage = "idle" => calls[c].sends = 0

\* What each page of the tab may have under way.
PageCalls ==
  /\ page # "workspace" => \A c \in Call \ {First} : ~UnderWay(c)
  /\ \A c \in Call : UnderWay(c) =>
       calls[c].kind \in CASE page = "starting" -> {"me"}
                           [] page = "login" -> {"login"}
                           [] page = "workspace" -> {"page", "profile", "password", "logout"}
                           [] page = "unavailable" -> {}

\* The numbers handed out in answers that have not arrived yet.
CallHands(c) == calls[c].stage = "served" /\ calls[c].answer.sets # 0
RefreshHands(s) == refreshes[s].stage = "served" /\ refreshes[s].answer.sets # 0
NewTo(n) == /\ n \notin server.consumed
            /\ n # jar.refresh
            /\ \A s \in Call : refreshes[s].stage = "sent" => n # refreshes[s].token

\* What a refresh has sent is unused; what is on its way is new to the server
\* and to the tab; the tab only holds a used token while the answer that
\* replaces it is on its way.
UnusedSent == \A s \in Call : refreshes[s].stage = "sent" => refreshes[s].token \notin server.consumed
NewOnTheWay == /\ \A c \in Call : CallHands(c) => NewTo(calls[c].answer.sets)
               /\ \A s \in Call : RefreshHands(s) => NewTo(refreshes[s].answer.sets)
AllDifferent ==
  /\ \A c, d \in Call : CallHands(c) /\ CallHands(d) /\ c # d =>
       calls[c].answer.sets # calls[d].answer.sets
  /\ \A c, s \in Call : CallHands(c) /\ RefreshHands(s) =>
       calls[c].answer.sets # refreshes[s].answer.sets
HeldUnused == jar.refresh \in server.consumed =>
                \/ \E s \in Call : RefreshHands(s)
                \/ \E c \in Call : CallHands(c) /\ calls[c].kind = "login"

Linear == ~server.reused /\ UnusedSent /\ NewOnTheWay /\ AllDifferent /\ HeldUnused

\* So it is unless the session is forked.
Unforked == disturbed # "forked" => Linear

\* A call sent again carries an access token the session still accepts, and
\* whatever says that the session is over is right.
CallTrue(c) ==
  calls[c].sends = 2 =>
    /\ calls[c].stage = "sent" => calls[c].access # 0 /\ calls[c].access >= server.since
    /\ calls[c].stage = "served" /\ calls[c].answer.is = "session" => ~server.alive
RefreshTrue(s) ==
  refreshes[s].stage = "served" =>
    /\ refreshes[s].answer.is = "session" => ~server.alive
    /\ refreshes[s].answer.is = "ok" =>
         refreshes[s].answer.sets # 0 /\ refreshes[s].answer.sets >= server.since

\* So it is as long as nothing has happened to the session but its end.
Undisturbed == disturbed = "no" => \A c \in Call : CallTrue(c) /\ RefreshTrue(c)

\* Logins and logouts are never answered with a session error.
ExcludedAnswers ==
  \A c \in Call : calls[c].stage = "served" /\ calls[c].kind \in Excluded
                    => calls[c].answer.is # "session"

Ind == /\ TypeOK
       /\ Bounded
       /\ OneFlight
       /\ PageCalls
       /\ Unforked
       /\ Undisturbed
       /\ ExcludedAnswers

-----------------------------------------------------------------------------
(* What the operators that build rows and answers return.                  *)

LEMMA FirstCall == First \in Call
BY CallAssumption DEF First

\* The plain rows and answers are of their types.
LEMMA AnswerShapes ==
  /\ \A is \in Outcome :
       /\ Plain(is) \in Answer /\ Plain(is).is = is
       /\ Plain(is).sets = 0 /\ ~Plain(is).clears
       /\ Clearing(is) \in Answer /\ Clearing(is).is = is
       /\ Clearing(is).sets = 0 /\ Clearing(is).clears
  /\ \A n \in 0..MaxIssued :
       /\ HandsOut(n) \in Answer /\ HandsOut(n).is = "ok"
       /\ HandsOut(n).sets = n /\ ~HandsOut(n).clears
  /\ Fault = Plain("fault") /\ Refused = Plain("refused")
  /\ {"ok", "session", "refused", "fault"} \subseteq Outcome
BY IssuedAssumption DEF Plain, Clearing, HandsOut, Answer, Outcome, Fault, Refused

LEMMA IdleShape ==
  /\ Idle \in Row
  /\ Idle.kind = "none" /\ Idle.stage = "idle" /\ Idle.sends = 0 /\ Idle.answer.sets = 0
  /\ NoRefresh \in Refresh
  /\ NoRefresh.stage = "none" /\ NoRefresh.token = 0 /\ NoRefresh.answer.sets = 0
BY IssuedAssumption DEF Idle, Row, Kind, Plain, Answer, Outcome, NoRefresh, Refresh

LEMMA AnswersShape ==
  ASSUME calls \in [Call -> Row], NEW c \in Call, NEW a \in Answer, Answers(c, a)
  PROVE  /\ calls' \in [Call -> Row]
         /\ calls'[c].kind = calls[c].kind
         /\ calls'[c].stage = "served"
         /\ calls'[c].sends = calls[c].sends
         /\ calls'[c].answer = a
         /\ \A d \in Call \ {c} : calls'[d] = calls[d]
<1> DEFINE row == [Idle EXCEPT !.kind = calls[c].kind, !.stage = "served",
                               !.sends = calls[c].sends, !.answer = a]
<1>1. calls' = [calls EXCEPT ![c] = row]
  BY DEF Answers
<1>2. calls[c] \in Row
  OBVIOUS
<1>4. row \in Row
  BY <1>2, IdleShape, Zenon DEF Row
<1>5. /\ row.kind = calls[c].kind /\ row.stage = "served"
      /\ row.sends = calls[c].sends /\ row.answer = a
  BY IdleShape, Zenon DEF Row
<1> HIDE DEF row
<1> QED
  BY <1>1, <1>4, <1>5, Zenon

LEMMA RefreshAnswersShape ==
  ASSUME refreshes \in [Call -> Refresh], NEW s \in Call, NEW a \in Answer, RefreshAnswers(s, a)
  PROVE  /\ refreshes' \in [Call -> Refresh]
         /\ refreshes'[s].stage = "served"
         /\ refreshes'[s].token = 0
         /\ refreshes'[s].answer = a
         /\ \A d \in Call \ {s} : refreshes'[d] = refreshes[d]
<1> DEFINE row == [NoRefresh EXCEPT !.stage = "served", !.answer = a]
<1>1. refreshes' = [refreshes EXCEPT ![s] = row]
  BY DEF RefreshAnswers
<1>2. row \in Refresh
  BY IdleShape, Zenon DEF Refresh
<1>3. row.stage = "served" /\ row.token = 0 /\ row.answer = a
  BY IdleShape, Zenon DEF Refresh
<1> HIDE DEF row
<1> QED
  BY <1>1, <1>2, <1>3, Zenon

\* A request that is sent.
LEMMA SentShape ==
  ASSUME NEW kind \in Kind, NEW n \in Nat, NEW cookies \in Jar
  PROVE  /\ Sent(kind, n, cookies) \in Row
         /\ Sent(kind, n, cookies).kind = kind
         /\ Sent(kind, n, cookies).stage = "sent"
         /\ Sent(kind, n, cookies).sends = n
         /\ Sent(kind, n, cookies).access = cookies.access
         /\ Sent(kind, n, cookies).answer.sets = 0
<1> DEFINE row == [Idle EXCEPT !.kind = kind, !.stage = "sent", !.sends = n,
                               !.access = cookies.access, !.token = cookies.refresh]
<1>1. row = Sent(kind, n, cookies)
  BY DEF Sent
<1>2. cookies.access \in 0..MaxIssued /\ cookies.refresh \in 0..MaxIssued
  BY Zenon DEF Jar
<1>3. row \in Row
  BY <1>2, IdleShape, Zenon DEF Row
<1>4. /\ row.kind = kind /\ row.stage = "sent" /\ row.sends = n
      /\ row.access = cookies.access /\ row.answer = Idle.answer
  BY IdleShape, Zenon DEF Row
<1> HIDE DEF row
<1> QED
  BY <1>1, <1>3, <1>4, IdleShape, Zenon

LEMMA AppliedShape ==
  ASSUME jar \in Jar, NEW a \in Answer
  PROVE  /\ Applied(a) \in Jar
         /\ a.sets # 0 => Applied(a) = [access |-> a.sets, refresh |-> a.sets]
         /\ a.sets = 0 => Applied(a) = jar \/ Applied(a) = [access |-> 0, refresh |-> 0]
BY IssuedAssumption DEF Applied, SetsCookies, Jar, Answer

LEMMA Numbers ==
  ASSUME TypeOK
  PROVE  /\ server.issued \in Nat /\ server.since \in Nat
         /\ jar.refresh \in Nat
         /\ \A c \in Call : calls[c].answer.sets \in Nat /\ calls[c].access \in Nat
         /\ \A s \in Call : refreshes[s].answer.sets \in Nat /\ refreshes[s].token \in Nat
BY IssuedAssumption DEF TypeOK, Server, Jar, Row, Refresh, Answer

-----------------------------------------------------------------------------
(* The four ways in which a step changes the tab.                          *)

Pages == {"login", "starting", "workspace", "unavailable"}
Disturbances == {"no", "changed", "forked"}

\* A call is answered, or its answer is lost: the rest of the tab stays.
LEMMA AnswerStep ==
  ASSUME Ind, NEW c \in Call, NEW a \in Answer, Answers(c, a),
         calls[c].stage \in {"sent", "served"},
         UNCHANGED <<jar, refreshes, promise, page>>,
         server' \in Server, disturbed' \in Disturbances,
         server'.consumed = server.consumed,
         server'.issued >= server.issued,
         server'.since <= server'.issued + 1,
         a.sets # 0 => a.sets = server'.issued /\ server'.issued > server.issued,
         calls[c].kind \in Excluded => a.is # "session"
  PROVE  /\ TypeOK' /\ Bounded' /\ OneFlight' /\ PageCalls' /\ ExcludedAnswers'
         /\ (disturbed' # "forked" => disturbed # "forked" /\ ~server'.reused /\ ~CallHands(c))
              => Unforked'
         /\ (disturbed' = "no" => /\ disturbed = "no" /\ server'.since = server.since
                                  /\ server'.alive => server.alive
                                  /\ calls[c].sends = 2 /\ a.is = "session" => ~server'.alive)
              => Undisturbed'
<1>1. /\ calls' \in [Call -> Row]
      /\ calls'[c].kind = calls[c].kind
      /\ calls'[c].stage = "served"
      /\ calls'[c].sends = calls[c].sends
      /\ calls'[c].answer = a
      /\ \A d \in Call \ {c} : calls'[d] = calls[d]
  BY AnswersShape, Zenon DEF Ind, TypeOK
<1>2. TypeOK'
  BY <1>1 DEF Ind, TypeOK, Disturbances
<1>0. /\ server.issued \in Nat /\ server.since \in Nat
      /\ jar.refresh \in Nat
      /\ \A d \in Call : calls[d].answer.sets \in Nat /\ calls[d].access \in Nat
      /\ \A s \in Call : refreshes[s].answer.sets \in Nat /\ refreshes[s].token \in Nat
  BY Numbers DEF Ind
<1>9. server'.issued \in Nat /\ server'.since \in Nat /\ a.sets \in Nat
  BY IssuedAssumption DEF Server, Answer
<1>3. Bounded'
  <2>1. 1..server.issued \subseteq 1..server'.issued
    BY <1>0, <1>9
  <2>2. Bounded
    BY DEF Ind
  <2>3. \A d \in Call : calls'[d].answer.sets <= server'.issued
    BY <1>0, <1>1, <1>9, <2>2 DEF Bounded
  <2> QED
    BY <1>0, <1>9, <2>1, <2>2, <2>3 DEF Bounded
<1>4. OneFlight'
  BY <1>1 DEF Ind, OneFlight
<1>5. PageCalls'
  BY <1>1 DEF Ind, PageCalls, UnderWay
<1>6. ExcludedAnswers'
  BY <1>1 DEF Ind, ExcludedAnswers
<1>7. ASSUME disturbed # "forked", ~server'.reused, ~CallHands(c)
      PROVE  Linear'
  <2>0. Linear
    BY <1>7 DEF Ind, Unforked
  <2>1. UnusedSent'
    BY <2>0 DEF Linear, UnusedSent
  <2>2. /\ \A d \in Call \ {c} : CallHands(d)' <=> CallHands(d)
        /\ \A s \in Call : RefreshHands(s)' <=> RefreshHands(s)
        /\ CallHands(c)' => a.sets # 0
    BY <1>1 DEF CallHands, RefreshHands
  <2>3. NewOnTheWay'
    <3>1. a.sets # 0 => NewTo(a.sets)
      BY <1>0, <1>9 DEF NewTo, Ind, Bounded
    <3>2. \A n : NewTo(n) => NewTo(n)'
      BY DEF NewTo
    <3> QED
      BY <1>1, <2>0, <2>2, <3>1, <3>2 DEF Linear, NewOnTheWay
  <2>4. AllDifferent'
    BY <1>0, <1>1, <1>9, <2>0, <2>2 DEF Linear, AllDifferent, Ind, Bounded
  <2>5. HeldUnused'
    BY <1>1, <1>7, <2>0, <2>2 DEF Linear, HeldUnused
  <2> QED
    BY <1>7, <2>1, <2>3, <2>4, <2>5 DEF Linear
<1>8. ASSUME disturbed = "no", server'.since = server.since, server'.alive => server.alive,
             calls[c].sends = 2 /\ a.is = "session" => ~server'.alive
      PROVE  \A d \in Call : CallTrue(d)' /\ RefreshTrue(d)'
  BY <1>1, <1>8 DEF Ind, Undisturbed, CallTrue, RefreshTrue
<1> QED
  BY <1>2, <1>3, <1>4, <1>5, <1>6, <1>7, <1>8 DEF Unforked, Undisturbed

\* The refresh is answered, or its answer is lost: the rest of the tab stays.
LEMMA RefreshStep ==
  ASSUME Ind, NEW s \in Call, NEW a \in Answer, RefreshAnswers(s, a),
         refreshes[s].stage \in {"sent", "served"},
         UNCHANGED <<jar, calls, promise, page>>,
         server' \in Server, disturbed' \in Disturbances,
         \/ server'.consumed = server.consumed
         \/ /\ server'.consumed = server.consumed \cup {refreshes[s].token}
            /\ refreshes[s].token # 0 /\ refreshes[s].stage = "sent" /\ a.sets # 0,
         server'.issued >= server.issued,
         server'.since = server.since,
         a.sets # 0 => a.sets = server'.issued /\ server'.issued > server.issued
  PROVE  /\ TypeOK' /\ Bounded' /\ OneFlight' /\ PageCalls' /\ ExcludedAnswers'
         /\ (disturbed' # "forked" => disturbed # "forked" /\ ~server'.reused /\ ~RefreshHands(s))
              => Unforked'
         /\ (disturbed' = "no" => /\ disturbed = "no"
                                  /\ server'.alive => server.alive
                                  /\ a.is = "session" => ~server'.alive
                                  /\ a.is = "ok" => a.sets # 0)
              => Undisturbed'
<1>1. /\ refreshes' \in [Call -> Refresh]
      /\ refreshes'[s].stage = "served"
      /\ refreshes'[s].token = 0
      /\ refreshes'[s].answer = a
      /\ \A d \in Call \ {s} : refreshes'[d] = refreshes[d]
  BY RefreshAnswersShape, Zenon DEF Ind, TypeOK
<1>2. TypeOK'
  BY <1>1 DEF Ind, TypeOK, Disturbances
<1>0. /\ server.issued \in Nat /\ server.since \in Nat
      /\ jar.refresh \in Nat
      /\ \A d \in Call : calls[d].answer.sets \in Nat /\ calls[d].access \in Nat
      /\ \A x \in Call : refreshes[x].answer.sets \in Nat /\ refreshes[x].token \in Nat
  BY Numbers DEF Ind
<1>9. server'.issued \in Nat /\ a.sets \in Nat
  BY IssuedAssumption DEF Server, Answer
<1>10. Bounded
  BY DEF Ind
<1>11. server'.consumed \subseteq 1..server.issued
  BY <1>0, <1>10 DEF Bounded
<1>12. refreshes[s].stage # "none" /\ \A x \in Call \ {s} : refreshes[x].stage = "none"
  BY DEF Ind, OneFlight
<1>3. Bounded'
  <2>1. server'.consumed \subseteq 1..server'.issued
    BY <1>0, <1>9, <1>11
  <2>2. \A x \in Call : /\ refreshes'[x].token <= server'.issued
                        /\ refreshes'[x].answer.sets <= server'.issued
    BY <1>0, <1>1, <1>9, <1>10 DEF Bounded
  <2> QED
    BY <1>0, <1>9, <1>10, <2>1, <2>2 DEF Bounded
<1>4. OneFlight'
  BY <1>1, <1>12 DEF Ind, OneFlight
<1>5. PageCalls'
  BY DEF Ind, PageCalls, UnderWay
<1>6. ExcludedAnswers'
  BY DEF Ind, ExcludedAnswers
<1>7. ASSUME disturbed # "forked", ~server'.reused, ~RefreshHands(s)
      PROVE  Linear'
  <2>0. Linear
    BY <1>7 DEF Ind, Unforked
  <2>1. UnusedSent'
    BY <1>1, <1>12 DEF UnusedSent
  <2>2. /\ \A d \in Call : CallHands(d)' <=> CallHands(d)
        /\ \A x \in Call \ {s} : ~RefreshHands(x)' /\ ~RefreshHands(x)
        /\ RefreshHands(s)' <=> a.sets # 0
    BY <1>1, <1>12 DEF CallHands, RefreshHands
  <2>3. NewOnTheWay'
    <3>1. a.sets # 0 => NewTo(a.sets)'
      BY <1>0, <1>1, <1>9, <1>10, <1>11, <1>12 DEF NewTo, Bounded
    <3>2. \A d \in Call : CallHands(d) => NewTo(calls[d].answer.sets)'
      BY <1>1, <1>12, <2>0 DEF Linear, NewOnTheWay, NewTo
    <3> QED
      BY <1>1, <2>2, <3>1, <3>2 DEF NewOnTheWay
  <2>4. AllDifferent'
    BY <1>0, <1>1, <1>9, <1>10, <2>0, <2>2 DEF Linear, AllDifferent, Bounded
  <2>5. HeldUnused'
    BY <1>1, <1>7, <2>0, <2>2 DEF Linear, HeldUnused
  <2> QED
    BY <1>7, <2>1, <2>3, <2>4, <2>5 DEF Linear
<1>8. ASSUME disturbed = "no", server'.alive => server.alive,
             a.is = "session" => ~server'.alive, a.is = "ok" => a.sets # 0
      PROVE  \A d \in Call : CallTrue(d)' /\ RefreshTrue(d)'
  <2>1. \A d \in Call : CallTrue(d)'
    BY <1>8 DEF Ind, Undisturbed, CallTrue
  <2>2. RefreshTrue(s)'
    BY <1>0, <1>1, <1>8, <1>9, <1>10 DEF RefreshTrue, Bounded
  <2>3. \A x \in Call \ {s} : RefreshTrue(x)'
    BY <1>1, <1>12 DEF RefreshTrue
  <2> QED
    BY <2>1, <2>2, <2>3
<1> QED
  BY <1>2, <1>3, <1>4, <1>5, <1>6, <1>7, <1>8 DEF Unforked, Undisturbed

-----------------------------------------------------------------------------
(* The steps of the server.                                                *)

LEMMA ServesProtectedStep ==
  ASSUME Ind, NEW c \in Call, ServesProtected(c)
  PROVE  Ind'
<1> DEFINE row == calls[c]
<1>1. /\ row.stage = "sent" /\ row.kind \in {"me", "page", "profile"}
      /\ UNCHANGED <<server, jar, refreshes, promise, page, disturbed>>
  BY DEF ServesProtected
<1>2. PICK a \in Answer : /\ Answers(c, a)
                          /\ a.sets = 0
                          /\ a.is = "session" => ~AccessAccepted(row)
  BY AnswerShapes DEF ServesProtected, AccessError
<1>3. row.kind \notin Excluded /\ ~CallHands(c)
  BY <1>1 DEF Excluded, CallHands
<1>4. disturbed = "no" /\ row.sends = 2 /\ a.is = "session" => ~server.alive
  BY <1>1, <1>2 DEF Ind, Undisturbed, CallTrue, AccessAccepted
<1>5. disturbed # "forked" => ~server.reused
  BY DEF Ind, Unforked, Linear
<1>6. /\ server.issued \in Nat /\ server.since <= server.issued + 1
      /\ server \in Server /\ disturbed \in Disturbances
  BY Numbers DEF Ind, Bounded, TypeOK, Disturbances
<1> QED
  BY <1>1, <1>2, <1>3, <1>4, <1>5, <1>6, AnswerStep DEF Ind

LEMMA ServesPasswordStep ==
  ASSUME Ind, NEW c \in Call, ServesPassword(c)
  PROVE  Ind'
<1> DEFINE row == calls[c]
<1>1. /\ row.stage = "sent" /\ row.kind = "password"
      /\ UNCHANGED <<jar, refreshes, promise, page>>
  BY DEF ServesPassword
<1>3. row.kind \notin Excluded /\ ~CallHands(c)
  BY <1>1 DEF Excluded, CallHands
<1>5. disturbed # "forked" => ~server.reused
  BY DEF Ind, Unforked, Linear
<1>6. /\ server.issued \in Nat /\ server.since \in Nat /\ server.since <= server.issued + 1
      /\ server \in Server /\ disturbed \in Disturbances
  BY Numbers DEF Ind, Bounded, TypeOK, Disturbances
<1>7. CASE /\ \/ ~AccessAccepted(row) /\ Answers(c, AccessError(row))
              \/ AccessAccepted(row) /\ Answers(c, Refused)
           /\ UNCHANGED <<server, disturbed>>
  <2>1. PICK a \in Answer : /\ Answers(c, a)
                            /\ a.sets = 0
                            /\ a.is = "session" => ~AccessAccepted(row)
    BY <1>7, AnswerShapes DEF AccessError
  <2>2. disturbed = "no" /\ row.sends = 2 /\ a.is = "session" => ~server.alive
    BY <1>1, <2>1 DEF Ind, Undisturbed, CallTrue, AccessAccepted
  <2> QED
    BY <1>1, <1>3, <1>5, <1>6, <1>7, <2>1, <2>2, AnswerStep DEF Ind
<1>8. CASE /\ server.issued < MaxIssued
           /\ Answers(c, HandsOut(server.issued + 1))
           /\ server' = [server EXCEPT !.issued = @ + 1, !.since = server.issued + 1]
           /\ disturbed' = Changed
  <2>1. /\ HandsOut(server.issued + 1) \in Answer
        /\ HandsOut(server.issued + 1).sets = server.issued + 1
        /\ HandsOut(server.issued + 1).is = "ok"
    BY <1>6, <1>8, IssuedAssumption, AnswerShapes
  <2>2. /\ server' \in Server
        /\ server'.consumed = server.consumed /\ server'.reused = server.reused
        /\ server'.issued = server.issued + 1 /\ server'.since = server.issued + 1
    <3>1. server.issued + 1 \in 0..MaxIssued /\ server.issued + 1 \in 1..(MaxIssued + 1)
      BY <1>6, <1>8, IssuedAssumption
    <3> QED
      BY <1>6, <1>8, <3>1 DEF Server
  <2>3. disturbed' \in Disturbances /\ disturbed' # "no"
        /\ (disturbed' # "forked" => disturbed # "forked")
    BY <1>8 DEF Changed, Disturbances
  <2> DEFINE a == HandsOut(server.issued + 1)
  <2>4. Answers(c, a)
    BY <1>8
  <2> HIDE DEF a
  <2>5. /\ server'.issued >= server.issued /\ server'.since <= server'.issued + 1
        /\ server'.issued > server.issued
    BY <1>6, <2>2
  <2>6. a \in Answer /\ a.sets = server'.issued
    BY <2>1, <2>2 DEF a
  <2> QED
    BY <1>1, <1>3, <1>5, <2>2, <2>3, <2>4, <2>5, <2>6, AnswerStep DEF Ind
<1> QED
  BY <1>7, <1>8 DEF ServesPassword

LEMMA ServesLogoutStep ==
  ASSUME Ind, NEW c \in Call, ServesLogout(c)
  PROVE  Ind'
<1> DEFINE row == calls[c]
<1>1. /\ row.stage = "sent" /\ row.kind = "logout"
      /\ UNCHANGED <<jar, refreshes, promise, page, disturbed>>
  BY DEF ServesLogout
<1>2. PICK a \in Answer : Answers(c, a) /\ a.sets = 0 /\ a.is # "session"
  BY AnswerShapes DEF ServesLogout
<1>3. ~CallHands(c)
  BY <1>1 DEF CallHands
<1>5. disturbed # "forked" => ~server.reused
  BY DEF Ind, Unforked, Linear
<1>6. /\ server.issued \in Nat /\ server.since <= server.issued + 1
      /\ server \in Server /\ disturbed \in Disturbances
  BY Numbers DEF Ind, Bounded, TypeOK, Disturbances
<1>7. /\ server' \in Server
      /\ server'.consumed = server.consumed /\ server'.reused = server.reused
      /\ server'.issued = server.issued /\ server'.since = server.since
      /\ server'.alive => server.alive
  BY <1>6 DEF ServesLogout, Server
<1> QED
  BY <1>1, <1>2, <1>3, <1>5, <1>6, <1>7, AnswerStep DEF Ind

LEMMA CallFailsStep ==
  ASSUME Ind, NEW c \in Call, CallFails(c)
  PROVE  Ind'
<1>1. /\ calls[c].stage = "sent" /\ Answers(c, Fault)
      /\ UNCHANGED <<server, jar, refreshes, promise, page, disturbed>>
  BY DEF CallFails
<1>2. Fault \in Answer /\ Fault.sets = 0 /\ Fault.is # "session"
  BY AnswerShapes
<1>3. ~CallHands(c)
  BY <1>1 DEF CallHands
<1>5. disturbed # "forked" => ~server.reused
  BY DEF Ind, Unforked, Linear
<1>6. /\ server.issued \in Nat /\ server.since <= server.issued + 1
      /\ server \in Server /\ disturbed \in Disturbances
  BY Numbers DEF Ind, Bounded, TypeOK, Disturbances
<1> QED
  BY <1>1, <1>2, <1>3, <1>5, <1>6, AnswerStep DEF Ind

LEMMA CallLostStep ==
  ASSUME Ind, NEW c \in Call, CallLost(c)
  PROVE  Ind'
<1>1. /\ calls[c].stage = "served" /\ Answers(c, Fault)
      /\ UNCHANGED <<server, jar, refreshes, promise, page>>
      /\ disturbed' = IF ~SetsCookies(calls[c].answer) THEN disturbed ELSE "forked"
  BY DEF CallLost
<1>2. Fault \in Answer /\ Fault.sets = 0 /\ Fault.is # "session"
  BY AnswerShapes
<1>3. disturbed' # "forked" => ~CallHands(c)
  BY <1>1 DEF CallHands, SetsCookies
<1>5. disturbed # "forked" => ~server.reused
  BY DEF Ind, Unforked, Linear
<1>6. /\ server.issued \in Nat /\ server.since <= server.issued + 1
      /\ server \in Server /\ disturbed \in Disturbances
  BY Numbers DEF Ind, Bounded, TypeOK, Disturbances
<1>7. /\ disturbed' \in Disturbances
      /\ disturbed' # "forked" => disturbed # "forked"
      /\ disturbed' = "no" => disturbed = "no"
  BY <1>1, <1>6 DEF Disturbances
<1>8. disturbed' = "forked" => Unforked'
  BY DEF Unforked
<1>9. disturbed' # "forked" => Unforked'
  BY <1>1, <1>2, <1>3, <1>5, <1>6, <1>7, AnswerStep
<1>10. TypeOK' /\ Bounded' /\ OneFlight' /\ PageCalls' /\ ExcludedAnswers' /\ Undisturbed'
  BY <1>1, <1>2, <1>6, <1>7, AnswerStep
<1> QED
  BY <1>8, <1>9, <1>10 DEF Ind

\* A login has the tab to itself, so that its session starts afresh.
LEMMA ServesLoginStep ==
  ASSUME Ind, NEW c \in Call, ServesLogin(c)
  PROVE  Ind'
<1>1. /\ calls[c].stage = "sent" /\ calls[c].kind = "login"
      /\ UNCHANGED <<jar, refreshes, promise, page>>
  BY DEF ServesLogin
<1>3. ~CallHands(c)
  BY <1>1 DEF CallHands
<1>5. disturbed # "forked" => ~server.reused
  BY DEF Ind, Unforked, Linear
<1>6. /\ server.issued \in Nat /\ server.since \in Nat /\ server.since <= server.issued + 1
      /\ server \in Server /\ disturbed \in Disturbances /\ jar.refresh \in Nat
  BY Numbers DEF Ind, Bounded, TypeOK, Disturbances
<1>7. CASE Answers(c, Refused) /\ UNCHANGED <<server, disturbed>>
  <2>1. Refused \in Answer /\ Refused.sets = 0 /\ Refused.is # "session"
    BY AnswerShapes
  <2> QED
    BY <1>1, <1>3, <1>5, <1>6, <1>7, <2>1, AnswerStep DEF Ind
<1>8. CASE /\ server.issued < MaxIssued
           /\ Answers(c, HandsOut(server.issued + 1))
           /\ server' = [server EXCEPT !.alive = TRUE, !.issued = @ + 1,
                                       !.since = server.issued + 1, !.reused = FALSE]
           /\ disturbed' = "no"
  <2>1. PICK a \in Answer : a.sets = server.issued + 1 /\ a.is = "ok" /\ Answers(c, a)
    BY <1>6, <1>8, IssuedAssumption, AnswerShapes
  <2>2. /\ server' \in Server
        /\ server'.consumed = server.consumed /\ server'.reused = FALSE
        /\ server'.issued = server.issued + 1 /\ server'.since = server.issued + 1
    <3>1. server.issued + 1 \in 0..MaxIssued /\ server.issued + 1 \in 1..(MaxIssued + 1)
      BY <1>6, <1>8, IssuedAssumption
    <3> QED
      BY <1>6, <1>8, <3>1 DEF Server
  <2>4. /\ server'.issued >= server.issued /\ server'.since <= server'.issued + 1
        /\ server'.issued > server.issued
    BY <1>6, <2>2
  <2>5. disturbed' \in Disturbances /\ a.sets = server'.issued
    BY <1>8, <2>1, <2>2 DEF Disturbances
  <2>6. TypeOK' /\ Bounded' /\ OneFlight' /\ PageCalls' /\ ExcludedAnswers'
    BY <1>1, <2>1, <2>2, <2>4, <2>5, AnswerStep
  <2>7. page = "login"
    BY <1>1 DEF Ind, TypeOK, PageCalls, UnderWay
  <2>8. \A d \in Call \ {c} : calls[d].stage = "idle"
    BY <1>1, <2>7 DEF Ind, PageCalls, UnderWay
  <2>9. \A s \in Call : refreshes[s].stage = "none"
    BY <1>1, <2>8 DEF Ind, OneFlight
  <2>10. /\ calls'[c].kind = "login" /\ calls'[c].stage = "served" /\ calls'[c].answer = a
         /\ \A d \in Call \ {c} : calls'[d] = calls[d]
    BY <1>1, <2>1, AnswersShape, Zenon DEF Ind, TypeOK
  <2>11. Linear'
    <3>1. CallHands(c)' /\ \A d \in Call \ {c} : ~CallHands(d)'
      BY <1>6, <2>1, <2>8, <2>10 DEF CallHands
    <3>2. \A s \in Call : ~RefreshHands(s)'
      BY <1>1, <2>9 DEF RefreshHands
    <3>3. UnusedSent'
      BY <1>1, <2>9 DEF UnusedSent
    <3>4. NewTo(a.sets)'
      <4>1. server.consumed \subseteq 1..server.issued /\ jar.refresh <= server.issued
        BY DEF Ind, Bounded
      <4>2. a.sets \notin server.consumed /\ a.sets # jar.refresh
        BY <1>6, <2>1, <4>1
      <4> QED
        BY <1>1, <2>2, <2>9, <4>2 DEF NewTo
    <3>5. NewOnTheWay'
      BY <2>10, <3>1, <3>2, <3>4, Zenon DEF NewOnTheWay
    <3>6. AllDifferent' /\ HeldUnused'
      BY <2>10, <3>1, <3>2 DEF AllDifferent, HeldUnused
    <3> QED
      BY <2>2, <3>3, <3>5, <3>6 DEF Linear
  <2>12. \A d \in Call : CallTrue(d)' /\ RefreshTrue(d)'
    <3>1. CallTrue(c)'
      BY <2>1, <2>10 DEF CallTrue
    <3>2. \A d \in Call \ {c} : CallTrue(d)'
      BY <2>8, <2>10 DEF CallTrue
    <3>3. \A d \in Call : RefreshTrue(d)'
      BY <1>1, <2>9 DEF RefreshTrue
    <3> QED
      BY <3>1, <3>2, <3>3
  <2> QED
    BY <2>6, <2>11, <2>12 DEF Ind, Unforked, Undisturbed
<1> QED
  BY <1>7, <1>8 DEF ServesLogin

\* A tab whose session is not forked never sends a token that was used.
LEMMA RefreshServesStep ==
  ASSUME Ind, NEW s \in Call, RefreshServes(s)
  PROVE  Ind'
<1> DEFINE token == refreshes[s].token
<1>1. /\ refreshes[s].stage = "sent"
      /\ UNCHANGED <<jar, calls, promise, page, disturbed>>
  BY DEF RefreshServes
<1>3. ~RefreshHands(s)
  BY <1>1 DEF RefreshHands
<1>5. disturbed # "forked" => ~server.reused /\ token \notin server.consumed
  BY <1>1 DEF Ind, Unforked, Linear, UnusedSent
<1>6. /\ server.issued \in Nat /\ token \in Nat /\ token <= server.issued
      /\ server \in Server /\ disturbed \in Disturbances
  BY Numbers DEF Ind, Bounded, TypeOK, Disturbances
<1>7. ASSUME UNCHANGED server,
             \/ RefreshAnswers(s, Refused)
             \/ RefreshAnswers(s, Clearing("refused"))
             \/ RefreshAnswers(s, Clearing("session")) /\ ~server.alive
      PROVE  Ind'
  <2>1. PICK a \in Answer : /\ RefreshAnswers(s, a)
                            /\ a.sets = 0 /\ a.is # "ok"
                            /\ a.is = "session" => ~server.alive
    BY <1>7, AnswerShapes
  <2> QED
    BY <1>1, <1>3, <1>5, <1>6, <1>7, <2>1, RefreshStep DEF Ind
<1>8. ASSUME token \in server.consumed, RefreshAnswers(s, Clearing("session")),
             server' = [server EXCEPT !.alive = FALSE, !.reused = TRUE]
      PROVE  Ind'
  <2>1. Clearing("session") \in Answer /\ Clearing("session").sets = 0
        /\ Clearing("session").is = "session"
    BY AnswerShapes
  <2>2. /\ server' \in Server /\ ~server'.alive
        /\ server'.consumed = server.consumed /\ server'.issued = server.issued
        /\ server'.since = server.since
    BY <1>6, <1>8 DEF Server
  <2>3. disturbed = "forked"
    BY <1>5, <1>8
  <2> QED
    BY <1>1, <1>3, <1>6, <1>8, <2>1, <2>2, <2>3, RefreshStep DEF Ind
<1>9. ASSUME token # 0, token = server.issued, server.issued < MaxIssued,
             RefreshAnswers(s, HandsOut(server.issued + 1)),
             server' = [server EXCEPT !.issued = @ + 1, !.consumed = @ \cup {token}]
      PROVE  Ind'
  <2> DEFINE a == HandsOut(server.issued + 1)
  <2>1. a \in Answer /\ a.sets = server.issued + 1 /\ a.is = "ok"
    BY <1>6, <1>9, IssuedAssumption, AnswerShapes
  <2>2. /\ server' \in Server
        /\ server'.consumed = server.consumed \cup {token}
        /\ server'.issued = server.issued + 1 /\ server'.since = server.since
        /\ server'.reused = server.reused /\ server'.alive = server.alive
    <3>1. server.issued + 1 \in 0..MaxIssued /\ {token} \subseteq Issued
      BY <1>6, <1>9, IssuedAssumption DEF Issued
    <3> QED
      BY <1>6, <1>9, <3>1 DEF Server
  <2>3. RefreshAnswers(s, a)
    BY <1>9
  <2> HIDE DEF a
  <2>4. /\ server'.issued >= server.issued /\ server'.issued > server.issued
        /\ a.sets = server'.issued /\ a.sets # 0
    BY <1>6, <2>1, <2>2
  <2> QED
    BY <1>1, <1>3, <1>5, <1>6, <1>9, <2>1, <2>2, <2>3, <2>4, RefreshStep DEF Ind
<1> QED
  BY <1>7, <1>8, <1>9 DEF RefreshServes

LEMMA RefreshFailsStep ==
  ASSUME Ind, NEW s \in Call, RefreshFails(s)
  PROVE  Ind'
<1>1. /\ refreshes[s].stage = "sent" /\ RefreshAnswers(s, Fault)
      /\ UNCHANGED <<server, jar, calls, promise, page, disturbed>>
  BY DEF RefreshFails
<1>2. Fault \in Answer /\ Fault.sets = 0 /\ Fault.is = "fault"
  BY AnswerShapes
<1>3. ~RefreshHands(s)
  BY <1>1 DEF RefreshHands
<1>5. disturbed # "forked" => ~server.reused
  BY DEF Ind, Unforked, Linear
<1>6. server.issued \in Nat /\ server \in Server /\ disturbed \in Disturbances
  BY Numbers DEF Ind, TypeOK, Disturbances
<1> QED
  BY <1>1, <1>2, <1>3, <1>5, <1>6, RefreshStep DEF Ind

LEMMA RefreshPutOffStep ==
  ASSUME Ind, NEW s \in Call, RefreshPutOff(s)
  PROVE  Ind'
<1>1. /\ refreshes[s].stage = "sent" /\ RefreshAnswers(s, Clearing("fault"))
      /\ UNCHANGED <<server, jar, calls, promise, page>> /\ disturbed' = Changed
  BY DEF RefreshPutOff
<1>2. /\ Clearing("fault") \in Answer /\ Clearing("fault").sets = 0
      /\ Clearing("fault").is = "fault"
  BY AnswerShapes
<1>3. ~RefreshHands(s)
  BY <1>1 DEF RefreshHands
<1>5. disturbed # "forked" => ~server.reused
  BY DEF Ind, Unforked, Linear
<1>6. server.issued \in Nat /\ server \in Server
  BY Numbers DEF Ind, TypeOK
<1>7. /\ disturbed' \in Disturbances /\ disturbed' # "no"
      /\ disturbed' # "forked" => disturbed # "forked"
  BY <1>1 DEF Changed, Disturbances
<1> QED
  BY <1>1, <1>2, <1>3, <1>5, <1>6, <1>7, RefreshStep DEF Ind

LEMMA RefreshLostStep ==
  ASSUME Ind, NEW s \in Call, RefreshLost(s)
  PROVE  Ind'
<1>1. /\ refreshes[s].stage = "served" /\ RefreshAnswers(s, Fault)
      /\ UNCHANGED <<server, jar, calls, promise, page>>
      /\ disturbed' = IF ~SetsCookies(refreshes[s].answer) THEN disturbed ELSE "forked"
  BY DEF RefreshLost
<1>2. Fault \in Answer /\ Fault.sets = 0 /\ Fault.is = "fault"
  BY AnswerShapes
<1>3. disturbed' # "forked" => ~RefreshHands(s)
  BY <1>1 DEF RefreshHands, SetsCookies
<1>5. disturbed # "forked" => ~server.reused
  BY DEF Ind, Unforked, Linear
<1>6. server.issued \in Nat /\ server \in Server /\ disturbed \in Disturbances
  BY Numbers DEF Ind, TypeOK, Disturbances
<1>7. /\ disturbed' \in Disturbances
      /\ disturbed' # "forked" => disturbed # "forked"
      /\ disturbed' = "no" => disturbed = "no"
  BY <1>1, <1>6 DEF Disturbances
<1>8. disturbed' = "forked" => Unforked'
  BY DEF Unforked
<1>9. disturbed' # "forked" => Unforked'
  BY <1>1, <1>2, <1>3, <1>5, <1>6, <1>7, RefreshStep
<1>10. TypeOK' /\ Bounded' /\ OneFlight' /\ PageCalls' /\ ExcludedAnswers' /\ Undisturbed'
  BY <1>1, <1>2, <1>6, <1>7, RefreshStep
<1> QED
  BY <1>8, <1>9, <1>10 DEF Ind

-----------------------------------------------------------------------------
(* Time and others.                                                        *)

LEMMA AccessRunsOutStep ==
  ASSUME Ind, AccessRunsOut
  PROVE  Ind'
<1>1. /\ jar' = [jar EXCEPT !.access = 0]
      /\ UNCHANGED <<server, calls, refreshes, promise, page, disturbed>>
  BY DEF AccessRunsOut
<1>2. jar' \in Jar /\ jar'.refresh = jar.refresh
  BY <1>1, IssuedAssumption DEF Ind, TypeOK, Jar
<1>3. TypeOK' /\ Bounded' /\ OneFlight' /\ PageCalls' /\ ExcludedAnswers'
  BY <1>1, <1>2 DEF Ind, TypeOK, Bounded, OneFlight, PageCalls, UnderWay, ExcludedAnswers
<1>4. Unforked'
  BY <1>1, <1>2 DEF Ind, Unforked, Linear, UnusedSent, NewOnTheWay, NewTo, AllDifferent,
                    HeldUnused, CallHands, RefreshHands
<1>5. Undisturbed'
  BY <1>1 DEF Ind, Undisturbed, CallTrue, RefreshTrue
<1> QED
  BY <1>3, <1>4, <1>5 DEF Ind

LEMMA SessionEndsStep ==
  ASSUME Ind, SessionEnds
  PROVE  Ind'
<1>1. /\ server' = [server EXCEPT !.alive = FALSE]
      /\ UNCHANGED <<jar, calls, refreshes, promise, page, disturbed>>
  BY DEF SessionEnds
<1>2. /\ server' \in Server /\ ~server'.alive
      /\ server'.issued = server.issued /\ server'.since = server.since
      /\ server'.consumed = server.consumed /\ server'.reused = server.reused
  BY <1>1 DEF Ind, TypeOK, Server
<1>3. TypeOK' /\ Bounded' /\ OneFlight' /\ PageCalls' /\ ExcludedAnswers'
  BY <1>1, <1>2 DEF Ind, TypeOK, Bounded, OneFlight, PageCalls, UnderWay, ExcludedAnswers
<1>4. Unforked'
  BY <1>1, <1>2 DEF Ind, Unforked, Linear, UnusedSent, NewOnTheWay, NewTo, AllDifferent,
                    HeldUnused, CallHands, RefreshHands
<1>5. Undisturbed'
  BY <1>1, <1>2 DEF Ind, Undisturbed, CallTrue, RefreshTrue
<1> QED
  BY <1>3, <1>4, <1>5 DEF Ind

LEMMA OtherTabRefreshesStep ==
  ASSUME Ind, OtherTabRefreshes
  PROVE  Ind'
<1> DEFINE n == server.issued + 1
<1>1. /\ server.issued < MaxIssued /\ jar.refresh # 0 /\ jar.refresh = server.issued
      /\ server' = [server EXCEPT !.issued = @ + 1, !.consumed = @ \cup {server.issued}]
      /\ jar' = [access |-> n, refresh |-> n]
      /\ disturbed' = "forked"
      /\ UNCHANGED <<calls, refreshes, promise, page>>
  BY DEF OtherTabRefreshes
<1>2. /\ server.issued \in Nat /\ server.since \in Nat
      /\ \A c \in Call : calls[c].answer.sets \in Nat
      /\ \A s \in Call : refreshes[s].answer.sets \in Nat /\ refreshes[s].token \in Nat
  BY Numbers DEF Ind
<1>3. n \in Nat /\ n \in 0..MaxIssued /\ server.issued \in 1..MaxIssued
  BY <1>1, <1>2, IssuedAssumption
<1>4. jar' \in Jar /\ jar'.refresh = n
  BY <1>1, <1>3 DEF Jar
<1>5. /\ server' \in Server /\ server'.issued = n /\ server'.since = server.since
      /\ server'.consumed = server.consumed \cup {server.issued}
  BY <1>1, <1>3 DEF Ind, TypeOK, Server, Issued
<1>6. TypeOK'
  BY <1>1, <1>4, <1>5 DEF Ind, TypeOK
<1>7. Bounded'
  <2>1. server'.consumed \subseteq 1..n
    BY <1>2, <1>3, <1>5 DEF Ind, Bounded
  <2> QED
    BY <1>1, <1>2, <1>3, <1>4, <1>5, <2>1 DEF Ind, Bounded
<1>8. OneFlight' /\ PageCalls' /\ ExcludedAnswers'
  BY <1>1 DEF Ind, OneFlight, PageCalls, UnderWay, ExcludedAnswers
<1> QED
  BY <1>1, <1>6, <1>7, <1>8 DEF Ind, Unforked, Undisturbed

-----------------------------------------------------------------------------
(* The steps of the tab.                                                   *)

\* A call that is sent for the first time.
LEMMA SendStep ==
  ASSUME Ind, NEW c \in Call, NEW kind \in Kind,
         calls[c].stage = "idle",
         calls' = [calls EXCEPT ![c] = Sent(kind, 1, jar)],
         UNCHANGED <<server, jar, refreshes, promise, page, disturbed>>,
         PageCalls'
  PROVE  Ind'
<1>1. /\ calls' \in [Call -> Row]
      /\ calls'[c].stage = "sent" /\ calls'[c].sends = 1 /\ calls'[c].answer.sets = 0
      /\ \A d \in Call \ {c} : calls'[d] = calls[d]
  <2> DEFINE row == Sent(kind, 1, jar)
  <2>1. row \in Row /\ row.stage = "sent" /\ row.sends = 1 /\ row.answer.sets = 0
    BY SentShape DEF Ind, TypeOK
  <2> HIDE DEF row
  <2>2. calls' = [calls EXCEPT ![c] = row] /\ calls \in [Call -> Row]
    BY DEF row, Ind, TypeOK
  <2> QED
    BY <2>1, <2>2, Zenon
<1>2. TypeOK'
  BY <1>1 DEF Ind, TypeOK
<1>3. Bounded'
  BY <1>1, Numbers DEF Ind, Bounded
<1>4. OneFlight'
  BY <1>1 DEF Ind, OneFlight
<1>5. ExcludedAnswers'
  BY <1>1 DEF Ind, ExcludedAnswers
<1>6. Unforked'
  BY <1>1 DEF Ind, Unforked, Linear, UnusedSent, NewOnTheWay, NewTo, AllDifferent, HeldUnused,
              CallHands, RefreshHands
<1>7. Undisturbed'
  BY <1>1 DEF Ind, Undisturbed, CallTrue, RefreshTrue
<1> QED
  BY <1>2, <1>3, <1>4, <1>5, <1>6, <1>7 DEF Ind

LEMMA StartsStep ==
  ASSUME Ind, NEW c \in Call, NEW kind \in {"page", "profile", "password", "logout"},
         Starts(c, kind)
  PROVE  Ind'
<1>1. /\ page = "workspace" /\ calls[c].stage = "idle"
      /\ calls' = [calls EXCEPT ![c] = Sent(kind, 1, jar)]
      /\ UNCHANGED <<server, jar, refreshes, promise, page, disturbed>>
  BY DEF Starts, UnderWay, Ind, TypeOK, Row
<1>2. kind \in Kind
  BY DEF Kind
<1>3. calls'[c].kind = kind /\ \A d \in Call \ {c} : calls'[d] = calls[d]
  BY <1>1, <1>2, SentShape DEF Ind, TypeOK
<1>4. PageCalls'
  BY <1>1, <1>3 DEF Ind, PageCalls, UnderWay
<1> QED
  BY <1>1, <1>2, <1>4, SendStep

LEMMA LogsInStep ==
  ASSUME Ind, LogsIn
  PROVE  Ind'
<1>1. /\ page = "login" /\ \A c \in Call : calls[c].stage = "idle"
      /\ calls' = [calls EXCEPT ![First] = Sent("login", 1, jar)]
      /\ UNCHANGED <<server, jar, refreshes, promise, page, disturbed>>
  BY DEF LogsIn, UnderWay
<1>2. "login" \in Kind
  BY DEF Kind
<1>3. calls'[First].kind = "login" /\ \A d \in Call \ {First} : calls'[d] = calls[d]
  BY <1>1, <1>2, SentShape, FirstCall DEF Ind, TypeOK
<1>4. PageCalls'
  BY <1>1, <1>3 DEF Ind, PageCalls, UnderWay
<1> QED
  BY <1>1, <1>2, <1>4, SendStep, FirstCall

\* The tab starts anew, with nothing answered yet.
LEMMA FreshTab ==
  ASSUME Ind, jar' \in Jar, jar'.refresh <= server.issued, UNCHANGED server,
         disturbed' \in Disturbances, page' \in Pages, PageCalls',
         refreshes' = NoRefreshes, promise' = None,
         calls' \in [Call -> Row],
         \A c \in Call :
            /\ calls'[c].stage \in {"idle", "sent"} /\ calls'[c].answer.sets = 0
            /\ calls'[c].stage = "idle" => calls'[c].sends = 0
            /\ calls'[c].stage = "sent" => calls'[c].sends = 1,
         disturbed' # "forked" => disturbed # "forked" /\ jar'.refresh \notin server.consumed
  PROVE  Ind'
<1>1. \A s \in Call : refreshes'[s] = NoRefresh
  BY DEF NoRefreshes
<1>2. TypeOK'
  BY IdleShape DEF Ind, TypeOK, Disturbances, Pages, NoRefreshes
<1>3. Bounded'
  <2>1. server.issued \in Nat
    BY Numbers DEF Ind
  <2>2. \A s \in Call : refreshes'[s].token <= server.issued
                        /\ refreshes'[s].answer.sets <= server.issued
    BY <1>1, <2>1, IdleShape
  <2> QED
    BY <2>1, <2>2 DEF Ind, Bounded
<1>4. OneFlight' /\ ExcludedAnswers'
  BY <1>1, IdleShape DEF OneFlight, ExcludedAnswers
<1>5. Unforked'
  BY <1>1, IdleShape DEF Ind, Unforked, Linear, UnusedSent, NewOnTheWay, AllDifferent,
                         HeldUnused, CallHands, RefreshHands
<1>6. Undisturbed'
  BY <1>1, IdleShape DEF Undisturbed, CallTrue, RefreshTrue
<1> QED
  BY <1>2, <1>3, <1>4, <1>5, <1>6 DEF Ind

LEMMA LoadsStep ==
  ASSUME Ind, NEW cookies \in Jar, Loads(cookies), jar' = cookies, UNCHANGED server,
         cookies.refresh <= server.issued, disturbed' \in Disturbances,
         disturbed' # "forked" => disturbed # "forked" /\ cookies.refresh \notin server.consumed
  PROVE  Ind'
<1>1. /\ page' = "starting" /\ refreshes' = NoRefreshes /\ promise' = None
      /\ calls' = [NoCalls EXCEPT ![First] = Sent("me", 1, cookies)]
  BY DEF Loads
<1>2. /\ calls' \in [Call -> Row]
      /\ calls'[First].kind = "me" /\ calls'[First].stage = "sent" /\ calls'[First].sends = 1
      /\ calls'[First].answer.sets = 0
      /\ \A d \in Call \ {First} : calls'[d] = Idle
  <2> DEFINE row == Sent("me", 1, cookies)
  <2>1. /\ row \in Row /\ row.kind = "me" /\ row.stage = "sent" /\ row.sends = 1
        /\ row.answer.sets = 0
    <3>1. "me" \in Kind /\ 1 \in Nat
      BY DEF Kind
    <3> QED
      BY <3>1, SentShape
  <2> HIDE DEF row
  <2>2. NoCalls \in [Call -> Row] /\ \A d \in Call : NoCalls[d] = Idle
    BY IdleShape DEF NoCalls
  <2>3. calls' = [NoCalls EXCEPT ![First] = row]
    BY <1>1 DEF row
  <2> QED
    BY <2>1, <2>2, <2>3, FirstCall, Zenon
<1>3. PageCalls'
  BY <1>1, <1>2, IdleShape DEF PageCalls, UnderWay
<1>4. page' \in Pages
  BY <1>1 DEF Pages
<1> QED
  BY <1>1, <1>2, <1>3, <1>4, IdleShape, FreshTab

LEMMA VisitsStep ==
  ASSUME Ind, Visits
  PROVE  Ind'
<1>1. /\ Loads(jar) /\ UNCHANGED <<server, jar>>
      /\ disturbed' = IF ForgottenBut(None) THEN "forked" ELSE disturbed
  BY DEF Visits
<1>2. disturbed' \in Disturbances
  BY <1>1 DEF Ind, TypeOK, Disturbances
<1>3. ASSUME disturbed' # "forked"
      PROVE  disturbed # "forked" /\ jar.refresh \notin server.consumed
  <2>1. disturbed # "forked" /\ ~ForgottenBut(None)
    BY <1>1, <1>3
  <2>2. /\ \A c \in Call : ~CallHands(c)
        /\ \A s \in Call : ~RefreshHands(s)
    BY <2>1, CallAssumption DEF ForgottenBut, SetsCookies, CallHands, RefreshHands
  <2> QED
    BY <2>1, <2>2 DEF Ind, Unforked, Linear, HeldUnused
<1> QED
  BY <1>1, <1>2, <1>3, LoadsStep DEF Ind, TypeOK, Bounded

\* The cookies once an answer has arrived: they were handed out, and, unless
\* the session is forked, differ from what is still on its way and are used
\* only while the answer that replaces them is on its way.
LEMMA CallCookies ==
  ASSUME Ind, NEW c \in Call, calls[c].stage = "served",
         NEW cookies, cookies = Applied(calls[c].answer)
  PROVE  /\ cookies \in Jar
         /\ cookies.refresh <= server.issued
         /\ disturbed # "forked" =>
              /\ \A d \in Call \ {c} : CallHands(d) => calls[d].answer.sets # cookies.refresh
              /\ \A s \in Call : RefreshHands(s) => refreshes[s].answer.sets # cookies.refresh
              /\ cookies.refresh \in server.consumed =>
                   \/ \E s \in Call : RefreshHands(s)
                   \/ \E d \in Call \ {c} : CallHands(d) /\ calls[d].kind = "login"
<1> DEFINE a == calls[c].answer
<1>1. a \in Answer /\ jar \in Jar
  BY DEF Ind, TypeOK, Row
<1>2. /\ cookies \in Jar
      /\ a.sets # 0 => cookies.refresh = a.sets
      /\ a.sets = 0 => cookies.refresh = jar.refresh \/ cookies.refresh = 0
  BY <1>1, AppliedShape
<1>3. server.issued \in Nat /\ a.sets <= server.issued /\ jar.refresh <= server.issued
  BY Numbers DEF Ind, Bounded
<1>4. cookies.refresh <= server.issued
  BY <1>2, <1>3
<1>5. 0 \notin server.consumed
  BY <1>3 DEF Ind, Bounded
<1>6. CallHands(c) <=> a.sets # 0
  BY DEF CallHands
<1>7. ASSUME disturbed # "forked"
      PROVE  /\ \A d \in Call \ {c} : CallHands(d) => calls[d].answer.sets # cookies.refresh
             /\ \A s \in Call : RefreshHands(s) => refreshes[s].answer.sets # cookies.refresh
             /\ cookies.refresh \in server.consumed =>
                  \/ \E s \in Call : RefreshHands(s)
                  \/ \E d \in Call \ {c} : CallHands(d) /\ calls[d].kind = "login"
  <2>0. NewOnTheWay /\ AllDifferent /\ HeldUnused
    BY <1>7 DEF Ind, Unforked, Linear
  <2>1. \A d \in Call \ {c} : CallHands(d) => calls[d].answer.sets # cookies.refresh
    BY <1>2, <1>6, <2>0 DEF NewOnTheWay, NewTo, AllDifferent, CallHands
  <2>2. \A s \in Call : RefreshHands(s) => refreshes[s].answer.sets # cookies.refresh
    BY <1>2, <1>6, <2>0 DEF NewOnTheWay, NewTo, AllDifferent, RefreshHands
  <2>3. ASSUME cookies.refresh \in server.consumed
        PROVE  \/ \E s \in Call : RefreshHands(s)
               \/ \E d \in Call \ {c} : CallHands(d) /\ calls[d].kind = "login"
    <3>1. a.sets = 0 /\ cookies.refresh = jar.refresh
      BY <1>2, <1>5, <1>6, <2>0, <2>3 DEF NewOnTheWay, NewTo
    <3> QED
      BY <1>6, <2>0, <2>3, <3>1 DEF HeldUnused
  <2> QED
    BY <2>1, <2>2, <2>3
<1> QED
  BY <1>2, <1>4, <1>7

\* An answer of a call that loads the page anew or ends the tab's session: no
\* other answer that sets cookies is forgotten, or the session is forked.
LEMMA ForgottenCookies ==
  ASSUME Ind, NEW c \in Call, calls[c].stage = "served",
         NEW cookies, cookies = Applied(calls[c].answer),
         disturbed # "forked", ~ForgottenBut(c)
  PROVE  cookies.refresh \notin server.consumed
<1>1. /\ \A d \in Call \ {c} : ~CallHands(d)
      /\ \A s \in Call : ~RefreshHands(s)
  BY DEF ForgottenBut, SetsCookies, CallHands, RefreshHands
<1> QED
  BY <1>1, CallCookies

\* Its answer read, the call is done.
LEMMA EndsStep ==
  ASSUME Ind, NEW c \in Call, calls[c].stage = "served",
         jar' = Applied(calls[c].answer), calls' = [calls EXCEPT ![c] = Idle],
         page' = PageAfter(c, calls[c].answer.is),
         UNCHANGED <<server, refreshes, promise, disturbed>>
  PROVE  Ind'
<1>1. calls' \in [Call -> Row] /\ calls'[c] = Idle /\ \A d \in Call \ {c} : calls'[d] = calls[d]
  BY IdleShape, Zenon DEF Ind, TypeOK
<1>2. /\ jar' \in Jar /\ jar'.refresh <= server.issued
      /\ disturbed # "forked" =>
           /\ \A d \in Call \ {c} : CallHands(d) => calls[d].answer.sets # jar'.refresh
           /\ \A s \in Call : RefreshHands(s) => refreshes[s].answer.sets # jar'.refresh
           /\ jar'.refresh \in server.consumed =>
                \/ \E s \in Call : RefreshHands(s)
                \/ \E d \in Call \ {c} : CallHands(d) /\ calls[d].kind = "login"
  BY CallCookies
<1>3. TypeOK'
  BY <1>1, <1>2 DEF Ind, TypeOK, PageAfter
<1>4. Bounded'
  BY <1>1, <1>2, Numbers, IdleShape DEF Ind, Bounded
<1>5. OneFlight' /\ ExcludedAnswers'
  BY <1>1, IdleShape DEF Ind, OneFlight, ExcludedAnswers
<1>6. PageCalls'
  <2>1. CASE calls[c].kind # "me"
    BY <1>1, <2>1, IdleShape DEF Ind, PageCalls, UnderWay, PageAfter
  <2>2. CASE calls[c].kind = "me"
    <3>1. page = "starting"
      BY <2>2 DEF Ind, TypeOK, PageCalls, UnderWay
    <3>2. \A d \in Call : calls'[d].stage = "idle"
      BY <1>1, <3>1, IdleShape DEF Ind, PageCalls, UnderWay
    <3> QED
      BY <3>2 DEF PageCalls, UnderWay
  <2> QED
    BY <2>1, <2>2
<1>7. ASSUME disturbed # "forked"
      PROVE  Linear'
  <2>0. Linear
    BY <1>7 DEF Ind, Unforked
  <2>1. /\ \A d \in Call \ {c} : CallHands(d)' <=> CallHands(d)
        /\ \A s \in Call : RefreshHands(s)' <=> RefreshHands(s)
        /\ ~CallHands(c)'
    BY <1>1, IdleShape DEF CallHands, RefreshHands
  <2>2. UnusedSent' /\ AllDifferent'
    BY <1>1, <2>0, <2>1 DEF Linear, UnusedSent, AllDifferent
  <2>3. NewOnTheWay'
    BY <1>1, <1>2, <1>7, <2>0, <2>1 DEF Linear, NewOnTheWay, NewTo
  <2>4. HeldUnused'
    BY <1>1, <1>2, <1>7, <2>1 DEF HeldUnused
  <2> QED
    BY <2>0, <2>2, <2>3, <2>4 DEF Linear
<1>8. Undisturbed'
  BY <1>1, IdleShape DEF Ind, Undisturbed, CallTrue, RefreshTrue
<1> QED
  BY <1>3, <1>4, <1>5, <1>6, <1>7, <1>8 DEF Ind, Unforked

\* The call waits for the refresh under way, or for the one it starts.
LEMMA JoinsStep ==
  ASSUME Ind, NEW c \in Call, calls[c].stage = "served", Retries(c),
         jar' = Applied(calls[c].answer), JoinsRefresh(c, jar'),
         UNCHANGED <<server, page, disturbed>>
  PROVE  Ind'
<1>0. calls[c].sends = 1 /\ calls[c].kind # "login" /\ calls[c] \in Row
  BY DEF Retries, Excluded, Ind, TypeOK
<1>1. /\ calls' \in [Call -> Row]
      /\ calls'[c].kind = calls[c].kind /\ calls'[c].stage = "waiting" /\ calls'[c].sends = 1
      /\ calls'[c].answer.sets = 0
      /\ calls'[c].waits = IF promise = None THEN c ELSE promise
      /\ \A d \in Call \ {c} : calls'[d] = calls[d]
  <2> DEFINE w == IF promise = None THEN c ELSE promise
             row == [Idle EXCEPT !.kind = calls[c].kind, !.stage = "waiting",
                                 !.sends = calls[c].sends, !.waits = w]
  <2>1. w \in Call \cup {None}
    BY DEF Ind, TypeOK
  <2>2. calls' = [calls EXCEPT ![c] = row] /\ calls \in [Call -> Row]
    BY DEF JoinsRefresh, Ind, TypeOK
  <2>3. w = IF promise = None THEN c ELSE promise
    OBVIOUS
  <2> HIDE DEF w
  <2>4. row \in Row
    BY <1>0, <2>1, IdleShape, Zenon DEF Row
  <2>5. /\ row.kind = calls[c].kind /\ row.stage = "waiting" /\ row.sends = calls[c].sends
        /\ row.waits = w /\ row.answer = Idle.answer
    BY IdleShape, Zenon DEF Row
  <2> HIDE DEF row
  <2>6. /\ calls' \in [Call -> Row] /\ calls'[c] = row
        /\ \A d \in Call \ {c} : calls'[d] = calls[d]
    BY <2>2, <2>4, Zenon
  <2> QED
    BY <1>0, <2>3, <2>5, <2>6, IdleShape
<1>2. /\ jar' \in Jar /\ jar'.refresh <= server.issued
      /\ disturbed # "forked" =>
           /\ \A d \in Call \ {c} : CallHands(d) => calls[d].answer.sets # jar'.refresh
           /\ \A s \in Call : RefreshHands(s) => refreshes[s].answer.sets # jar'.refresh
           /\ jar'.refresh \in server.consumed =>
                \/ \E s \in Call : RefreshHands(s)
                \/ \E d \in Call \ {c} : CallHands(d) /\ calls[d].kind = "login"
  BY CallCookies
<1>3. PageCalls' /\ ExcludedAnswers'
  BY <1>1 DEF Ind, PageCalls, UnderWay, ExcludedAnswers
<1>4. \A d \in Call : CallHands(d)' <=> (CallHands(d) /\ d # c)
  BY <1>1 DEF CallHands
<1>5. \A d \in Call : CallTrue(d)' <=> (CallTrue(d) \/ d = c)
  BY <1>1 DEF CallTrue
<1>6. CASE promise # None
  <2>1. UNCHANGED <<refreshes, promise>>
    BY <1>6 DEF JoinsRefresh
  <2>2. TypeOK'
    BY <1>1, <1>2, <2>1 DEF Ind, TypeOK
  <2>3. Bounded'
    BY <1>1, <1>2, <2>1, Numbers DEF Ind, Bounded
  <2>4. OneFlight'
    BY <1>1, <2>1 DEF Ind, OneFlight
  <2>5. ASSUME disturbed # "forked"
        PROVE  Linear'
    <3>0. Linear
      BY <2>5 DEF Ind, Unforked
    <3>1. \A s \in Call : RefreshHands(s)' <=> RefreshHands(s)
      BY <2>1 DEF RefreshHands
    <3>2. UnusedSent' /\ AllDifferent'
      BY <1>1, <1>4, <2>1, <3>0, <3>1 DEF Linear, UnusedSent, AllDifferent
    <3>3. NewOnTheWay'
      BY <1>1, <1>2, <1>4, <2>1, <2>5, <3>0, <3>1 DEF Linear, NewOnTheWay, NewTo
    <3>4. HeldUnused'
      BY <1>1, <1>2, <1>4, <2>5, <3>1 DEF HeldUnused
    <3> QED
      BY <3>0, <3>2, <3>3, <3>4 DEF Linear
  <2>6. Undisturbed'
    BY <1>5, <2>1 DEF Ind, Undisturbed, RefreshTrue
  <2> QED
    BY <1>3, <2>2, <2>3, <2>4, <2>5, <2>6 DEF Ind, Unforked
<1>7. CASE promise = None
  <2>0. \A s \in Call : refreshes[s].stage = "none"
    BY <1>7, CallAssumption DEF Ind, OneFlight
  <2>1. /\ promise' = c /\ refreshes' \in [Call -> Refresh]
        /\ refreshes'[c].stage = "sent" /\ refreshes'[c].token = jar'.refresh
        /\ refreshes'[c].answer.sets = 0
        /\ \A s \in Call \ {c} : refreshes'[s] = refreshes[s]
    <3> DEFINE row == [NoRefresh EXCEPT !.stage = "sent", !.token = jar'.refresh]
    <3>1. /\ refreshes' = [refreshes EXCEPT ![c] = row] /\ promise' = c
          /\ refreshes \in [Call -> Refresh]
      BY <1>7 DEF JoinsRefresh, Ind, TypeOK
    <3>2. jar'.refresh \in 0..MaxIssued
      BY <1>2 DEF Jar
    <3>3. /\ row \in Refresh /\ row.stage = "sent" /\ row.token = jar'.refresh
          /\ row.answer = NoRefresh.answer
      BY <3>2, IdleShape, Zenon DEF Refresh
    <3> HIDE DEF row
    <3>4. /\ refreshes' \in [Call -> Refresh] /\ refreshes'[c] = row
          /\ \A s \in Call \ {c} : refreshes'[s] = refreshes[s]
      BY <3>1, <3>3, Zenon
    <3> QED
      BY <3>1, <3>3, <3>4, IdleShape
  <2>2. TypeOK'
    BY <1>1, <1>2, <2>1 DEF Ind, TypeOK
  <2>3. Bounded'
    BY <1>1, <1>2, <2>1, Numbers DEF Ind, Bounded
  <2>4. OneFlight'
    BY <1>1, <1>7, <2>0, <2>1 DEF Ind, OneFlight
  <2>5. ASSUME disturbed # "forked"
        PROVE  Linear'
    <3>0. Linear
      BY <2>5 DEF Ind, Unforked
    <3>1. \A s \in Call : ~RefreshHands(s)' /\ ~RefreshHands(s)
      BY <2>0, <2>1 DEF RefreshHands
    <3>2. \A d \in Call \ {c} : UnderWay(d) => calls[d].kind # "login"
      BY <1>0 DEF Ind, TypeOK, PageCalls, UnderWay
    <3>3. jar'.refresh \notin server.consumed
      BY <1>2, <2>5, <3>1, <3>2 DEF CallHands, UnderWay
    <3>4. UnusedSent'
      BY <2>0, <2>1, <3>3 DEF UnusedSent
    <3>5. AllDifferent'
      BY <1>1, <1>4, <3>0, <3>1 DEF Linear, AllDifferent
    <3>6. NewOnTheWay'
      BY <1>1, <1>2, <1>4, <2>0, <2>1, <2>5, <3>0, <3>1 DEF Linear, NewOnTheWay, NewTo
    <3>7. HeldUnused'
      BY <3>3 DEF HeldUnused
    <3> QED
      BY <3>0, <3>4, <3>5, <3>6, <3>7 DEF Linear
  <2>6. \A s \in Call : RefreshTrue(s)'
    BY <2>0, <2>1 DEF RefreshTrue
  <2>7. Undisturbed'
    BY <1>5, <2>6 DEF Ind, Undisturbed
  <2> QED
    BY <1>3, <2>2, <2>3, <2>4, <2>5, <2>7 DEF Ind, Unforked
<1> QED
  BY <1>6, <1>7

LEMMA ArrivesStep ==
  ASSUME Ind, NEW c \in Call, Arrives(c)
  PROVE  Ind'
<1> DEFINE answer == calls[c].answer
           cookies == Applied(answer)
<1>1. calls[c].stage = "served" /\ jar' = cookies /\ UNCHANGED server
  BY DEF Arrives
<1>2. cookies \in Jar /\ cookies.refresh <= server.issued
  BY <1>1, CallCookies
<1>3. ASSUME disturbed # "forked", ~ForgottenBut(c)
      PROVE  cookies.refresh \notin server.consumed
  BY <1>1, <1>3, ForgottenCookies
<1>4. disturbed \in Disturbances
  BY DEF Ind, TypeOK, Disturbances
<1>5. CASE Retries(c) /\ JoinsRefresh(c, cookies) /\ UNCHANGED <<page, disturbed>>
  BY <1>1, <1>5, JoinsStep
<1>6. CASE calls[c].kind = "login" /\ Loads(cookies) /\ UNCHANGED disturbed
  <2>1. page = "login"
    BY <1>1, <1>6 DEF Ind, TypeOK, PageCalls, UnderWay
  <2>2. \A d \in Call \ {c} : calls[d].stage = "idle"
    BY <1>1, <2>1 DEF Ind, PageCalls, UnderWay
  <2>3. \A s \in Call : refreshes[s].stage = "none"
    BY <1>1, <2>2 DEF Ind, OneFlight
  <2>4. ~ForgottenBut(c)
    BY <2>2, <2>3 DEF ForgottenBut
  <2> QED
    BY <1>1, <1>2, <1>3, <1>4, <1>6, <2>4, LoadsStep
<1>7. CASE Loads(cookies) /\ disturbed' = IF ForgottenBut(c) THEN "forked" ELSE disturbed
  <2>1. disturbed' \in Disturbances
    BY <1>4, <1>7 DEF Disturbances
  <2> QED
    BY <1>1, <1>2, <1>3, <1>7, <2>1, LoadsStep
<1>8. CASE /\ page' = "login" /\ calls' = NoCalls /\ refreshes' = NoRefreshes /\ promise' = None
           /\ disturbed' = IF ForgottenBut(c) THEN "forked" ELSE disturbed
  <2>1. disturbed' \in Disturbances /\ page' \in Pages
    BY <1>4, <1>8 DEF Disturbances, Pages
  <2>2. calls' \in [Call -> Row] /\ \A d \in Call : calls'[d] = Idle
    BY <1>8, IdleShape DEF NoCalls
  <2>3. PageCalls'
    BY <2>2, IdleShape DEF PageCalls, UnderWay
  <2> QED
    BY <1>1, <1>2, <1>3, <1>8, <2>1, <2>2, <2>3, IdleShape, FreshTab
<1>9. CASE /\ calls' = [calls EXCEPT ![c] = Idle] /\ page' = PageAfter(c, answer.is)
           /\ UNCHANGED <<refreshes, promise, disturbed>>
  BY <1>1, <1>9, EndsStep
<1> QED
  BY <1>5, <1>6, <1>7, <1>8, <1>9 DEF Arrives

\* The calls that wait for the refresh, after its answer.
LEMMA SettledShape ==
  ASSUME Ind, NEW s \in Call, RefreshArrives(s)
  PROVE  /\ calls' \in [Call -> Row]
         /\ \A c \in Call :
              \/ ~WaitsFor(c, s) /\ calls'[c] = calls[c]
              \/ WaitsFor(c, s) /\ refreshes[s].answer.is # "ok" /\ calls'[c] = Idle
              \/ /\ WaitsFor(c, s) /\ refreshes[s].answer.is = "ok"
                 /\ calls'[c].kind = calls[c].kind /\ calls'[c].stage = "sent"
                 /\ calls'[c].sends = 2 /\ calls'[c].access = jar'.access
                 /\ calls'[c].answer.sets = 0
<1> DEFINE answer == refreshes[s].answer
           cookies == Applied(answer)
<1>1. cookies \in Jar /\ jar' = cookies
  BY AppliedShape DEF RefreshArrives, Ind, TypeOK, Refresh
<1>2. ASSUME NEW c \in Call
      PROVE  /\ calls'[c] \in Row
             /\ \/ ~WaitsFor(c, s) /\ calls'[c] = calls[c]
                \/ WaitsFor(c, s) /\ answer.is # "ok" /\ calls'[c] = Idle
                \/ /\ WaitsFor(c, s) /\ answer.is = "ok"
                   /\ calls'[c].kind = calls[c].kind /\ calls'[c].stage = "sent"
                   /\ calls'[c].sends = 2 /\ calls'[c].access = jar'.access
                   /\ calls'[c].answer.sets = 0
  <2>1. calls'[c] = IF ~WaitsFor(c, s) THEN calls[c]
                    ELSE IF answer.is = "ok" THEN Resent(c, cookies) ELSE Idle
    BY DEF RefreshArrives
  <2>2. calls[c] \in Row /\ calls[c].kind \in Kind
    BY DEF Ind, TypeOK, Row
  <2>3. CASE WaitsFor(c, s) /\ answer.is = "ok"
    <3>1. calls[c].sends + 1 = 2 /\ 2 \in Nat
      BY <2>3 DEF WaitsFor, Ind, OneFlight
    <3>2. Resent(c, cookies) = Sent(calls[c].kind, 2, cookies)
      BY <3>1 DEF Resent
    <3> HIDE DEF cookies
    <3>3. calls'[c] = Sent(calls[c].kind, 2, cookies)
      BY <2>1, <2>3, <3>2
    <3> DEFINE row == Sent(calls[c].kind, 2, cookies)
    <3>4. /\ row \in Row /\ row.kind = calls[c].kind /\ row.stage = "sent" /\ row.sends = 2
          /\ row.access = cookies.access /\ row.answer.sets = 0
      BY <1>1, <2>2, <3>1, SentShape
    <3> HIDE DEF row
    <3>5. calls'[c] = row
      BY <3>3 DEF row
    <3> QED
      BY <1>1, <2>3, <3>4, <3>5
  <2>4. CASE WaitsFor(c, s) /\ answer.is # "ok"
    BY <2>1, <2>4, IdleShape
  <2>5. CASE ~WaitsFor(c, s)
    BY <2>1, <2>2, <2>5
  <2> QED
    BY <2>3, <2>4, <2>5
<1>3. \E f : calls' = [c \in Call |-> f[c]]
  <2>1. calls' = [c \in Call |->
         [d \in Call |-> IF ~WaitsFor(d, s) THEN calls[d]
                         ELSE IF answer.is = "ok" THEN Resent(d, cookies) ELSE Idle][c]]
    BY DEF RefreshArrives
  <2> QED
    BY <2>1
<1> QED
  BY <1>2, <1>3

\* The refresh and the calls that wait for it settle together.
LEMMA RefreshArrivesStep ==
  ASSUME Ind, NEW s \in Call, RefreshArrives(s)
  PROVE  Ind'
<1> DEFINE a == refreshes[s].answer
<1>1. /\ refreshes[s].stage = "served" /\ jar' = Applied(a)
      /\ refreshes' = [refreshes EXCEPT ![s] = NoRefresh]
      /\ promise' = IF promise = s THEN None ELSE promise
      /\ UNCHANGED <<server, disturbed>>
  BY DEF RefreshArrives
<1>2. /\ calls' \in [Call -> Row]
      /\ \A c \in Call :
           \/ ~WaitsFor(c, s) /\ calls'[c] = calls[c]
           \/ WaitsFor(c, s) /\ a.is # "ok" /\ calls'[c] = Idle
           \/ /\ WaitsFor(c, s) /\ a.is = "ok"
              /\ calls'[c].kind = calls[c].kind /\ calls'[c].stage = "sent"
              /\ calls'[c].sends = 2 /\ calls'[c].access = jar'.access
              /\ calls'[c].answer.sets = 0
  BY SettledShape
<1>3. promise = s /\ \A x \in Call \ {s} : refreshes[x].stage = "none"
  BY <1>1 DEF Ind, OneFlight
<1>4. /\ refreshes' \in [Call -> Refresh] /\ refreshes'[s] = NoRefresh
      /\ \A x \in Call \ {s} : refreshes'[x] = refreshes[x]
  BY <1>1, IdleShape, Zenon DEF Ind, TypeOK
<1>5. /\ promise' = None
      /\ \A x \in Call : refreshes'[x].stage = "none"
  BY <1>1, <1>3, <1>4, IdleShape
<1>6. /\ jar' \in Jar
      /\ a.sets # 0 => jar' = [access |-> a.sets, refresh |-> a.sets]
      /\ a.sets = 0 => jar' = jar \/ jar' = [access |-> 0, refresh |-> 0]
  BY <1>1, AppliedShape DEF Ind, TypeOK, Refresh
<1>7. /\ server.issued \in Nat /\ jar'.refresh \in Nat /\ jar'.refresh <= server.issued
  BY <1>6, Numbers, IssuedAssumption DEF Ind, Bounded, Jar
<1>8. page' \in Pages /\ PageCalls'
  <2>1. CASE a.is # "ok" /\ \E c \in Call : WaitsFor(c, s) /\ page' = PageAfter(c, a.is)
    <3>1. PICK c \in Call : WaitsFor(c, s) /\ page' = PageAfter(c, a.is)
      BY <2>1
    <3>2. calls'[c] = Idle
      BY <1>2, <2>1, <3>1
    <3>3. CASE calls[c].kind = "me"
      <4>1. page = "starting"
        BY <3>1, <3>3 DEF Ind, TypeOK, PageCalls, UnderWay, WaitsFor
      <4>2. \A d \in Call : calls'[d].stage = "idle"
        BY <1>2, <2>1, <3>1, <3>2, <4>1, IdleShape DEF Ind, PageCalls, UnderWay, WaitsFor
      <4> QED
        BY <3>1, <4>2 DEF PageCalls, UnderWay, PageAfter, Pages, Ind, TypeOK
    <3>4. CASE calls[c].kind # "me"
      <4>1. page' = page
        BY <3>1, <3>4 DEF PageAfter
      <4> QED
        BY <1>2, <2>1, <4>1, IdleShape DEF Ind, TypeOK, PageCalls, UnderWay, WaitsFor, Pages
    <3> QED
      BY <3>3, <3>4
  <2>2. CASE UNCHANGED page
    <3>1. \A c \in Call : UnderWay(c)' => UnderWay(c) /\ calls'[c].kind = calls[c].kind
      BY <1>2, IdleShape DEF UnderWay, WaitsFor
    <3> QED
      BY <2>2, <3>1 DEF Ind, TypeOK, PageCalls, Pages
  <2> QED
    BY <2>1, <2>2 DEF RefreshArrives
<1>9. TypeOK'
  BY <1>1, <1>2, <1>4, <1>5, <1>6, <1>8 DEF Ind, TypeOK, Pages
<1>10. Bounded'
  <2>1. \A c \in Call : calls'[c].answer.sets <= server.issued
    BY <1>2, <1>7, IdleShape DEF Ind, Bounded
  <2>2. \A x \in Call : /\ refreshes'[x].token <= server.issued
                        /\ refreshes'[x].answer.sets <= server.issued
    BY <1>4, <1>7, IdleShape DEF Ind, Bounded
  <2> QED
    BY <1>1, <1>7, <2>1, <2>2 DEF Ind, Bounded
<1>11. OneFlight' /\ ExcludedAnswers'
  BY <1>2, <1>5, IdleShape DEF Ind, OneFlight, ExcludedAnswers
<1>12. /\ \A x \in Call : ~RefreshHands(x)'
       /\ \A c \in Call : CallHands(c)' <=> CallHands(c)
       /\ \A c \in Call : CallHands(c) => calls'[c] = calls[c]
       /\ \A x \in Call \ {s} : ~RefreshHands(x)
       /\ RefreshHands(s) <=> a.sets # 0
  BY <1>1, <1>2, <1>3, <1>5, IdleShape DEF CallHands, RefreshHands, WaitsFor
<1>13. ASSUME disturbed # "forked"
       PROVE  Linear'
  <2>0. Linear
    BY <1>13 DEF Ind, Unforked
  <2>1. UnusedSent'
    BY <1>5 DEF UnusedSent
  <2>2. AllDifferent'
    BY <1>12, <2>0 DEF Linear, AllDifferent
  <2>3. \A c \in Call : CallHands(c) => calls[c].answer.sets # jar'.refresh
    BY <1>6, <1>12, <2>0 DEF Linear, NewOnTheWay, NewTo, AllDifferent, CallHands
  <2>4. NewOnTheWay'
    BY <1>1, <1>5, <1>12, <2>0, <2>3 DEF Linear, NewOnTheWay, NewTo
  <2>5. HeldUnused'
    <3>1. 0 \notin server.consumed
      BY <1>7 DEF Ind, Bounded
    <3>2. jar'.refresh \in server.consumed => a.sets = 0 /\ jar'.refresh = jar.refresh
      BY <1>6, <1>12, <2>0, <3>1 DEF Linear, NewOnTheWay, NewTo
    <3> QED
      BY <1>1, <1>12, <2>0, <3>2 DEF Linear, HeldUnused
  <2> QED
    BY <1>1, <2>0, <2>1, <2>2, <2>4, <2>5 DEF Linear
<1>14. ASSUME disturbed = "no"
       PROVE  \A c \in Call : CallTrue(c)' /\ RefreshTrue(c)'
  <2>1. a.is = "ok" => a.sets # 0 /\ a.sets >= server.since
    BY <1>1, <1>14 DEF Ind, Undisturbed, RefreshTrue
  <2>2. a.is = "ok" => jar'.access # 0 /\ jar'.access >= server.since
    BY <1>6, <2>1
  <2>3. \A c \in Call : CallTrue(c)'
    BY <1>1, <1>2, <1>14, <2>2, IdleShape DEF Ind, Undisturbed, CallTrue
  <2> QED
    BY <1>5, <2>3 DEF RefreshTrue
<1> QED
  BY <1>1, <1>8, <1>9, <1>10, <1>11, <1>13, <1>14 DEF Ind, Unforked, Undisturbed

-----------------------------------------------------------------------------
(* The theorems.                                                           *)

LEMMA InitInd == Init => Ind
<1> SUFFICES ASSUME Init
             PROVE  Ind
  OBVIOUS
<1>1. /\ server = [alive |-> FALSE, issued |-> 0, since |-> 1, consumed |-> {}, reused |-> FALSE]
      /\ jar = [access |-> 0, refresh |-> 0]
      /\ promise = None /\ page = "login" /\ disturbed = "no"
      /\ calls \in [Call -> Row] /\ \A c \in Call : calls[c] = Idle
      /\ refreshes \in [Call -> Refresh] /\ \A s \in Call : refreshes[s] = NoRefresh
  BY IdleShape DEF Init, NoCalls, NoRefreshes
<1>2. server \in Server /\ jar \in Jar
  <2>1. 0 \in 0..MaxIssued /\ 1 \in 1..(MaxIssued + 1) /\ {} \in SUBSET Issued
    BY IssuedAssumption
  <2> QED
    BY <1>1, <2>1 DEF Server, Jar
<1>3. TypeOK
  BY <1>1, <1>2 DEF TypeOK
<1>4. Bounded
  BY <1>1, IdleShape DEF Bounded
<1>5. OneFlight /\ PageCalls /\ ExcludedAnswers
  BY <1>1, IdleShape DEF OneFlight, PageCalls, UnderWay, ExcludedAnswers
<1>6. Linear
  BY <1>1, IdleShape DEF Linear, UnusedSent, NewOnTheWay, AllDifferent, HeldUnused,
                         CallHands, RefreshHands
<1>7. Undisturbed
  BY <1>1, IdleShape DEF Undisturbed, CallTrue, RefreshTrue
<1> QED
  BY <1>3, <1>4, <1>5, <1>6, <1>7 DEF Ind, Unforked

LEMMA StutterInd ==
  ASSUME Ind, UNCHANGED vars
  PROVE  Ind'
<1>1. UNCHANGED <<server, jar, calls, refreshes, promise, page, disturbed>>
  BY DEF vars
<1>2. TypeOK' /\ Bounded' /\ OneFlight' /\ PageCalls' /\ ExcludedAnswers'
  BY <1>1 DEF Ind, TypeOK, Bounded, OneFlight, PageCalls, UnderWay, ExcludedAnswers
<1>3. Unforked'
  BY <1>1 DEF Ind, Unforked, Linear, UnusedSent, NewOnTheWay, NewTo, AllDifferent, HeldUnused,
              CallHands, RefreshHands
<1>4. Undisturbed'
  BY <1>1 DEF Ind, Undisturbed, CallTrue, RefreshTrue
<1> QED
  BY <1>2, <1>3, <1>4 DEF Ind

LEMMA NextInd == Ind /\ [Next]_vars => Ind'
<1> SUFFICES ASSUME Ind, [Next]_vars
             PROVE  Ind'
  OBVIOUS
<1>1. CASE Visits \/ LogsIn
  BY <1>1, VisitsStep, LogsInStep
<1>2. ASSUME NEW c \in Call, Calls(c) \/ SavesProfile(c) \/ ChangesPassword(c) \/ LogsOut(c)
      PROVE  Ind'
  <2>1. PICK kind \in {"page", "profile", "password", "logout"} : Starts(c, kind)
    BY <1>2 DEF Calls, SavesProfile, ChangesPassword, LogsOut, StartsAlone
  <2> QED
    BY <2>1, StartsStep
<1>3. ASSUME NEW c \in Call, Serves(c)
      PROVE  Ind'
  BY <1>3, ServesProtectedStep, ServesPasswordStep, ServesLoginStep, ServesLogoutStep DEF Serves
<1>4. ASSUME NEW c \in Call, CallFails(c) \/ CallLost(c) \/ Arrives(c)
      PROVE  Ind'
  BY <1>4, CallFailsStep, CallLostStep, ArrivesStep
<1>5. ASSUME NEW s \in Call, \/ RefreshServes(s) \/ RefreshFails(s) \/ RefreshPutOff(s)
                             \/ RefreshLost(s) \/ RefreshArrives(s)
      PROVE  Ind'
  BY <1>5, RefreshServesStep, RefreshFailsStep, RefreshPutOffStep, RefreshLostStep,
     RefreshArrivesStep
<1>6. CASE AccessRunsOut \/ SessionEnds \/ OtherTabRefreshes
  BY <1>6, AccessRunsOutStep, SessionEndsStep, OtherTabRefreshesStep
<1>7. CASE UNCHANGED vars
  BY <1>7, StutterInd
<1> QED
  BY <1>1, <1>2, <1>3, <1>4, <1>5, <1>6, <1>7 DEF Next

\* The inductive invariant of the tab: one refresh is under way at a time and
\* what it sends is unused, unless the session is forked; a call is sent again
\* only with a token that is accepted, unless the session was changed
\* (refreshSession and apiRequest of http.ts).
THEOREM TabInvariant == Spec => []Ind
<1> QED
  BY InitInd, NextInd, PTL DEF Spec

\* The cookies, calls and refreshes of a tab stay within their types, for any
\* number of calls (apiRequest of http.ts).
THEOREM TypeCorrect == Spec => []TypeOK
<1>1. Ind => TypeOK
  BY DEF Ind
<1> QED
  BY <1>1, TabInvariant, PTL

\* A tab on its own never presents a refresh token twice, however many of its
\* calls find their access token run out at once (refreshSession of http.ts).
THEOREM LoneTabTheorem == Spec => []LoneTabKeepsSession
<1>1. Ind => LoneTabKeepsSession
  BY DEF Ind, Unforked, Linear, LoneTabKeepsSession
<1> QED
  BY <1>1, TabInvariant, PTL

\* No call is sent more than twice (the retry of apiRequest in http.ts is done
\* once).
THEOREM SentTwiceTheorem == Spec => []SentAtMostTwice
<1>1. Ind => SentAtMostTwice
  <2> SUFFICES ASSUME Ind, NEW c \in Call
               PROVE  calls[c].sends <= 2
    BY DEF SentAtMostTwice
  <2>1. calls[c].stage \in {"idle", "sent", "served", "waiting"}
    BY DEF Ind, TypeOK, Row
  <2> QED
    BY <2>1 DEF Ind, OneFlight
<1> QED
  BY <1>1, TabInvariant, PTL

\* An answer that says the session is over, and ends a call, is right.
LEMMA SessionAnswerTrue ==
  ASSUME Ind, disturbed = "no", NEW c \in Call, calls[c].stage = "served", ~Retries(c),
         calls[c].answer.is = "session"
  PROVE  ~server.alive
<1>1. calls[c].sends \in {1, 2} /\ calls[c].kind \notin Excluded
  BY DEF Ind, OneFlight, ExcludedAnswers
<1>2. calls[c].sends = 2
  BY <1>1 DEF Retries, IsSessionError
<1> QED
  BY <1>2 DEF Ind, Undisturbed, CallTrue

\* A page is told that the session is over, and the tab falls back to the login
\* page, only if it is, unless the session was changed under the call
\* (isSessionError and apiRequest of http.ts, getInitialState of app.tsx).
THEOREM SessionErrorsTheorem == Spec => SessionErrorsTrue
<1> DEFINE Told == \/ \E c \in Call : EndsWith(c, "session")
                   \/ page = "starting" /\ page' = "login"
           A == Told => ~server.alive \/ disturbed # "no"
<1>1. Ind /\ [Next]_vars => [A]_vars
  <2> SUFFICES ASSUME Ind, Next, Told, disturbed = "no"
               PROVE  ~server.alive
    OBVIOUS
  <2>0. \A c \in Call : calls[c] \in Row
    BY DEF Ind, TypeOK
  <2>1. ~Visits
    BY DEF Visits, Loads, EndsWith
  <2>2. ASSUME page' = page,
               \A c \in Call : calls'[c].stage = "idle" => calls[c].stage = "idle"
        PROVE  FALSE
    BY <2>2 DEF EndsWith, UnderWay
  <2>3. ~LogsIn
    <3> SUFFICES ASSUME LogsIn
                 PROVE  FALSE
      OBVIOUS
    <3>1. \A c \in Call : calls[c].stage = "idle"
      BY DEF LogsIn, UnderWay
    <3>2. page' = page
      BY DEF LogsIn
    <3> QED
      BY <2>2, <3>1, <3>2
  <2>4. ASSUME NEW c \in Call, Calls(c) \/ SavesProfile(c) \/ ChangesPassword(c) \/ LogsOut(c)
        PROVE  FALSE
    <3>1. PICK kind \in {"page", "profile", "password", "logout"} : Starts(c, kind)
      BY <2>4 DEF Calls, SavesProfile, ChangesPassword, LogsOut, StartsAlone
    <3>2. calls[c].stage = "idle" /\ page' = page
      BY <3>1 DEF Starts, UnderWay
    <3>3. \A d \in Call \ {c} : calls'[d] = calls[d]
      BY <3>1 DEF Starts, Ind, TypeOK
    <3> QED
      BY <2>2, <3>2, <3>3
  <2>5. ASSUME NEW c \in Call, NEW a \in Answer, Answers(c, a), page' = page
        PROVE  FALSE
    BY <2>0, <2>2, <2>5, AnswersShape DEF Ind, TypeOK
  <2>6. ASSUME NEW c \in Call, Serves(c) \/ CallFails(c) \/ CallLost(c)
        PROVE  FALSE
    <3>1. page' = page
      BY <2>6 DEF Serves, ServesProtected, ServesPassword, ServesLogin, ServesLogout,
                  CallFails, CallLost
    <3>2. server.issued \in Nat
      BY Numbers DEF Ind
    <3>3. \E a \in Answer : Answers(c, a)
      <4>1. server.issued < MaxIssued => HandsOut(server.issued + 1) \in Answer
        BY <3>2, IssuedAssumption, AnswerShapes
      <4>2. Fault \in Answer
        BY AnswerShapes
      <4>3. CASE CallFails(c) \/ CallLost(c)
        BY <4>2, <4>3 DEF CallFails, CallLost
      <4>4. CASE ServesProtected(c)
        BY <4>4, AnswerShapes DEF ServesProtected, AccessError
      <4>5. CASE ServesPassword(c)
        BY <4>1, <4>5, AnswerShapes DEF ServesPassword, AccessError
      <4>6. CASE ServesLogin(c)
        BY <4>1, <4>6, AnswerShapes DEF ServesLogin
      <4>7. CASE ServesLogout(c)
        BY <4>7, AnswerShapes DEF ServesLogout
      <4> QED
        BY <2>6, <4>3, <4>4, <4>5, <4>6, <4>7 DEF Serves
    <3> QED
      BY <2>5, <3>1, <3>3
  <2>7. ASSUME NEW c \in Call, Arrives(c)
        PROVE  ~server.alive
    <3>1. calls[c].stage = "served"
      BY <2>7 DEF Arrives
    <3>2. CASE Retries(c) /\ JoinsRefresh(c, Applied(calls[c].answer)) /\ UNCHANGED page
      <4>1. /\ calls'[c].stage = "waiting"
            /\ \A d \in Call \ {c} : calls'[d] = calls[d]
        <5> DEFINE row == [Idle EXCEPT !.kind = calls[c].kind, !.stage = "waiting",
                                       !.sends = calls[c].sends,
                                       !.waits = IF promise = None THEN c ELSE promise]
        <5>1. row.stage = "waiting"
          BY IdleShape, Zenon DEF Row
        <5>2. calls' = [calls EXCEPT ![c] = row] /\ calls \in [Call -> Row]
          BY <3>2 DEF JoinsRefresh, Ind, TypeOK
        <5> HIDE DEF row
        <5> QED
          BY <5>1, <5>2
      <4> QED
        BY <2>2, <3>2, <4>1
    <3>3. CASE calls[c].kind \in {"login", "profile"} /\ Loads(Applied(calls[c].answer))
      <4>1. page # "starting" /\ page' = "starting"
        BY <3>1, <3>3 DEF Loads, Ind, TypeOK, PageCalls, UnderWay
      <4> QED
        BY <4>1 DEF EndsWith
    <3>4. CASE calls[c].kind = "logout" /\ page' = "login"
      <4>1. page = "workspace"
        BY <3>1, <3>4 DEF Ind, TypeOK, PageCalls, UnderWay
      <4> QED
        BY <3>4, <4>1 DEF EndsWith
    <3>5. CASE /\ ~Retries(c)
               /\ calls' = [calls EXCEPT ![c] = Idle]
               /\ page' = PageAfter(c, calls[c].answer.is)
      <4>1. \A d \in Call \ {c} : calls'[d] = calls[d]
        BY <3>5 DEF Ind, TypeOK
      <4>2. \A d \in Call : EndsWith(d, "session") => d = c
        BY <4>1 DEF EndsWith, UnderWay
      <4>3. EndsWith(c, "session") => calls[c].answer.is = "session"
        BY <3>1 DEF EndsWith
      <4>4. page = "starting" /\ page' = "login" => calls[c].answer.is = "session"
        BY <3>5 DEF PageAfter, IsSessionError
      <4> QED
        BY <3>1, <3>5, <4>2, <4>3, <4>4, SessionAnswerTrue
    <3> QED
      BY <2>7, <3>2, <3>3, <3>4, <3>5 DEF Arrives
  <2>8. ASSUME NEW s \in Call,
               RefreshServes(s) \/ RefreshFails(s) \/ RefreshPutOff(s) \/ RefreshLost(s)
        PROVE  FALSE
    BY <2>2, <2>8 DEF RefreshServes, RefreshFails, RefreshPutOff, RefreshLost
  <2>9. ASSUME NEW s \in Call, RefreshArrives(s)
        PROVE  ~server.alive
    <3>1. refreshes[s].stage = "served"
      BY <2>9 DEF RefreshArrives
    <3>2. refreshes[s].answer.is = "session" => ~server.alive
      BY <3>1 DEF Ind, Undisturbed, RefreshTrue
    <3>3. \A c \in Call : EndsWith(c, "session") => WaitsFor(c, s)
      BY <2>9, SettledShape DEF EndsWith, UnderWay
    <3>4. \A c \in Call : EndsWith(c, "session") => refreshes[s].answer.is = "session"
      BY <3>3 DEF EndsWith, WaitsFor
    <3>5. page = "starting" /\ page' = "login" => refreshes[s].answer.is = "session"
      BY <2>9 DEF RefreshArrives, PageAfter, IsSessionError
    <3> QED
      BY <3>2, <3>4, <3>5
  <2>10. ~AccessRunsOut /\ ~SessionEnds /\ ~OtherTabRefreshes
    BY <2>2 DEF AccessRunsOut, SessionEnds, OtherTabRefreshes
  <2> QED
    BY <2>1, <2>3, <2>4, <2>6, <2>7, <2>8, <2>9, <2>10 DEF Next
<1> QED
  BY <1>1, TabInvariant, PTL DEF Spec, SessionErrorsTrue
=============================================================================
