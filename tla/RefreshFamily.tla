--------------------------- MODULE RefreshFamily ---------------------------
(***************************************************************************)
(* What a login session promises about its refresh tokens, whatever the    *)
(* requests, locks and transactions behind it: a session is opened once,   *)
(* has at most one usable token, replaces it only by a token never issued  *)
(* before, and once closed never has a usable token again.                 *)
(*                                                                         *)
(* AuthSessions is shown to implement this specification.                  *)
(***************************************************************************)
CONSTANTS
  Session,   \* session identifiers
  Token      \* refresh token identifiers

VARIABLES
  phase,     \* phase[s]: "unused", "open" or "revoked"
  usable,    \* usable[s]: the tokens a refresh of s would accept
  issued     \* the tokens ever given out

vars == <<phase, usable, issued>>

TypeOK ==
  /\ phase  \in [Session -> {"unused", "open", "revoked"}]
  /\ usable \in [Session -> SUBSET Token]
  /\ issued \in SUBSET Token

Init ==
  /\ phase  = [s \in Session |-> "unused"]
  /\ usable = [s \in Session |-> {}]
  /\ issued = {}

\* A login: a new session with a token of its own.
Open(s, t) ==
  /\ phase[s] = "unused"
  /\ t \notin issued
  /\ phase'  = [phase EXCEPT ![s] = "open"]
  /\ usable' = [usable EXCEPT ![s] = {t}]
  /\ issued' = issued \cup {t}

\* The open sessions of S end, and the new tokens T go to no open session.
Close(S, T) ==
  /\ \A s \in S : phase[s] = "open"
  /\ T \cap issued = {}
  /\ phase'  = [s \in Session |-> IF s \in S THEN "revoked" ELSE phase[s]]
  /\ usable' = [s \in Session |-> IF s \in S THEN {} ELSE usable[s]]
  /\ issued' = issued \cup T

\* s replaces its token by the new token t while the other sessions of S end.
Rotate(s, t, S) ==
  /\ phase[s] = "open"
  /\ s \notin S
  /\ \A x \in S : phase[x] = "open"
  /\ t \notin issued
  /\ phase'  = [x \in Session |-> IF x \in S THEN "revoked" ELSE phase[x]]
  /\ usable' = [x \in Session |-> IF x = s THEN {t}
                                  ELSE IF x \in S THEN {} ELSE usable[x]]
  /\ issued' = issued \cup {t}

Next ==
  \/ \E s \in Session, t \in Token : Open(s, t)
  \/ \E S \in SUBSET Session, T \in SUBSET Token : Close(S, T)
  \/ \E s \in Session, t \in Token, S \in SUBSET Session : Rotate(s, t, S)

Spec == Init /\ [][Next]_vars

\* A session has at most one usable token, it was issued, it serves no other
\* session, and only an open session has one.
Linear ==
  /\ \A s \in Session : usable[s] \subseteq issued
  /\ \A s \in Session : usable[s] # {} => phase[s] = "open"
  /\ \A s \in Session : \A t1, t2 \in usable[s] : t1 = t2
  /\ \A s1, s2 \in Session : \A t \in Token :
       t \in usable[s1] /\ t \in usable[s2] => s1 = s2
=============================================================================
