-------------------------------- MODULE Sessions --------------------------------
(***************************************************************************)
(* Signing in, renewing and signing out (app/modules/auth/service.py): the *)
(* rows of refresh_sessions behind the refresh tokens, rotated at every    *)
(* renewal, revoked at logout and, when a rotated token comes back,        *)
(* revoked for the whole family.                                           *)
(*                                                                         *)
(* A renewal reads the row, revokes it, reads the account and the          *)
(* membership that Staff administers meanwhile, and commits the revocation *)
(* together with the new row.  The UPDATEs wait for each other on the      *)
(* rows; nobody looks at how many rows they changed.                       *)
(***************************************************************************)
EXTENDS Staff

CONSTANTS
  Visits,       \* the sessions in which these requests are handled
  Nobody,       \* no transaction has updated the row
  MaxSessions,  \* bound: refresh sessions created, ever
  OneByOne      \* whether a client has one request under way for one sign-in

ASSUME SessionsAssumption ==
  /\ Nobody \notin Visits
  /\ MaxSessions \in Nat
  /\ OneByOne \in BOOLEAN

VARIABLES
  sessions,   \* refresh_sessions: the committed rows
  issued,     \* how many were ever created
  received,   \* the sessions whose token reached its client
  expired,    \* the sessions whose token is too old
  holder,     \* the transaction that has updated each row and not ended, if any
  stage,      \* the statement each request is about to execute
  visit,      \* what each request asks for and has read
  successors, \* history: <<a session, the session issued for its token>>
  caught      \* history: the sign-ins of which an old token came back

sessionVars ==
  <<sessions, issued, received, expired, holder, stage, visit, successors, caught>>
signInVars == <<staffVars, sessionVars>>

\* The reason of a revocation is history; revoked_at is NULL for "no".
Revocations == {"no", "rotated", "logout", "reuse"}

NoVisit == [op |-> "none"]

Row(i) == {s \in sessions : s.id = i}
Live(s) == s.revoked = "no"
LiveRow(i) == \E s \in Row(i) : Live(s)
HeldBy(v) == {i \in DOMAIN holder : holder[i] = v}

\* The sign-in a session descends from is the first session of its chain.
ChainOf(i) == (CHOOSE s \in sessions : s.id = i).chain

SignInInit ==
  /\ Init
  /\ sessions = {}
  /\ issued = 0
  /\ received = {}
  /\ expired = {}
  /\ holder = [i \in 1 .. MaxSessions |-> Nobody]
  /\ stage = [v \in Visits |-> "idle"]
  /\ visit = [v \in Visits |-> NoVisit]
  /\ successors = {}
  /\ caught = {}

-----------------------------------------------------------------------------
(* The requests *)

Arrive(v, next, r) ==
  /\ stage[v] = "idle"
  /\ stage' = [stage EXCEPT ![v] = next]
  /\ visit' = [visit EXCEPT ![v] = r]
  /\ UNCHANGED <<sessions, issued, received, expired, holder, successors, caught>>

\* login, once the password is right, or switch_tenant.
SignIn(v, u) ==
  Arrive(v, "account", [op |-> "login", user |-> u, token |-> 0, chain |-> 0, todo |-> {}])

\* Some request is under way for the same sign-in.
Underway(chain) == \E v \in Visits : visit[v].op # "none" /\ visit[v].chain = chain

\* refresh or logout with a token that was received; decode_token refuses an expired one.
Present(v, op, i) ==
  /\ i \in received \ expired
  /\ Row(i) # {}
  /\ OneByOne => ~Underway(ChainOf(i))
  /\ \E s \in Row(i) :
       Arrive(v, IF op = "renew" THEN "row" ELSE "logout",
              [op |-> op, user |-> s.user, token |-> i, chain |-> s.chain, todo |-> {}])

Continue(v, next) ==
  /\ stage' = [stage EXCEPT ![v] = next]
  /\ UNCHANGED <<sessions, issued, received, expired, holder, visit, successors, caught>>

Revoke(ids, why) ==
  {IF s.id \in ids /\ Live(s) THEN [s EXCEPT !.revoked = why] ELSE s : s \in sessions}

\* Mutant of Close: the connection goes back to its pool with the transaction open.
CloseKeepingRows(v) ==
  /\ stage' = [stage EXCEPT ![v] = "idle"]
  /\ visit' = [visit EXCEPT ![v] = NoVisit]
  /\ UNCHANGED holder

\* The transaction ends: its rows are free.
Close(v) ==
  /\ stage' = [stage EXCEPT ![v] = "idle"]
  /\ visit' = [visit EXCEPT ![v] = NoVisit]
  /\ holder' = [i \in DOMAIN holder |-> IF holder[i] = v THEN Nobody ELSE holder[i]]

\* Mutant of Abandon: the rotation was committed by itself.
AbandonCommitted(v) ==
  /\ Close(v)
  /\ sessions' = Revoke(HeldBy(v), "rotated")
  /\ UNCHANGED <<issued, received, expired, successors, caught>>

\* Nothing it wrote remains.
Abandon(v) ==
  /\ Close(v)
  /\ UNCHANGED <<sessions, issued, received, expired, successors, caught>>

-----------------------------------------------------------------------------
(* refresh *)

\* The row must be there; a revoked one means that an old token came back.
ReadRow(v) ==
  /\ stage[v] = "row"
  /\ IF Row(visit[v].token) = {} THEN Abandon(v)
     ELSE IF ~LiveRow(visit[v].token) THEN Continue(v, "family")
     ELSE IF visit[v].token \in expired THEN Abandon(v)
     ELSE Continue(v, "rotate")

\* Mutant of Rotate: the presented token stays good.
RotateNothing(v) == stage[v] = "rotate" /\ Continue(v, "account")

\* revoke_refresh_session: UPDATE ... WHERE revoked_at IS NULL waits for whoever has
\* updated the row, and changes nothing if that one revoked it.
Rotate(v) ==
  LET i == visit[v].token
  IN /\ stage[v] = "rotate"
     /\ LiveRow(i) => holder[i] = Nobody
     /\ holder' = IF LiveRow(i) THEN [holder EXCEPT ![i] = v] ELSE holder
     /\ stage' = [stage EXCEPT ![v] = "account"]
     /\ UNCHANGED <<sessions, issued, received, expired, visit, successors, caught>>

\* _active_user
ReadAccount(v) ==
  /\ stage[v] = "account"
  /\ IF account[visit[v].user] = "active" THEN Continue(v, "membership") ELSE Abandon(v)

\* _authorize
ReadMembership(v) ==
  /\ stage[v] = "membership"
  /\ IF EffectiveRole(visit[v].user) # "none" THEN Continue(v, "issue") ELSE Abandon(v)

\* _issue: the new row and the revocation of the old one are committed together.  The
\* answer with the token may be lost.
Issue(v, arrives) ==
  LET i == issued + 1
      r == visit[v]
  IN /\ stage[v] = "issue"
     /\ issued < MaxSessions
     /\ issued' = i
     /\ sessions' = Revoke(HeldBy(v), "rotated") \cup
          {[id |-> i, user |-> r.user, revoked |-> "no",
            chain |-> IF r.op = "login" THEN i ELSE r.chain]}
     /\ received' = IF arrives THEN received \cup {i} ELSE received
     /\ successors' = IF r.op = "login" THEN successors ELSE successors \cup {<<r.token, i>>}
     /\ Close(v)
     /\ UNCHANGED <<expired, caught>>

\* Mutant of ReadFamily: only the presented token is revoked.
ReadNoFamily(v) ==
  /\ stage[v] = "family"
  /\ stage' = [stage EXCEPT ![v] = "revoke"]
  /\ visit' = [visit EXCEPT ![v].todo = {visit[v].token}]
  /\ UNCHANGED <<sessions, issued, received, expired, holder, successors, caught>>

\* Reuse detection: revoke_all_refresh_sessions finds the rows that are live when the
\* statement starts ...
ReadFamily(v) ==
  /\ stage[v] = "family"
  /\ stage' = [stage EXCEPT ![v] = "revoke"]
  /\ visit' = [visit EXCEPT ![v].todo =
       {s.id : s \in {s \in sessions : s.user = visit[v].user /\ Live(s)}}]
  /\ UNCHANGED <<sessions, issued, received, expired, holder, successors, caught>>

\* ... and takes them one by one, waiting for who has updated them.
RevokeNext(v) ==
  /\ stage[v] = "revoke"
  /\ \E i \in visit[v].todo :
       /\ LiveRow(i) => holder[i] = Nobody
       /\ holder' = IF LiveRow(i) THEN [holder EXCEPT ![i] = v] ELSE holder
       /\ visit' = [visit EXCEPT ![v].todo = @ \ {i}]
  /\ UNCHANGED <<sessions, issued, received, expired, stage, successors, caught>>

\* The revocation is committed and the renewal refused.
RefuseReuse(v) ==
  /\ stage[v] = "revoke"
  /\ visit[v].todo = {}
  /\ sessions' = Revoke(HeldBy(v), "reuse")
  /\ caught' = caught \cup {visit[v].chain}
  /\ Close(v)
  /\ UNCHANGED <<issued, received, expired, successors>>

\* logout: the row is revoked, whoever waits for it.
SignOut(v) ==
  LET i == visit[v].token
  IN /\ stage[v] = "logout"
     /\ LiveRow(i) => holder[i] = Nobody
     /\ sessions' = Revoke({i}, "logout")
     /\ Close(v)
     /\ UNCHANGED <<issued, received, expired, successors, caught>>

-----------------------------------------------------------------------------
\* The process dies, or the database cancels the request.
DieSigningIn(v) == stage[v] # "idle" /\ Abandon(v)

\* Time passes.
Expire(i) ==
  /\ i \in 1 .. issued \ expired
  /\ expired' = expired \cup {i}
  /\ UNCHANGED <<sessions, issued, received, holder, stage, visit, successors, caught>>

\* prune_expired_refresh_sessions
Prune ==
  /\ \E s \in sessions : s.id \in expired
  /\ \A i \in expired : holder[i] = Nobody
  /\ sessions' = {s \in sessions : s.id \notin expired}
  /\ UNCHANGED <<issued, received, expired, holder, stage, visit, successors, caught>>

VisitStep(v) ==
  \/ ReadRow(v)
  \/ Rotate(v)
  \/ ReadAccount(v)
  \/ ReadMembership(v)
  \/ Issue(v, TRUE)
  \/ Issue(v, FALSE)
  \/ ReadFamily(v)
  \/ RevokeNext(v)
  \/ RefuseReuse(v)
  \/ SignOut(v)
  \/ DieSigningIn(v)

SessionStep ==
  \/ \E v \in Visits :
       \/ \E u \in Users : SignIn(v, u)
       \/ \E i \in received : Present(v, "renew", i) \/ Present(v, "logout", i)
       \/ VisitStep(v)
  \/ \E i \in 1 .. issued : Expire(i)
  \/ Prune

SignInNext ==
  \/ Next /\ UNCHANGED sessionVars
  \/ SessionStep /\ UNCHANGED staffVars

SignInSpec == SignInInit /\ [][SignInNext]_signInVars

-----------------------------------------------------------------------------
(* Properties *)

Session == [id : 1 .. MaxSessions, user : Users, revoked : Revocations, chain : 1 .. MaxSessions]

\* Every variable has its type (RefreshSession); a row that is being revoked is held by
\* a request under way.
SessionsTypeOK ==
  /\ sessions \subseteq Session
  /\ issued \in 0 .. MaxSessions
  /\ \A r, s \in sessions : r.id = s.id => r = s
  /\ received \subseteq 1 .. issued
  /\ \A i \in DOMAIN holder : holder[i] # Nobody => stage[holder[i]] # "idle"

SuccessorsOf(i) == {p \in successors : p[1] = i}

\* "Rotate: revoke the presented token, then issue a fresh pair": a token that was
\* rotated away was exchanged for exactly one other, one that is live or was signed out
\* for none, whatever dies half-way (refresh, logout).  A token that a reuse of another
\* sign-in revoked while its own renewal was under way may have one as well: nobody looks
\* at the number of rows the rotation has changed.
RotatedForOne ==
  \A s \in sessions :
    LET n == Cardinality(SuccessorsOf(s.id))
    IN CASE s.revoked = "rotated" -> n = 1
         [] s.revoked = "reuse" -> n <= 1
         [] OTHER -> n = 0

\* "Re-using the original token is rejected": a token is exchanged at most once.
ExchangedOnce == \A s \in sessions : Cardinality(SuccessorsOf(s.id)) <= 1

\* A sign-in has one live session at a time.
OneLivePerSignIn ==
  \A r, s \in sessions : r.chain = s.chain /\ Live(r) /\ Live(s) => r = s

\* Once an old token came back and was refused, its sign-in is over for good.
ReuseEndsSignIn ==
  \A s \in sessions : s.chain \in caught => ~Live(s)
=============================================================================
