------------------------------ MODULE Sessions ------------------------------
(***************************************************************************)
(* Sessions and rotating refresh tokens of one user.                       *)
(*                                                                         *)
(* Every query of these handlers is restricted to one user, one session,   *)
(* one family or one token, so the rows of one user evolve on their own.   *)
(* The handlers of auth run their statements outside any transaction and   *)
(* ignore the errors of the writes; each takes one action per statement,   *)
(* and several requests are served at the same time.  Revoke, RevokeAll    *)
(* and Register are one transaction each.  A sign-in draws a fresh family  *)
(* identifier along with the session's: the session names the family here. *)
(* Access tokens (15 minutes, never looked up) and the expiry of refresh   *)
(* tokens (30 days, checked in the JWT alone) are left out.                *)
(***************************************************************************)
CONSTANTS Session,   \* identifiers of sessions, and of the families they start
          Token,     \* identifiers of refresh tokens
          Request,   \* requests the server may work on at the same time
          NoSession, NoToken   \* SQL NULL

ASSUME SessionAssumption == NoSession \notin Session /\ NoToken \notin Token

VARIABLES session,     \* sessions.revoked_at: no row, active or revoked
          token,       \* the refresh_tokens table
          issued,      \* the tokens some client has received in a cookie
          req,         \* what each request holds between two statements
          overlapped,  \* history: families on which two requests got in each other's way
          stolen       \* history: families revoked for theft with no other request on them

vars == <<session, token, issued, req, overlapped, stolen>>

TokenRow == [status: {"none", "live", "revoked"}, family: Session \cup {NoSession},
             session: Session \cup {NoSession}, replaced_by: Token \cup {NoToken}]
NoRow == [status |-> "none", family |-> NoSession, session |-> NoSession, replaced_by |-> NoToken]

ReqState == [step: {"idle", "sign_in", "theft", "revoke", "insert", "replace"},
             family: Session \cup {NoSession}, old: Token \cup {NoToken},
             new: Token \cup {NoToken}]
Idle == [step |-> "idle", family |-> NoSession, old |-> NoToken, new |-> NoToken]

TypeOK ==
    /\ session \in [Session -> {"none", "active", "revoked"}]
    /\ token \in [Token -> TokenRow]
    /\ \A t \in Token : token[t].status # "none" => token[t].family # NoSession
    /\ issued \subseteq {t \in Token : token[t].status # "none"}
    /\ req \in [Request -> ReqState]
    /\ overlapped \subseteq Session
    /\ stolen \subseteq Session

Init ==
    /\ session = [s \in Session |-> "none"]
    /\ token = [t \in Token |-> NoRow]
    /\ issued = {}
    /\ req = [c \in Request |-> Idle]
    /\ overlapped = {}
    /\ stolen = {}

-----------------------------------------------------------------------------
Fresh(t) == token[t].status = "none"
Live(f) == {t \in Token : token[t].family = f /\ token[t].status = "live"}

\* The requests that may still store a token of family f.
Storing(f) == {c \in Request : req[c].family = f /\ req[c].step \in {"sign_in", "revoke", "insert"}}

RevokeTokens(S) ==
    token' = [t \in Token |-> IF t \in S THEN [token[t] EXCEPT !.status = "revoked"] ELSE token[t]]

\* Family and session change places among the parameters of the INSERT.
RowFault(f, s) == [status |-> "live", family |-> s, session |-> f, replaced_by |-> NoToken]
Row(f, s) == [status |-> "live", family |-> f, session |-> s, replaced_by |-> NoToken]
Store(t, row) == token' = [token EXCEPT ![t] = row]

\* The response may be lost on the way.
Respond(t) == issued' \in {issued, issued \cup {t}}

-----------------------------------------------------------------------------
(* Signing in.                                                             *)

\* The first sign-in of a new user.
Register(s, t) ==
    /\ \A other \in Session : session[other] = "none"
    /\ Fresh(t)
    /\ session' = [session EXCEPT ![s] = "active"]
    /\ Store(t, Row(s, s))
    /\ Respond(t)
    /\ UNCHANGED <<req, overlapped, stolen>>

\* Login and VerifyMagicLink, once the password or the link is accepted.
SignIn(c, s) ==
    /\ req[c].step = "idle"
    /\ session[s] = "none"
    /\ session' = [session EXCEPT ![s] = "active"]
    /\ req' = [req EXCEPT ![c] = [Idle EXCEPT !.step = "sign_in", !.family = s]]
    /\ UNCHANGED <<token, issued, overlapped, stolen>>

StoreFirst(c) ==
    LET s == req[c].family
    IN  /\ req[c].step = "sign_in"
        /\ \E t \in Token : Fresh(t) /\ Store(t, Row(s, s)) /\ Respond(t)
        /\ req' = [req EXCEPT ![c] = Idle]
        /\ UNCHANGED <<session, overlapped, stolen>>

-----------------------------------------------------------------------------
(* Rotation.                                                               *)

\* The row is read without a lock and its revoked_at is forgotten.
RefreshTokenFault(c, t) ==
    /\ req[c].step = "idle"
    /\ t \in issued
    /\ req' = [req EXCEPT ![c] = [step |-> "revoke", family |-> token[t].family,
                                  old |-> t, new |-> NoToken]]
    /\ UNCHANGED <<session, token, issued, overlapped, stolen>>

\* A second request that presents t before the first has revoked it overlaps it.
RefreshToken(c, t) ==
    /\ req[c].step = "idle"
    /\ t \in issued
    /\ req' = [req EXCEPT ![c] = [step |-> IF token[t].status = "revoked" THEN "theft" ELSE "revoke",
                                  family |-> token[t].family, old |-> t, new |-> NoToken]]
    /\ overlapped' = IF \E d \in Request : req[d].step = "revoke" /\ req[d].old = t
                     THEN overlapped \cup {token[t].family} ELSE overlapped
    /\ UNCHANGED <<session, token, issued, stolen>>

\* Only the token presented is revoked.
RevokeFamilyFault(c) ==
    LET f == req[c].family
    IN  /\ req[c].step = "theft"
        /\ RevokeTokens({req[c].old})
        /\ req' = [req EXCEPT ![c] = Idle]
        /\ stolen' = IF Storing(f) = {} THEN stolen \cup {f} ELSE stolen
        /\ UNCHANGED <<session, issued, overlapped>>

RevokeFamily(c) ==
    LET f == req[c].family
    IN  /\ req[c].step = "theft"
        /\ RevokeTokens({t \in Token : token[t].family = f})
        /\ req' = [req EXCEPT ![c] = Idle]
        /\ stolen' = IF Storing(f) = {} THEN stolen \cup {f} ELSE stolen
        /\ UNCHANGED <<session, issued, overlapped>>

\* The new token is stored without revoking the old one.
RevokeOldFault(c) ==
    /\ req[c].step = "revoke"
    /\ req' = [req EXCEPT ![c].step = "insert"]
    /\ UNCHANGED <<session, token, issued, overlapped, stolen>>

RevokeOld(c) ==
    /\ req[c].step = "revoke"
    /\ RevokeTokens({req[c].old})
    /\ req' = [req EXCEPT ![c].step = "insert"]
    /\ UNCHANGED <<session, issued, overlapped, stolen>>

\* The new row belongs to the family, and to no session.
StoreNew(c) ==
    /\ req[c].step = "insert"
    /\ \E t \in Token :
          /\ Fresh(t)
          /\ Store(t, Row(req[c].family, NoSession))
          /\ req' = [req EXCEPT ![c].step = "replace", ![c].new = t]
    /\ UNCHANGED <<session, issued, overlapped, stolen>>

SetReplacedBy(c) ==
    /\ req[c].step = "replace"
    /\ token' = [token EXCEPT ![req[c].old].replaced_by = req[c].new]
    /\ req' = [req EXCEPT ![c] = Idle]
    /\ Respond(req[c].new)
    /\ UNCHANGED <<session, overlapped, stolen>>

\* One statement returns an error, which the handler ignores: the next one runs
\* all the same.  A token that was not stored is of no use to its client.
StatementFails(c) ==
    /\ \/ /\ req[c].step = "revoke"
          /\ req' = [req EXCEPT ![c].step = "insert"]
          /\ overlapped' = overlapped \cup {req[c].family}
          /\ UNCHANGED issued
       \/ /\ req[c].step \in {"sign_in", "theft", "insert"}
          /\ req' = [req EXCEPT ![c] = Idle]
          /\ UNCHANGED <<issued, overlapped>>
       \/ /\ req[c].step = "replace"
          /\ req' = [req EXCEPT ![c] = Idle]
          /\ Respond(req[c].new)
          /\ UNCHANGED overlapped
    /\ UNCHANGED <<session, token, stolen>>

\* The process stops, or the client goes away and the request is cancelled.
Lost(c) ==
    /\ req[c].step # "idle"
    /\ req' = [req EXCEPT ![c] = Idle]
    /\ UNCHANGED <<session, token, issued, overlapped, stolen>>

-----------------------------------------------------------------------------
(* Signing out.                                                            *)

Logout(t) ==
    /\ t \in issued
    /\ RevokeTokens({t})
    /\ UNCHANGED <<session, issued, req, overlapped, stolen>>

\* A sign-in that is under way when its session is revoked overlaps it.
SigningIn(S) == {f \in S : \E c \in Request : req[c].step = "sign_in" /\ req[c].family = f}

\* The tokens are left for the theft detection to find.
RevokeFault(s) ==
    /\ session[s] = "active"
    /\ session' = [session EXCEPT ![s] = "revoked"]
    /\ overlapped' = overlapped \cup SigningIn({s})
    /\ UNCHANGED <<token, issued, req, stolen>>

Revoke(s) ==
    /\ session[s] = "active"
    /\ session' = [session EXCEPT ![s] = "revoked"]
    /\ RevokeTokens({t \in Token : token[t].session = s /\ token[t].status = "live"})
    /\ overlapped' = overlapped \cup SigningIn({s})
    /\ UNCHANGED <<issued, req, stolen>>

RevokeAll ==
    /\ \E s \in Session : session[s] # "none"
    /\ session' = [s \in Session |-> IF session[s] = "active" THEN "revoked" ELSE session[s]]
    /\ RevokeTokens({t \in Token : token[t].status = "live"})
    /\ overlapped' = overlapped \cup SigningIn(Session)
    /\ UNCHANGED <<issued, req, stolen>>

-----------------------------------------------------------------------------
SignInStep(c) == (\E s \in Session : SignIn(c, s)) \/ StoreFirst(c)
Rotation(c) ==
    \/ \E t \in Token : RefreshToken(c, t)
    \/ RevokeFamily(c) \/ RevokeOld(c) \/ StoreNew(c) \/ SetReplacedBy(c)
SignOut == (\E t \in Token : Logout(t)) \/ (\E s \in Session : Revoke(s)) \/ RevokeAll

Next ==
    \/ \E s \in Session, t \in Token : Register(s, t)
    \/ \E c \in Request : SignInStep(c) \/ Rotation(c) \/ StatementFails(c) \/ Lost(c)
    \/ SignOut

Spec == Init /\ [][Next]_vars

-----------------------------------------------------------------------------
(* Properties.                                                             *)

\* Rotation leaves one live token per sign-in, unless two requests presented the
\* same token at once or the statement that revokes it failed.
OneLiveToken == \A f \in Session \ overlapped : \A t, u \in Live(f) : t = u

\* A token that is tied to a session dies with it, unless the sign-in that stores
\* it overlapped the revocation.
BoundTokenFollowsSession ==
    \A t \in Token : LET s == token[t].session
                     IN  token[t].status = "live" /\ s # NoSession /\ session[s] = "revoked"
                            => s \in overlapped

\* When a used token was presented and nothing else was under way on its family,
\* no token of that family is ever accepted again.
StolenIsDead == \A f \in stolen : Live(f) = {}

\* A family that has no live token, and no request that may store one, never gets
\* one again: nothing but a new sign-in lets the user back in.
Dead(f) == session[f] # "none" /\ Live(f) = {} /\ Storing(f) = {}
NoResurrection == [][\A f \in Session : Dead(f) => Dead(f)']_vars

\* Requests that interleave, fail or are lost only ever do to families and tokens what
\* the ledger of sign-ins allows.
Ledger == INSTANCE SignInLedger WITH
              family <- [f \in Session |-> IF session[f] = "none" THEN "unborn"
                                           ELSE IF Dead(f) THEN "closed" ELSE "open"],
              status <- [t \in Token |-> token[t].status],
              home <- [t \in Token |-> token[t].family],
              NoFamily <- NoSession
LedgerSpec == Ledger!Spec

\* Once a session is revoked and nothing is under way on its family, no refresh
\* token that descends from its sign-in is live (sign-ins that overlapped the
\* revocation aside).
RevokedSessionIsDead ==
    \A s \in Session \ overlapped : session[s] = "revoked" /\ Storing(s) = {} => Live(s) = {}
=============================================================================
