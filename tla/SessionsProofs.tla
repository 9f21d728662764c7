--------------------------- MODULE SessionsProofs ---------------------------
(***************************************************************************)
(* Theorems about Sessions, for every set of sign-ins, tokens and requests *)
(* at work at the same time.                                               *)
(***************************************************************************)
EXTENDS Sessions, TLAPS

USE SessionAssumption

\* A token belongs to a family that signed in, and to its session or to none.
TokensFiled ==
    \A t \in Token :
        /\ token[t].status = "none" => token[t].family = NoSession /\ token[t].session = NoSession
        /\ token[t].status # "none" => session[token[t].family] # "none"
        /\ token[t].session \in {NoSession, token[t].family}

\* A request works on a family that signed in, with tokens that were stored.
RequestsFiled ==
    \A c \in Request : req[c].step # "idle" =>
        /\ req[c].family \in Session
        /\ session[req[c].family] # "none"
        /\ req[c].step = "revoke" => req[c].old \in Token /\ token[req[c].old].status # "none"
        /\ req[c].step = "replace" => req[c].new \in Token /\ token[req[c].new].status # "none"

\* A family has one request that may store a token or one live token; the token
\* a request is about to revoke counts with the request.
OneHolder ==
    \A f \in Session \ overlapped :
        /\ \A t, u \in Live(f) : t = u
        /\ \A c, d \in Storing(f) : c = d
        /\ \A c \in Storing(f), t \in Live(f) : req[c].step = "revoke" /\ req[c].old = t

\* A sign-in whose session is already revoked overlapped the revocation.
LateSignIn ==
    \A c \in Request :
        req[c].step = "sign_in" /\ session[req[c].family] = "revoked" => req[c].family \in overlapped

StolenDead == \A f \in stolen : Dead(f)

IInv ==
    /\ TypeOK
    /\ TokensFiled
    /\ RequestsFiled
    /\ OneHolder
    /\ LateSignIn
    /\ BoundTokenFollowsSession
    /\ StolenDead

-----------------------------------------------------------------------------
(* The row a sign-in or a rotation stores.                                 *)

LEMMA RowType ==
    ASSUME NEW f \in Session, NEW s \in Session \cup {NoSession}
    PROVE  /\ Row(f, s) \in TokenRow
           /\ Row(f, s).status = "live" /\ Row(f, s).family = f /\ Row(f, s).session = s
  BY DEF Row, TokenRow

LEMMA StoreType ==
    ASSUME token \in [Token -> TokenRow], NEW t \in Token,
           NEW f \in Session, NEW s \in Session \cup {NoSession}, Store(t, Row(f, s))
    PROVE  /\ token' \in [Token -> TokenRow]
           /\ token'[t] = Row(f, s)
           /\ \A u \in Token \ {t} : token'[u] = token[u]
  BY RowType DEF Store

LEMMA RevokeTokensType ==
    ASSUME token \in [Token -> TokenRow], NEW S \in SUBSET Token, RevokeTokens(S)
    PROVE  /\ token' \in [Token -> TokenRow]
           /\ \A u \in Token \ S : token'[u] = token[u]
           /\ \A u \in S : /\ token'[u].status = "revoked"
                           /\ token'[u].family = token[u].family
                           /\ token'[u].session = token[u].session
  BY DEF RevokeTokens, TokenRow

\* A request moves on; the others keep what they hold.
LEMMA ReqMoves ==
    ASSUME req \in [Request -> ReqState], NEW c \in Request, NEW row \in ReqState,
           req' = [req EXCEPT ![c] = row]
    PROVE  /\ req' \in [Request -> ReqState]
           /\ req'[c] = row
           /\ \A d \in Request \ {c} : req'[d] = req[d]
  OBVIOUS

LEMMA IdleType == Idle \in ReqState /\ Idle.step = "idle"
  BY DEF Idle, ReqState

-----------------------------------------------------------------------------
(* What each step does to the requests and to the tokens.                  *)

\* Tokens only grow old: they keep their family and session, and none comes to life.
Ages ==
    \A t \in Token : /\ token'[t].family = token[t].family
                     /\ token'[t].session = token[t].session
                     /\ token'[t].status = "none" <=> token[t].status = "none"
                     /\ token'[t].status = "live" => token[t].status = "live"

\* Every request goes on, gives up, or is done with storing tokens.
Retires ==
    \A c \in Request :
        \/ req'[c] = req[c]
        \/ req'[c].step = "idle"
        \/ /\ req'[c].step \in {"theft", "replace"}
           /\ req'[c].family \in Session
           /\ session[req'[c].family] # "none"
           /\ req'[c].step = "replace" => req'[c].new \in Token /\ token'[req'[c].new].status # "none"

\* Sessions end, and the tokens tied to a session end with it.
Ends ==
    /\ \A s \in Session : session'[s] # session[s] => session[s] = "active" /\ session'[s] = "revoked"
    /\ overlapped \subseteq overlapped'
    /\ \A s \in Session : session'[s] # session[s] =>
          /\ \A t \in Token : token'[t].session = s => token'[t].status # "live"
          /\ \A c \in Request : req'[c].step = "sign_in" /\ req'[c].family = s => s \in overlapped'

LEMMA RetiringStep ==
    ASSUME IInv, TypeOK', Ages, Retires, Ends,
           \A f \in stolen' \ stolen : Dead(f)'
    PROVE  IInv' /\ \A f \in Session : Dead(f) => Dead(f)'
<1> USE DEF IInv
<1>1. TokensFiled'
  BY DEF TokensFiled, Ages, Ends, TypeOK, TokenRow
<1>2. RequestsFiled'
  BY DEF RequestsFiled, Retires, Ends, Ages, TypeOK, ReqState
<1>3. \A f \in Session : Live(f)' \subseteq Live(f) /\ Storing(f)' \subseteq Storing(f)
  BY DEF Live, Storing, Ages, Retires
<1>4. OneHolder'
  <2> SUFFICES ASSUME NEW f \in Session, f \notin overlapped'
               PROVE  /\ \A t, u \in Live(f)' : t = u
                      /\ \A c, d \in Storing(f)' : c = d
                      /\ \A c \in Storing(f)', t \in Live(f)' :
                            req'[c].step = "revoke" /\ req'[c].old = t
    BY DEF OneHolder
  <2>1. f \in Session \ overlapped
    BY DEF Ends
  <2>2. \A c \in Storing(f)' : req'[c] = req[c]
    BY DEF Storing, Retires
  <2>3. QED
    BY <1>3, <2>1, <2>2 DEF OneHolder
<1>5. LateSignIn'
  BY DEF LateSignIn, Retires, Ends, RequestsFiled
<1>6. BoundTokenFollowsSession'
  BY DEF BoundTokenFollowsSession, Ages, Ends, TypeOK, TokenRow
<1>7. \A f \in Session : Dead(f) => Dead(f)'
  BY <1>3 DEF Dead, Ends
<1>8. StolenDead'
  BY <1>7 DEF StolenDead, TypeOK
<1>9. QED
  BY <1>1, <1>2, <1>4, <1>5, <1>6, <1>7, <1>8

-----------------------------------------------------------------------------
(* The steps that retire tokens and requests.                              *)

\* What the lemmas of this section conclude.
Kept == IInv' /\ \A f \in Session : Dead(f) => Dead(f)'

LEMMA RevokeFamilyStep ==
    ASSUME IInv, NEW c \in Request, RevokeFamily(c)
    PROVE  Kept
<1> USE DEF IInv
<1>1. PICK f \in Session : f = req[c].family /\ session[f] # "none"
  BY DEF RevokeFamily, RequestsFiled
<1> DEFINE S == {t \in Token : token[t].family = f}
<1>2. /\ token' \in [Token -> TokenRow]
      /\ \A u \in Token \ S : token'[u] = token[u]
      /\ \A u \in S : /\ token'[u].status = "revoked"
                      /\ token'[u].family = token[u].family
                      /\ token'[u].session = token[u].session
  <2>1. S \in SUBSET Token /\ RevokeTokens(S)
    BY <1>1 DEF RevokeFamily
  <2>2. token \in [Token -> TokenRow]
    BY DEF TypeOK
  <2> HIDE DEF S
  <2>3. QED
    BY <2>1, <2>2, RevokeTokensType
<1>3. \A u \in S : token[u].status # "none"
  BY <1>1 DEF TokensFiled
<1>4. /\ req' \in [Request -> ReqState]
      /\ req'[c] = Idle
      /\ \A d \in Request \ {c} : req'[d] = req[d]
  BY IdleType, ReqMoves DEF RevokeFamily, TypeOK
<1>5. Ages
  BY <1>2, <1>3 DEF Ages
<1>6. Retires /\ Ends
  BY <1>4, IdleType DEF Retires, Ends, RevokeFamily
<1>7. stolen' \subseteq stolen \cup {f} /\ (f \in stolen' \ stolen => Storing(f) = {})
  BY <1>1 DEF RevokeFamily
<1>8. TypeOK'
  <2>1. \A t \in Token : token'[t].status # "none" => token'[t].family # NoSession
    BY <1>5 DEF TypeOK, Ages
  <2>2. issued' \subseteq {t \in Token : token'[t].status # "none"}
    BY <1>5 DEF TypeOK, Ages, RevokeFamily
  <2>3. QED
    BY <1>1, <1>2, <1>4, <1>7, <2>1, <2>2 DEF TypeOK, RevokeFamily
<1>9. \A g \in stolen' \ stolen : Dead(g)'
  <2>1. Live(f)' = {}
    BY <1>2 DEF Live
  <2>2. Storing(f) = {} => Storing(f)' = {}
    BY <1>4, IdleType DEF Storing
  <2>3. session' = session
    BY DEF RevokeFamily
  <2>4. QED
    BY <1>1, <1>7, <2>1, <2>2, <2>3 DEF Dead
<1>10. QED
  BY <1>5, <1>6, <1>8, <1>9, RetiringStep DEF Kept

LEMMA RevokingAges ==
    ASSUME TypeOK, NEW S \in SUBSET Token, RevokeTokens(S),
           \A t \in S : token[t].status # "none"
    PROVE  /\ token' \in [Token -> TokenRow]
           /\ Ages
           /\ \A t \in S : token'[t].status = "revoked"
           /\ \A t \in Token : token'[t].status # "none" => token'[t].family # NoSession
           /\ issued \subseteq {t \in Token : token'[t].status # "none"}
<1>1. /\ token' \in [Token -> TokenRow]
      /\ \A u \in Token \ S : token'[u] = token[u]
      /\ \A u \in S : /\ token'[u].status = "revoked"
                      /\ token'[u].family = token[u].family
                      /\ token'[u].session = token[u].session
  BY RevokeTokensType DEF TypeOK
<1>2. Ages
  BY <1>1 DEF Ages
<1>3. QED
  BY <1>1, <1>2 DEF Ages, TypeOK

LEMMA LogoutStep ==
    ASSUME IInv, NEW t \in Token, Logout(t)
    PROVE  Kept
<1> USE DEF IInv
<1>1. RevokeTokens({t}) /\ token[t].status # "none"
  BY DEF Logout, TypeOK
<1>2. Ages /\ TypeOK'
  BY <1>1, RevokingAges DEF Logout, TypeOK
<1>3. Retires /\ Ends
  BY DEF Logout, Retires, Ends
<1>4. QED
  BY <1>2, <1>3, RetiringStep DEF Kept, Logout

LEMMA RevokeStep ==
    ASSUME IInv, NEW s \in Session, Revoke(s)
    PROVE  Kept
<1> USE DEF IInv
<1> DEFINE S == {t \in Token : token[t].session = s /\ token[t].status = "live"}
<1>1. RevokeTokens(S) /\ S \in SUBSET Token /\ \A t \in S : token[t].status # "none"
  BY DEF Revoke
<1>2. \A t \in Token : token[t].session = s /\ token[t].status = "live" => t \in S
  OBVIOUS
<1> HIDE DEF S
<1>3. /\ token' \in [Token -> TokenRow]
      /\ Ages
      /\ \A t \in S : token'[t].status = "revoked"
      /\ \A t \in Token : token'[t].status # "none" => token'[t].family # NoSession
      /\ issued \subseteq {t \in Token : token'[t].status # "none"}
  BY <1>1, RevokingAges
<1>4. session' = [session EXCEPT ![s] = "revoked"] /\ session[s] = "active"
  BY DEF Revoke
<1>5. TypeOK'
  BY <1>3, <1>4 DEF Revoke, TypeOK, SigningIn
<1>6. Retires
  BY DEF Retires, Revoke
<1>7. Ends
  <2>1. \A t \in Token : token'[t].session = s => token'[t].status # "live"
    BY <1>2, <1>3 DEF Ages
  <2>2. \A c \in Request : req'[c].step = "sign_in" /\ req'[c].family = s => s \in overlapped'
    BY DEF Revoke, SigningIn
  <2>3. overlapped \subseteq overlapped'
    BY DEF Revoke
  <2>4. QED
    BY <1>4, <2>1, <2>2, <2>3 DEF Ends, TypeOK
<1>8. QED
  BY <1>3, <1>5, <1>6, <1>7, RetiringStep DEF Kept, Revoke

LEMMA RevokeAllStep ==
    ASSUME IInv, RevokeAll
    PROVE  Kept
<1> USE DEF IInv
<1> DEFINE S == {t \in Token : token[t].status = "live"}
<1>1. RevokeTokens(S) /\ S \in SUBSET Token /\ \A t \in S : token[t].status # "none"
  BY DEF RevokeAll
<1>2. \A t \in Token : token[t].status = "live" => t \in S
  OBVIOUS
<1> HIDE DEF S
<1>3. /\ token' \in [Token -> TokenRow]
      /\ Ages
      /\ \A t \in S : token'[t].status = "revoked"
      /\ \A t \in Token : token'[t].status # "none" => token'[t].family # NoSession
      /\ issued \subseteq {t \in Token : token'[t].status # "none"}
  BY <1>1, RevokingAges
<1>4. session' = [s \in Session |-> IF session[s] = "active" THEN "revoked" ELSE session[s]]
  BY DEF RevokeAll
<1>5. TypeOK'
  BY <1>3, <1>4 DEF RevokeAll, TypeOK, SigningIn
<1>6. Retires
  BY DEF Retires, RevokeAll
<1>7. Ends
  <2>1. \A t \in Token : token'[t].status # "live"
    BY <1>2, <1>3 DEF Ages
  <2>2. \A c \in Request, s \in Session :
           req'[c].step = "sign_in" /\ req'[c].family = s => s \in overlapped'
    BY DEF RevokeAll, SigningIn
  <2>3. overlapped \subseteq overlapped'
    BY DEF RevokeAll
  <2>4. QED
    BY <1>4, <2>1, <2>2, <2>3 DEF Ends, TypeOK
<1>8. QED
  BY <1>3, <1>5, <1>6, <1>7, RetiringStep DEF Kept, RevokeAll

LEMMA SetReplacedByStep ==
    ASSUME IInv, NEW c \in Request, SetReplacedBy(c)
    PROVE  Kept
<1> USE DEF IInv
<1>1. req[c] \in ReqState /\ req[c].new \in Token /\ token[req[c].new].status # "none"
  BY DEF SetReplacedBy, RequestsFiled, TypeOK
<1>2. token' \in [Token -> TokenRow] /\ Ages
  <2>1. PICK n \in Token : n = req[c].new
    BY <1>1
  <2>2. PICK o \in Token \cup {NoToken} : o = req[c].old
    BY <1>1 DEF ReqState
  <2>3. token' = [token EXCEPT ![o].replaced_by = n]
    BY <2>1, <2>2 DEF SetReplacedBy
  <2>4. token \in [Token -> TokenRow]
    BY DEF TypeOK
  <2>5. QED
    BY <2>3, <2>4 DEF Ages, TokenRow
<1>3. /\ req' \in [Request -> ReqState]
      /\ req'[c] = Idle
      /\ \A d \in Request \ {c} : req'[d] = req[d]
  BY IdleType, ReqMoves DEF SetReplacedBy, TypeOK
<1>4. Retires /\ Ends
  BY <1>3, IdleType DEF Retires, Ends, SetReplacedBy
<1>5. issued' \subseteq {t \in Token : token'[t].status # "none"}
  BY <1>1, <1>2 DEF SetReplacedBy, Respond, TypeOK, Ages
<1>6. TypeOK'
  BY <1>2, <1>3, <1>5 DEF SetReplacedBy, TypeOK, Ages
<1>7. QED
  BY <1>2, <1>4, <1>6, RetiringStep DEF Kept, SetReplacedBy

LEMMA LostStep ==
    ASSUME IInv, NEW c \in Request, Lost(c)
    PROVE  Kept
<1> USE DEF IInv
<1>1. /\ req' \in [Request -> ReqState]
      /\ req'[c] = Idle
      /\ \A d \in Request \ {c} : req'[d] = req[d]
  BY IdleType, ReqMoves DEF Lost, TypeOK
<1>2. TypeOK' /\ Ages /\ Retires /\ Ends
  BY <1>1, IdleType DEF Ages, Retires, Ends, Lost, TypeOK
<1>3. QED
  BY <1>2, RetiringStep DEF Kept, Lost

-----------------------------------------------------------------------------
(* The steps after which a request may store a token, or has stored one.   *)

LEMMA RefreshTokenStep ==
    ASSUME IInv, NEW c \in Request, NEW t \in Token, RefreshToken(c, t)
    PROVE  Kept
<1> USE DEF IInv
<1>1. PICK f \in Session : f = token[t].family /\ session[f] # "none"
  BY DEF RefreshToken, TypeOK, TokensFiled, TokenRow
<1>2. token[t].status \in {"live", "revoked"}
  BY DEF RefreshToken, TypeOK, TokenRow
<1> DEFINE row == [step |-> IF token[t].status = "revoked" THEN "theft" ELSE "revoke",
                   family |-> token[t].family, old |-> t, new |-> NoToken]
<1>3. row \in ReqState
  BY <1>1 DEF ReqState
<1>4. req' = [req EXCEPT ![c] = row] /\ req[c].step = "idle"
  BY DEF RefreshToken
<1>5. /\ row.step = IF token[t].status = "revoked" THEN "theft" ELSE "revoke"
      /\ row.family = f /\ row.old = t
  BY <1>1
<1> HIDE DEF row
<1>6. /\ req' \in [Request -> ReqState]
      /\ req'[c] = row
      /\ \A d \in Request \ {c} : req'[d] = req[d]
  BY <1>3, <1>4, ReqMoves DEF TypeOK
<1>7. /\ UNCHANGED <<session, token, issued, stolen>>
      /\ overlapped' = IF \E d \in Request : req[d].step = "revoke" /\ req[d].old = t
                       THEN overlapped \cup {f} ELSE overlapped
  BY <1>1 DEF RefreshToken
<1>8. TypeOK'
  BY <1>6, <1>7 DEF TypeOK
<1>9. CASE token[t].status = "revoked"
  <2>1. Retires /\ Ages /\ Ends
    BY <1>1, <1>5, <1>6, <1>7, <1>9 DEF Retires, Ages, Ends
  <2>2. QED
    BY <1>7, <1>8, <2>1, RetiringStep DEF Kept
<1>10. CASE token[t].status = "live"
  <2>1. TokensFiled' /\ BoundTokenFollowsSession'
    BY <1>7 DEF TokensFiled, BoundTokenFollowsSession
  <2>2. RequestsFiled' /\ LateSignIn'
    BY <1>1, <1>5, <1>6, <1>7, <1>10 DEF RequestsFiled, LateSignIn
  <2>3. \A g \in Session : Live(g)' = Live(g) /\ (g # f => Storing(g)' = Storing(g))
                         /\ Storing(g)' \subseteq Storing(g) \cup {c}
    BY <1>4, <1>5, <1>6, <1>7 DEF Live, Storing
  <2>4. t \in Live(f)
    BY <1>1, <1>10 DEF Live
  <2>5. OneHolder'
    <3> SUFFICES ASSUME NEW g \in Session, g \notin overlapped'
                 PROVE  /\ \A u, v \in Live(g)' : u = v
                        /\ \A b, d \in Storing(g)' : b = d
                        /\ \A d \in Storing(g)', u \in Live(g)' :
                              req'[d].step = "revoke" /\ req'[d].old = u
      BY DEF OneHolder
    <3>1. g \in Session \ overlapped
      BY <1>7
    <3>2. CASE g # f
      <4>1. \A d \in Storing(g) : req'[d] = req[d]
        BY <1>4, <1>6 DEF Storing
      <4>2. QED
        BY <2>3, <3>1, <3>2, <4>1 DEF OneHolder
    <3>3. CASE g = f
      <4>1. Storing(f) = {}
        BY <1>7, <2>4, <3>1, <3>3 DEF OneHolder, Storing
      <4>2. QED
        BY <1>5, <1>6, <1>10, <2>3, <2>4, <3>1, <3>3, <4>1 DEF OneHolder
    <3>4. QED
      BY <3>2, <3>3
  <2>6. \A g \in Session : Dead(g) => Dead(g)'
    BY <1>7, <2>3, <2>4 DEF Dead
  <2>7. StolenDead'
    BY <1>7, <2>6 DEF StolenDead, TypeOK
  <2>8. QED
    BY <1>8, <2>1, <2>2, <2>5, <2>6, <2>7 DEF Kept
<1>11. QED
  BY <1>2, <1>9, <1>10

LEMMA SignInStarts ==
    ASSUME IInv, NEW c \in Request, NEW s \in Session, SignIn(c, s)
    PROVE  Kept
<1> USE DEF IInv
<1> DEFINE row == [Idle EXCEPT !.step = "sign_in", !.family = s]
<1>1. row \in ReqState /\ row.step = "sign_in" /\ row.family = s
  BY DEF Idle, ReqState
<1>2. req' = [req EXCEPT ![c] = row] /\ req[c].step = "idle"
  BY DEF SignIn
<1> HIDE DEF row
<1>3. /\ req' \in [Request -> ReqState]
      /\ req'[c] = row
      /\ \A d \in Request \ {c} : req'[d] = req[d]
  BY <1>1, <1>2, ReqMoves DEF TypeOK
<1>4. /\ session[s] = "none" /\ session' = [session EXCEPT ![s] = "active"]
      /\ UNCHANGED <<token, issued, overlapped, stolen>>
  BY DEF SignIn
<1>5. TypeOK'
  BY <1>3, <1>4 DEF TypeOK
<1>6. Live(s) = {} /\ Storing(s) = {}
  BY <1>4 DEF Live, Storing, TokensFiled, RequestsFiled
<1>7. \A g \in Session : Live(g)' = Live(g) /\ (g # s => Storing(g)' = Storing(g))
                       /\ Storing(g)' \subseteq Storing(g) \cup {c}
  BY <1>1, <1>2, <1>3, <1>4 DEF Live, Storing
<1>8. TokensFiled' /\ BoundTokenFollowsSession'
  BY <1>4 DEF TokensFiled, BoundTokenFollowsSession, TypeOK, TokenRow
<1>9. RequestsFiled' /\ LateSignIn'
  BY <1>1, <1>3, <1>4 DEF RequestsFiled, LateSignIn, TypeOK
<1>10. OneHolder'
  <2> SUFFICES ASSUME NEW g \in Session, g \notin overlapped
               PROVE  /\ \A u, v \in Live(g)' : u = v
                      /\ \A b, d \in Storing(g)' : b = d
                      /\ \A d \in Storing(g)', u \in Live(g)' :
                            req'[d].step = "revoke" /\ req'[d].old = u
    BY <1>4 DEF OneHolder
  <2>1. \A d \in Storing(g) : req'[d] = req[d]
    BY <1>2, <1>3 DEF Storing
  <2>2. CASE g # s
    BY <1>7, <2>1, <2>2 DEF OneHolder
  <2>3. CASE g = s
    BY <1>6, <1>7, <2>3
  <2>4. QED
    BY <2>2, <2>3
<1>11. \A g \in Session : Dead(g) => Dead(g)'
  BY <1>4, <1>7 DEF Dead
<1>12. StolenDead'
  BY <1>4, <1>11 DEF StolenDead, TypeOK
<1>13. QED
  BY <1>5, <1>8, <1>9, <1>10, <1>11, <1>12 DEF Kept

\* A request goes on to store its token: the token it replaces is revoked, or the
\* statement failed and the family is marked.
LEMMA GoesOnToInsert ==
    ASSUME IInv, NEW c \in Request, NEW f \in Session,
           req[c].step = "revoke", req[c].family = f,
           req' = [req EXCEPT ![c].step = "insert"],
           session' = session, stolen' = stolen, issued' = issued,
           token' \in [Token -> TokenRow], Ages,
           overlapped' \in {overlapped, overlapped \cup {f}},
           f \notin overlapped' => req[c].old \notin Live(f)'
    PROVE  Kept
<1> USE DEF IInv
<1> DEFINE row == [req[c] EXCEPT !.step = "insert"]
<1>1. /\ row \in ReqState /\ row.step = "insert" /\ row.family = f
      /\ req' = [req EXCEPT ![c] = row]
  BY DEF ReqState, TypeOK
<1> HIDE DEF row
<1>2. /\ req' \in [Request -> ReqState]
      /\ req'[c] = row
      /\ \A d \in Request \ {c} : req'[d] = req[d]
  BY <1>1, ReqMoves DEF TypeOK
<1>3. TypeOK'
  BY <1>2 DEF TypeOK, Ages
<1>4. TokensFiled' /\ BoundTokenFollowsSession'
  BY DEF TokensFiled, BoundTokenFollowsSession, Ages, TypeOK, TokenRow
<1>5. RequestsFiled' /\ LateSignIn'
  BY <1>1, <1>2 DEF RequestsFiled, LateSignIn, Ages, TypeOK, ReqState
<1>6. \A g \in Session : Live(g)' \subseteq Live(g) /\ Storing(g)' = Storing(g)
  BY <1>1, <1>2 DEF Live, Storing, Ages
<1>7. OneHolder'
  <2> SUFFICES ASSUME NEW g \in Session, g \notin overlapped'
               PROVE  /\ \A u, v \in Live(g)' : u = v
                      /\ \A b, d \in Storing(g)' : b = d
                      /\ \A d \in Storing(g)', u \in Live(g)' :
                            req'[d].step = "revoke" /\ req'[d].old = u
    BY DEF OneHolder
  <2>1. g \in Session \ overlapped
    OBVIOUS
  <2>2. CASE g = f
    <3>1. c \in Storing(f)
      BY DEF Storing
    <3>2. \A t \in Live(f) : t = req[c].old
      BY <2>1, <2>2, <3>1 DEF OneHolder
    <3>3. Live(f)' = {}
      BY <1>6, <2>2, <3>2
    <3>4. QED
      BY <1>6, <2>1, <2>2, <3>3 DEF OneHolder
  <2>3. CASE g # f
    <3>1. \A d \in Storing(g) : req'[d] = req[d]
      BY <1>2, <2>3 DEF Storing
    <3>2. /\ \A u, v \in Live(g) : u = v
          /\ \A b, d \in Storing(g) : b = d
          /\ \A d \in Storing(g), u \in Live(g) : req[d].step = "revoke" /\ req[d].old = u
      BY <2>1 DEF OneHolder
    <3>3. Live(g)' \subseteq Live(g) /\ Storing(g)' = Storing(g)
      BY <1>6
    <3>4. QED
      BY <3>1, <3>2, <3>3
  <2>4. QED
    BY <2>2, <2>3
<1>8. \A g \in Session : Dead(g) => Dead(g)'
  BY <1>6 DEF Dead
<1>9. StolenDead'
  BY <1>8 DEF StolenDead, TypeOK
<1>10. QED
  BY <1>3, <1>4, <1>5, <1>7, <1>8, <1>9 DEF Kept

LEMMA RevokeOldStep ==
    ASSUME IInv, NEW c \in Request, RevokeOld(c)
    PROVE  Kept
<1> USE DEF IInv
<1>1. PICK f \in Session : f = req[c].family
  BY DEF RevokeOld, RequestsFiled
<1>2. PICK t \in Token : t = req[c].old /\ token[t].status # "none"
  BY DEF RevokeOld, RequestsFiled
<1>3. RevokeTokens({t})
  BY <1>2 DEF RevokeOld
<1>4. token' \in [Token -> TokenRow] /\ Ages /\ token'[t].status = "revoked"
  <2>1. /\ token' \in [Token -> TokenRow]
        /\ Ages
        /\ \A u \in {t} : token'[u].status = "revoked"
    <3>1. \A u \in {t} : token[u].status # "none"
      BY <1>2
    <3>2. {t} \in SUBSET Token
      OBVIOUS
    <3>3. QED
      BY <1>3, <3>1, <3>2, RevokingAges
  <2>2. QED
    BY <2>1
<1>5. req[c].old \notin Live(f)'
  BY <1>2, <1>4 DEF Live
<1>6. QED
  BY <1>1, <1>4, <1>5, GoesOnToInsert DEF RevokeOld

LEMMA StatementFailsStep ==
    ASSUME IInv, NEW c \in Request, StatementFails(c)
    PROVE  Kept
<1> USE DEF IInv
<1>1. Ages /\ UNCHANGED <<session, token, stolen>>
  BY DEF StatementFails, Ages
<1>2. PICK f \in Session : f = req[c].family
  BY DEF StatementFails, RequestsFiled
<1>3. CASE req[c].step = "revoke"
  <2>1. /\ req' = [req EXCEPT ![c].step = "insert"]
        /\ overlapped' = overlapped \cup {f}
        /\ issued' = issued
    BY <1>2, <1>3 DEF StatementFails
  <2>2. QED
    BY <1>1, <1>2, <1>3, <2>1, GoesOnToInsert DEF TypeOK
<1>4. CASE req[c].step # "revoke"
  <2>1. req' = [req EXCEPT ![c] = Idle] /\ UNCHANGED overlapped
    BY <1>4 DEF StatementFails
  <2>2. /\ req' \in [Request -> ReqState]
        /\ req'[c] = Idle
        /\ \A d \in Request \ {c} : req'[d] = req[d]
    BY <2>1, IdleType, ReqMoves DEF TypeOK
  <2>3. Retires /\ Ends
    BY <1>1, <2>1, <2>2, IdleType DEF Retires, Ends
  <2>4. issued' \subseteq {t \in Token : token'[t].status # "none"}
    BY <1>1, <1>4 DEF StatementFails, Respond, TypeOK, RequestsFiled
  <2>5. TypeOK'
    BY <1>1, <2>1, <2>2, <2>4 DEF TypeOK
  <2>6. QED
    BY <1>1, <2>3, <2>5, RetiringStep DEF Kept
<1>5. QED
  BY <1>3, <1>4

\* A row is stored in a family that has no other holder of a live token, unless
\* the family is marked; the request that stores it is done.
LEMMA TokenStored ==
    ASSUME IInv, NEW t \in Token, NEW f \in Session, NEW s \in {NoSession, f},
           Fresh(t), Store(t, Row(f, s)),
           session' \in [Session -> {"none", "active", "revoked"}],
           \A g \in Session : session'[g] # session[g] =>
                                g = f /\ session[g] = "none" /\ session'[g] = "active",
           session'[f] # "none",
           s = f /\ session'[f] = "revoked" => f \in overlapped,
           req' \in [Request -> ReqState],
           \A c \in Request :
              \/ req'[c] = req[c]
              \/ req'[c].step = "idle"
              \/ req'[c].step = "replace" /\ req'[c].family = f /\ req'[c].new = t,
           issued' \in {issued, issued \cup {t}}, overlapped' = overlapped, stolen' = stolen,
           Storing(f) # {} \/ session[f] = "none",
           f \notin overlapped => Live(f) = {} /\ Storing(f)' = {}
    PROVE  Kept
<1> USE DEF IInv
<1>1. /\ token' \in [Token -> TokenRow]
      /\ token'[t].status = "live" /\ token'[t].family = f /\ token'[t].session = s
      /\ \A u \in Token \ {t} : token'[u] = token[u]
  BY StoreType, RowType DEF TypeOK
<1>2. token[t].status = "none"
  BY DEF Fresh
<1>3. TypeOK'
  BY <1>1, <1>2 DEF TypeOK
<1>4. TokensFiled'
  <2>1. \A g \in Session : session[g] # "none" => session'[g] # "none"
    OBVIOUS
  <2>2. \A u \in Token \ {t} : token[u].status # "none" => token[u].family \in Session
    BY DEF TypeOK, TokenRow
  <2>3. QED
    BY <1>1, <2>1, <2>2 DEF TokensFiled
<1>5. RequestsFiled'
  BY <1>1, <1>2 DEF RequestsFiled, TypeOK
<1>6. LateSignIn'
  BY DEF LateSignIn, RequestsFiled
<1>7. BoundTokenFollowsSession'
  BY <1>1 DEF BoundTokenFollowsSession, TokensFiled, TypeOK, TokenRow
<1>8. \A g \in Session \ {f} : Live(g)' = Live(g) /\ Storing(g)' \subseteq Storing(g)
  BY <1>1, <1>2 DEF Live, Storing, TokensFiled
<1>9. OneHolder'
  <2> SUFFICES ASSUME NEW g \in Session, g \notin overlapped
               PROVE  /\ \A u, v \in Live(g)' : u = v
                      /\ \A b, d \in Storing(g)' : b = d
                      /\ \A d \in Storing(g)', u \in Live(g)' :
                            req'[d].step = "revoke" /\ req'[d].old = u
    BY DEF OneHolder
  <2>1. CASE g # f
    <3>1. \A d \in Storing(g)' : req'[d] = req[d]
      BY <2>1 DEF Storing
    <3>2. QED
      BY <1>8, <2>1, <3>1 DEF OneHolder
  <2>2. CASE g = f
    <3>1. Live(f)' = {t}
      BY <1>1, <2>2 DEF Live
    <3>2. QED
      BY <2>2, <3>1
  <2>3. QED
    BY <2>1, <2>2
<1>10. \A g \in Session : Dead(g) => Dead(g)'
  BY <1>8 DEF Dead
<1>11. StolenDead'
  BY <1>10 DEF StolenDead, TypeOK
<1>12. QED
  BY <1>3, <1>4, <1>5, <1>6, <1>7, <1>9, <1>10, <1>11 DEF Kept

LEMMA RegisterStep ==
    ASSUME IInv, NEW s \in Session, NEW t \in Token, Register(s, t)
    PROVE  Kept
<1> USE DEF IInv
<1>1. session[s] = "none" /\ session' = [session EXCEPT ![s] = "active"]
  BY DEF Register
<1>2. Live(s) = {} /\ Storing(s) = {}
  BY <1>1 DEF Live, Storing, TokensFiled, RequestsFiled
<1>3. /\ session' \in [Session -> {"none", "active", "revoked"}]
      /\ session'[s] = "active"
      /\ \A g \in Session : session'[g] # session[g] => g = s
  BY <1>1 DEF TypeOK
<1>4. UNCHANGED <<req, overlapped, stolen>> /\ Storing(s)' = Storing(s)
  BY DEF Register, Storing
<1>5. Fresh(t) /\ Store(t, Row(s, s)) /\ issued' \in {issued, issued \cup {t}}
  BY DEF Register, Respond
<1>6. req' \in [Request -> ReqState]
  BY <1>4 DEF TypeOK
<1>7. QED
  BY <1>1, <1>2, <1>3, <1>4, <1>5, <1>6, TokenStored

LEMMA StoreFirstStep ==
    ASSUME IInv, NEW c \in Request, StoreFirst(c)
    PROVE  Kept
<1> USE DEF IInv
<1>1. PICK s \in Session : s = req[c].family /\ session[s] # "none"
  BY DEF StoreFirst, RequestsFiled
<1>2. PICK t \in Token : Fresh(t) /\ Store(t, Row(s, s)) /\ Respond(t)
  BY <1>1 DEF StoreFirst
<1>3. /\ req' \in [Request -> ReqState]
      /\ req'[c] = Idle
      /\ \A d \in Request \ {c} : req'[d] = req[d]
  BY IdleType, ReqMoves DEF StoreFirst, TypeOK
<1>4. c \in Storing(s) /\ req[c].step = "sign_in"
  BY <1>1 DEF Storing, StoreFirst
<1>5. s \notin overlapped => Live(s) = {} /\ Storing(s)' = {}
  <2>1. Storing(s)' \subseteq Storing(s) \ {c}
    BY <1>3, IdleType DEF Storing
  <2>2. s \notin overlapped => Live(s) = {} /\ Storing(s) \subseteq {c}
    BY <1>4 DEF OneHolder
  <2>3. QED
    BY <2>1, <2>2
<1>6. session[s] = "revoked" => s \in overlapped
  BY <1>1, <1>4 DEF LateSignIn
<1>7. UNCHANGED <<session, overlapped, stolen>>
  BY DEF StoreFirst
<1>8. issued' \in {issued, issued \cup {t}}
  BY <1>2 DEF Respond
<1>9. session' \in [Session -> {"none", "active", "revoked"}]
  BY <1>7 DEF TypeOK
<1>10. QED
  BY <1>1, <1>2, <1>3, <1>4, <1>5, <1>6, <1>7, <1>8, <1>9, IdleType, TokenStored

LEMMA StoreNewStep ==
    ASSUME IInv, NEW c \in Request, StoreNew(c)
    PROVE  Kept
<1> USE DEF IInv
<1>1. PICK f \in Session : f = req[c].family /\ session[f] # "none"
  BY DEF StoreNew, RequestsFiled
<1>2. PICK t \in Token :
        /\ Fresh(t)
        /\ Store(t, Row(f, NoSession))
        /\ req' = [req EXCEPT ![c].step = "replace", ![c].new = t]
  BY <1>1 DEF StoreNew
<1> DEFINE row == [req[c] EXCEPT !.step = "replace", !.new = t]
<1>3. /\ row \in ReqState /\ row.step = "replace" /\ row.family = f /\ row.new = t
      /\ req' = [req EXCEPT ![c] = row]
  <2>1. req[c] \in ReqState
    BY DEF TypeOK
  <2>2. row \in ReqState /\ row.step = "replace" /\ row.family = f /\ row.new = t
    BY <1>1, <2>1 DEF ReqState
  <2>3. req' = [req EXCEPT ![c] = row]
    BY <1>2, <2>1 DEF ReqState
  <2>4. QED
    BY <2>2, <2>3
<1> HIDE DEF row
<1>4. /\ req' \in [Request -> ReqState]
      /\ req'[c] = row
      /\ \A d \in Request \ {c} : req'[d] = req[d]
  BY <1>3, ReqMoves DEF TypeOK
<1>5. c \in Storing(f) /\ req[c].step = "insert"
  BY <1>1 DEF Storing, StoreNew
<1>6. f \notin overlapped => Live(f) = {} /\ Storing(f)' = {}
  <2>1. Storing(f)' \subseteq Storing(f) \ {c}
    BY <1>3, <1>4 DEF Storing
  <2>2. f \notin overlapped => Live(f) = {} /\ Storing(f) \subseteq {c}
    BY <1>5 DEF OneHolder
  <2>3. QED
    BY <2>1, <2>2
<1>7. UNCHANGED <<session, issued, overlapped, stolen>>
  BY DEF StoreNew
<1>8. session' \in [Session -> {"none", "active", "revoked"}]
  BY <1>7 DEF TypeOK
<1>9. QED
  BY <1>1, <1>2, <1>3, <1>4, <1>5, <1>6, <1>7, <1>8, TokenStored

-----------------------------------------------------------------------------
(* The invariant and what follows from it.                                 *)

LEMMA InitIInv == Init => IInv
<1> SUFFICES ASSUME Init PROVE IInv
  OBVIOUS
<1> USE DEF Init
<1>1. TypeOK
  BY IdleType DEF TypeOK, TokenRow, NoRow
<1>2. TokensFiled /\ BoundTokenFollowsSession
  BY DEF TokensFiled, BoundTokenFollowsSession, NoRow
<1>3. RequestsFiled /\ LateSignIn
  BY IdleType DEF RequestsFiled, LateSignIn
<1>4. OneHolder
  BY IdleType DEF OneHolder, Live, Storing, NoRow
<1>5. StolenDead
  BY DEF StolenDead
<1>6. QED
  BY <1>1, <1>2, <1>3, <1>4, <1>5 DEF IInv

LEMMA NextKept == IInv /\ [Next]_vars => Kept
<1> SUFFICES ASSUME IInv, [Next]_vars PROVE Kept
  OBVIOUS
<1>1. ASSUME NEW s \in Session, NEW t \in Token, Register(s, t) PROVE Kept
  BY <1>1, RegisterStep
<1>2. ASSUME NEW c \in Request, SignInStep(c) PROVE Kept
  BY <1>2, SignInStarts, StoreFirstStep DEF SignInStep
<1>3. ASSUME NEW c \in Request, Rotation(c) PROVE Kept
  BY <1>3, RefreshTokenStep, RevokeFamilyStep, RevokeOldStep, StoreNewStep, SetReplacedByStep
     DEF Rotation
<1>4. ASSUME NEW c \in Request, StatementFails(c) \/ Lost(c) PROVE Kept
  BY <1>4, StatementFailsStep, LostStep
<1>5. CASE SignOut
  BY <1>5, LogoutStep, RevokeStep, RevokeAllStep DEF SignOut
<1>6. CASE UNCHANGED vars
  <2>1. /\ TypeOK' /\ TokensFiled' /\ RequestsFiled' /\ LateSignIn' /\ BoundTokenFollowsSession'
        /\ \A f \in Session : Live(f)' = Live(f) /\ Storing(f)' = Storing(f)
    BY <1>6 DEF vars, IInv, TypeOK, TokensFiled, RequestsFiled, LateSignIn,
                BoundTokenFollowsSession, Live, Storing
  <2>2. OneHolder'
    BY <1>6, <2>1 DEF vars, IInv, OneHolder
  <2>3. \A f \in Session : Dead(f) => Dead(f)'
    BY <1>6, <2>1 DEF vars, Dead
  <2>4. StolenDead'
    BY <1>6, <2>3 DEF vars, IInv, StolenDead, TypeOK
  <2>5. QED
    BY <2>1, <2>2, <2>3, <2>4 DEF Kept, IInv
<1>7. QED
  BY <1>1, <1>2, <1>3, <1>4, <1>5, <1>6 DEF Next

\* The invariant holds in every reachable state of the handlers of auth and sessions.
THEOREM SessionInvariance == Spec => []IInv
<1>1. IInv /\ [Next]_vars => IInv'
  BY NextKept DEF Kept
<1>2. QED
  BY InitIInv, <1>1, PTL DEF Spec

\* Sessions, tokens and requests keep their types.
THEOREM SessionTypes == Spec => []TypeOK
<1>1. IInv => TypeOK
  BY DEF IInv
<1>2. QED
  BY <1>1, SessionInvariance, PTL

\* RefreshToken leaves one live token per sign-in, unless two requests presented
\* the same token at once or the UPDATE that revokes it failed.
THEOREM RotationLeavesOne == Spec => []OneLiveToken
<1>1. IInv => OneLiveToken
  BY DEF IInv, OneHolder, OneLiveToken
<1>2. QED
  BY <1>1, SessionInvariance, PTL

\* Revoke and RevokeAll end every token that carries the session, unless the
\* sign-in that stores it overlapped them.
THEOREM RevocationReachesBound == Spec => []BoundTokenFollowsSession
<1>1. IInv => BoundTokenFollowsSession
  BY DEF IInv
<1>2. QED
  BY <1>1, SessionInvariance, PTL

\* After the theft detection of RefreshToken, with nothing else under way on the
\* family, no token of the family is accepted again.
THEOREM TheftEndsFamily == Spec => []StolenIsDead
<1>1. IInv => StolenIsDead
  BY DEF IInv, StolenDead, StolenIsDead, Dead
<1>2. QED
  BY <1>1, SessionInvariance, PTL

\* No handler but a new sign-in gives a family without a live token one again.
THEOREM DeadStaysDead == Spec => NoResurrection
<1>1. IInv /\ [Next]_vars => [\A f \in Session : Dead(f) => Dead(f)']_vars
  BY NextKept DEF Kept
<1>2. QED
  BY <1>1, SessionInvariance, PTL DEF Spec, NoResurrection

-----------------------------------------------------------------------------
(* The ledger of sign-ins.                                                 *)

\* The steps other than those that sign in or store a token only age the tokens.
LEMMA RevokingOnlyAges ==
    ASSUME IInv, NEW S \in SUBSET Token, RevokeTokens(S),
           \A t \in S : token[t].status # "none"
    PROVE  Ages
  BY RevokingAges DEF IInv

LEMMA RequestAges ==
    ASSUME IInv, NEW c \in Request,
           \/ \E t \in Token : RefreshToken(c, t)
           \/ RevokeFamily(c) \/ RevokeOld(c) \/ SetReplacedBy(c)
           \/ StatementFails(c) \/ Lost(c)
    PROVE  Ages /\ session' = session
<1>1. CASE RevokeFamily(c)
  <2>1. PICK f \in Session : f = req[c].family
    BY <1>1 DEF IInv, RevokeFamily, RequestsFiled
  <2> DEFINE S == {t \in Token : token[t].family = f}
  <2>2. S \in SUBSET Token /\ RevokeTokens(S) /\ \A t \in S : token[t].status # "none"
    BY <1>1, <2>1 DEF RevokeFamily, IInv, TokensFiled
  <2> HIDE DEF S
  <2>3. QED
    BY <1>1, <2>2, RevokingOnlyAges DEF RevokeFamily
<1>2. CASE RevokeOld(c)
  <2>1. PICK t \in Token : t = req[c].old /\ token[t].status # "none"
    BY <1>2 DEF IInv, RevokeOld, RequestsFiled
  <2>2. {t} \in SUBSET Token /\ RevokeTokens({t}) /\ \A u \in {t} : token[u].status # "none"
    BY <1>2, <2>1 DEF RevokeOld
  <2>3. QED
    BY <1>2, <2>2, RevokingOnlyAges DEF RevokeOld
<1>3. CASE SetReplacedBy(c)
  <2>1. PICK o \in Token \cup {NoToken}, n \in Token :
          token' = [token EXCEPT ![o].replaced_by = n]
    BY <1>3 DEF IInv, TypeOK, ReqState, SetReplacedBy, RequestsFiled
  <2>2. token \in [Token -> TokenRow]
    BY DEF IInv, TypeOK
  <2>3. QED
    BY <1>3, <2>1, <2>2 DEF Ages, TokenRow, SetReplacedBy
<1>4. CASE (\E t \in Token : RefreshToken(c, t)) \/ StatementFails(c) \/ Lost(c)
  BY <1>4 DEF RefreshToken, StatementFails, Lost, Ages
<1>5. QED
  BY <1>1, <1>2, <1>3, <1>4

LEMMA SignOutAges ==
    ASSUME IInv, SignOut
    PROVE  Ages /\ \A s \in Session : session'[s] = "none" <=> session[s] = "none"
<1>1. ASSUME NEW t \in Token, Logout(t) PROVE Ages /\ session' = session
  <2>1. {t} \in SUBSET Token /\ RevokeTokens({t}) /\ \A u \in {t} : token[u].status # "none"
    BY <1>1 DEF Logout, IInv, TypeOK
  <2>2. QED
    BY <1>1, <2>1, RevokingOnlyAges DEF Logout
<1>2. ASSUME NEW s \in Session, Revoke(s)
      PROVE  Ages /\ \A g \in Session : session'[g] = "none" <=> session[g] = "none"
  <2> DEFINE S == {t \in Token : token[t].session = s /\ token[t].status = "live"}
  <2>1. S \in SUBSET Token /\ RevokeTokens(S) /\ \A t \in S : token[t].status # "none"
    BY <1>2 DEF Revoke
  <2> HIDE DEF S
  <2>2. \A g \in Session : session'[g] = "none" <=> session[g] = "none"
    BY <1>2 DEF Revoke, IInv, TypeOK
  <2>3. QED
    BY <2>1, <2>2, RevokingOnlyAges
<1>3. ASSUME RevokeAll
      PROVE  Ages /\ \A g \in Session : session'[g] = "none" <=> session[g] = "none"
  <2> DEFINE S == {t \in Token : token[t].status = "live"}
  <2>1. S \in SUBSET Token /\ RevokeTokens(S) /\ \A t \in S : token[t].status # "none"
    BY <1>3 DEF RevokeAll
  <2> HIDE DEF S
  <2>2. \A g \in Session : session'[g] = "none" <=> session[g] = "none"
    BY <1>3 DEF RevokeAll
  <2>3. QED
    BY <2>1, <2>2, RevokingOnlyAges
<1>4. QED
  BY <1>1, <1>2, <1>3 DEF SignOut

\* What the ledger calls a family.
FamilyState(f) ==
    IF session[f] = "none" THEN "unborn" ELSE IF Dead(f) THEN "closed" ELSE "open"

\* Ageing withdraws the tokens that stop being live and closes the families that die.
LEMMA AgingWithdraws ==
    ASSUME IInv, Kept, Ages, \A s \in Session : session'[s] = "none" <=> session[s] = "none"
    PROVE  Ledger!Next
<1> DEFINE tokens == {t \in Token : token[t].status = "live" /\ token'[t].status # "live"}
           families == {f \in Session : FamilyState(f) = "open" /\ Dead(f)'}
<1>1. tokens \in SUBSET Token /\ families \in SUBSET Session
  OBVIOUS
<1>2. \A t \in Token :
        /\ token'[t].status = IF t \in tokens THEN "revoked" ELSE token[t].status
        /\ token'[t].family = token[t].family
  <2>1. \A t \in Token : /\ token[t].status \in {"none", "live", "revoked"}
                         /\ token'[t].status \in {"none", "live", "revoked"}
    BY DEF IInv, Kept, TypeOK, TokenRow
  <2>2. QED
    BY <2>1 DEF Ages
<1>3. \A f \in Session : FamilyState(f)' = IF f \in families THEN "closed" ELSE FamilyState(f)
  BY DEF FamilyState, Kept
<1>4. \A f \in families, t \in Token : token[t].family = f => token'[t].status # "live"
  BY <1>2 DEF Dead, Live
<1>5. /\ \A t \in tokens : token[t].status = "live"
      /\ \A f \in families : FamilyState(f) = "open"
  OBVIOUS
<1> HIDE DEF tokens, families
<1>6. Ledger!Withdraw(tokens, families)
  BY <1>1, <1>2, <1>3, <1>4, <1>5 DEF Ledger!Withdraw, FamilyState
<1>7. \E ts \in SUBSET Token, fs \in SUBSET Session : Ledger!Withdraw(ts, fs)
  BY <1>1, <1>6, Zenon DEF Ledger!Withdraw
<1>8. QED
  BY <1>7 DEF Ledger!Next

\* A token joins a family with the row of a sign-in or of a rotation.
LEMMA StoreJoins ==
    ASSUME IInv, NEW t \in Token, NEW f \in Session, NEW s \in Session \cup {NoSession},
           Fresh(t), Store(t, Row(f, s))
    PROVE  /\ Ledger!Joins(t, f)
           /\ Live(f)' # {}
           /\ \A g \in Session \ {f} : Live(g)' = Live(g)
<1>1. /\ token \in [Token -> TokenRow] /\ token' \in [Token -> TokenRow]
      /\ token'[t].status = "live" /\ token'[t].family = f
      /\ \A u \in Token \ {t} : token'[u] = token[u]
  BY StoreType, RowType DEF IInv, TypeOK
<1>2. token[t].status = "none" /\ token[t].family = NoSession
  BY DEF Fresh, IInv, TokensFiled
<1>3. Ledger!Joins(t, f)
  BY <1>1, <1>2 DEF Ledger!Joins
<1>4. QED
  BY <1>1, <1>2, <1>3 DEF Live

\* The other families are as they were.
LEMMA OthersStay ==
    ASSUME NEW f \in Session,
           \A g \in Session \ {f} : /\ Live(g)' = Live(g) /\ Storing(g)' = Storing(g)
                                    /\ session'[g] = session[g]
    PROVE  \A g \in Session \ {f} : FamilyState(g)' = FamilyState(g)
  BY DEF FamilyState, Dead

LEMMA RegisterOpens ==
    ASSUME IInv, NEW s \in Session, NEW t \in Token, Register(s, t)
    PROVE  Ledger!Next
<1>1. /\ session[s] = "none" /\ session'[s] = "active" /\ UNCHANGED req
      /\ \A g \in Session \ {s} : session'[g] = session[g]
  BY DEF Register, IInv, TypeOK
<1>2. /\ Ledger!Joins(t, s) /\ Live(s)' # {}
      /\ \A g \in Session \ {s} : Live(g)' = Live(g)
  BY StoreJoins DEF Register
<1>3. \A g \in Session : Storing(g)' = Storing(g)
  BY <1>1 DEF Storing
<1>4. \A g \in Session \ {s} : FamilyState(g)' = FamilyState(g)
  BY <1>1, <1>2, <1>3, OthersStay
<1>5. FamilyState(s) = "unborn" /\ FamilyState(s)' = "open"
  BY <1>1, <1>2 DEF FamilyState, Dead
<1>6. Ledger!Open(s)
  BY <1>2, <1>4, <1>5 DEF Ledger!Open, FamilyState
<1>7. QED
  BY <1>6 DEF Ledger!Next

LEMMA SignInOpens ==
    ASSUME IInv, NEW c \in Request, NEW s \in Session, SignIn(c, s)
    PROVE  Ledger!Next
<1>1. /\ session[s] = "none" /\ session'[s] = "active" /\ UNCHANGED token
      /\ \A g \in Session \ {s} : session'[g] = session[g]
  BY DEF SignIn, IInv, TypeOK
<1> DEFINE row == [Idle EXCEPT !.step = "sign_in", !.family = s]
<1>2. row \in ReqState /\ row.step = "sign_in" /\ row.family = s
  BY DEF Idle, ReqState
<1>3. req' = [req EXCEPT ![c] = row] /\ req[c].step = "idle" /\ req \in [Request -> ReqState]
  BY DEF SignIn, IInv, TypeOK
<1> HIDE DEF row
<1>4. /\ req'[c] = row
      /\ \A d \in Request \ {c} : req'[d] = req[d]
  BY <1>2, <1>3, ReqMoves
<1>5. /\ Storing(s)' # {}
      /\ \A g \in Session \ {s} : Storing(g)' = Storing(g)
  BY <1>2, <1>3, <1>4 DEF Storing
<1>6. \A g \in Session : Live(g)' = Live(g)
  BY <1>1 DEF Live
<1>7. \A g \in Session \ {s} : FamilyState(g)' = FamilyState(g)
  BY <1>1, <1>5, <1>6, OthersStay
<1>8. FamilyState(s) = "unborn" /\ FamilyState(s)' = "open"
  BY <1>1, <1>5 DEF FamilyState, Dead
<1>9. Ledger!Open(s)
  BY <1>1, <1>7, <1>8 DEF Ledger!Open, FamilyState
<1>10. QED
  BY <1>9 DEF Ledger!Next

\* The request that stores a token keeps its family open until then; the token does after.
LEMMA StoringIssues ==
    ASSUME IInv, NEW c \in Request, NEW t \in Token, NEW f \in Session,
           NEW s \in Session \cup {NoSession},
           req[c].family = f, req[c].step \in {"sign_in", "insert"},
           Fresh(t), Store(t, Row(f, s)), session' = session,
           req'[c].step \in {"idle", "replace"},
           \A d \in Request \ {c} : req'[d] = req[d]
    PROVE  Ledger!Next
<1>1. session[f] # "none" /\ Storing(f) # {}
  BY DEF IInv, RequestsFiled, Storing
<1>2. /\ Ledger!Joins(t, f) /\ Live(f)' # {}
      /\ \A g \in Session \ {f} : Live(g)' = Live(g)
  BY StoreJoins
<1>3. \A g \in Session \ {f} : Storing(g)' = Storing(g)
  BY DEF Storing
<1>4. \A g \in Session \ {f} : FamilyState(g)' = FamilyState(g)
  BY <1>2, <1>3, OthersStay
<1>5. FamilyState(f) = "open" /\ FamilyState(f)' = "open"
  BY <1>1, <1>2 DEF FamilyState, Dead
<1>6. Ledger!Issue(t, f)
  BY <1>2, <1>4, <1>5 DEF Ledger!Issue, FamilyState
<1>7. QED
  BY <1>6 DEF Ledger!Next

LEMMA StoreFirstIssues ==
    ASSUME IInv, NEW c \in Request, StoreFirst(c)
    PROVE  Ledger!Next
<1>1. PICK s \in Session : s = req[c].family /\ session[s] # "none"
  BY DEF StoreFirst, IInv, RequestsFiled
<1>2. PICK t \in Token : Fresh(t) /\ Store(t, Row(s, s))
  BY <1>1 DEF StoreFirst
<1>3. req'[c] = Idle /\ \A d \in Request \ {c} : req'[d] = req[d]
  BY IdleType, ReqMoves DEF StoreFirst, IInv, TypeOK
<1>4. session' = session /\ req[c].step = "sign_in"
  BY DEF StoreFirst
<1>5. QED
  BY <1>1, <1>2, <1>3, <1>4, IdleType, StoringIssues

LEMMA StoreNewIssues ==
    ASSUME IInv, NEW c \in Request, StoreNew(c)
    PROVE  Ledger!Next
<1>1. PICK f \in Session : f = req[c].family /\ session[f] # "none"
  BY DEF StoreNew, IInv, RequestsFiled
<1>2. PICK t \in Token :
        /\ Fresh(t)
        /\ Store(t, Row(f, NoSession))
        /\ req' = [req EXCEPT ![c].step = "replace", ![c].new = t]
  BY <1>1 DEF StoreNew
<1>3. req'[c].step = "replace" /\ \A d \in Request \ {c} : req'[d] = req[d]
  BY <1>2 DEF IInv, TypeOK, ReqState
<1>4. session' = session /\ req[c].step = "insert"
  BY DEF StoreNew
<1>5. QED
  BY <1>1, <1>2, <1>3, <1>4, StoringIssues

LEMMA LedgerInit == Init => Ledger!Init
<1> SUFFICES ASSUME Init PROVE Ledger!Init
  OBVIOUS
<1>1. \A f \in Session : session[f] = "none"
  BY DEF Init
<1>2. \A t \in Token : token[t].status = "none" /\ token[t].family = NoSession
  BY DEF Init, NoRow
<1>3. QED
  BY <1>1, <1>2 DEF Ledger!Init

LEMMA LedgerStep == IInv /\ [Next]_vars => [Ledger!Next]_(Ledger!vars)
<1> SUFFICES ASSUME IInv, Next PROVE Ledger!Next
  <2>1. UNCHANGED vars => UNCHANGED Ledger!vars
    <3> SUFFICES ASSUME UNCHANGED vars PROVE UNCHANGED Ledger!vars
      OBVIOUS
    <3>1. UNCHANGED <<session, token, req>>
      BY DEF vars
    <3>2. \A f \in Session : Dead(f)' <=> Dead(f)
      BY <3>1 DEF Dead, Live, Storing
    <3>3. QED
      BY <3>1, <3>2 DEF Ledger!vars
  <2>2. QED
    BY <2>1
<1>1. Kept
  BY NextKept
<1>2. ASSUME NEW s \in Session, NEW t \in Token, Register(s, t) PROVE Ledger!Next
  BY <1>2, RegisterOpens
<1>3. ASSUME NEW c \in Request, SignInStep(c) PROVE Ledger!Next
  BY <1>3, SignInOpens, StoreFirstIssues DEF SignInStep
<1>4. ASSUME NEW c \in Request, Rotation(c) \/ StatementFails(c) \/ Lost(c) PROVE Ledger!Next
  BY <1>1, <1>4, RequestAges, AgingWithdraws, StoreNewIssues DEF Rotation
<1>5. CASE SignOut
  BY <1>1, <1>5, SignOutAges, AgingWithdraws
<1>6. QED
  BY <1>2, <1>3, <1>4, <1>5 DEF Next

\* The handlers of auth and sessions, whatever requests they serve at once and
\* whatever statements fail, implement the ledger of sign-ins.
THEOREM SessionsKeepLedger == Spec => LedgerSpec
<1>1. IInv /\ [Next]_vars => [Ledger!Next]_(Ledger!vars)
  BY LedgerStep
<1>2. QED
  BY <1>1, LedgerInit, SessionInvariance, PTL DEF Spec, LedgerSpec, Ledger!Spec

-----------------------------------------------------------------------------
(* What signing out achieves.                                              *)

\* A family that is dead is dead for good.
THEOREM DeadForever ==
    ASSUME NEW f \in Session
    PROVE  Spec => [](Dead(f) => []Dead(f))
<1>1. IInv /\ [Next]_vars /\ Dead(f) => Dead(f)'
  BY NextKept DEF Kept
<1>2. QED
  BY <1>1, SessionInvariance, PTL DEF Spec

\* What outlives a revoked session, when no sign-in overlapped the revocation, was
\* stored by a rotation: those rows carry no session for Revoke to find.
OnlyRotatedSurvive ==
    \A t \in Token : LET f == token[t].family
                     IN  token[t].status = "live" /\ session[f] = "revoked" /\ f \notin overlapped
                            => token[t].session = NoSession

\* Revoke misses the tokens that RefreshToken stored and no others.
THEOREM RevokeMissesRotated == Spec => []OnlyRotatedSurvive
<1>1. IInv => OnlyRotatedSurvive
  BY DEF IInv, TokensFiled, BoundTokenFollowsSession, OnlyRotatedSurvive
<1>2. QED
  BY <1>1, SessionInvariance, PTL

\* A sign-in of which every token still carries its session, and on which no
\* request is under way, ends when the session is revoked.
RevokeEnds ==
    \A s \in Session :
        /\ Revoke(s) /\ Storing(s) = {}
        /\ \A t \in Live(s) : token[t].session = s
        => Dead(s)'

\* RevokeAll ends every sign-in on which no request is under way.
RevokeAllEnds ==
    RevokeAll => \A f \in Session : session[f] # "none" /\ Storing(f) = {} => Dead(f)'

\* Signing out with the live token ends the sign-in, when no request is under way on
\* it and none ever overlapped another.
LogoutEnds ==
    \A t \in Token :
        /\ Logout(t) /\ token[t].status = "live"
        /\ token[t].family \notin overlapped /\ Storing(token[t].family) = {}
        => Dead(token[t].family)'

\* Tokens that are revoked leave a family dead that has no others and no request.
LEMMA RevokingEnds ==
    ASSUME IInv, NEW f \in Session, session'[f] # "none", UNCHANGED req, Storing(f) = {},
           NEW S \in SUBSET Token, RevokeTokens(S), Live(f) \subseteq S
    PROVE  Dead(f)'
<1>1. /\ \A u \in Token \ S : token'[u] = token[u]
      /\ \A u \in S : token'[u].status = "revoked"
  BY RevokeTokensType DEF IInv, TypeOK
<1>2. Live(f)' = {}
  BY <1>1 DEF Live
<1>3. Storing(f)' = {}
  BY DEF Storing
<1>4. QED
  BY <1>2, <1>3 DEF Dead

\* Logout, Revoke and RevokeAll end the sign-ins they are about, where no request
\* is under way and, for Revoke, no rotation has taken place.
THEOREM SigningOutEnds == Spec => [][RevokeEnds /\ RevokeAllEnds /\ LogoutEnds]_vars
<1>1. ASSUME IInv PROVE RevokeEnds
  <2> SUFFICES ASSUME NEW s \in Session, Revoke(s), Storing(s) = {},
                      \A t \in Live(s) : token[t].session = s
               PROVE  Dead(s)'
    BY DEF RevokeEnds
  <2> DEFINE S == {t \in Token : token[t].session = s /\ token[t].status = "live"}
  <2>1. S \in SUBSET Token /\ RevokeTokens(S) /\ Live(s) \subseteq S
    BY DEF Revoke, Live
  <2>2. session'[s] # "none" /\ UNCHANGED req
    BY <1>1 DEF Revoke, IInv, TypeOK
  <2> HIDE DEF S
  <2>3. QED
    BY <1>1, <2>1, <2>2, RevokingEnds
<1>2. ASSUME IInv PROVE RevokeAllEnds
  <2> SUFFICES ASSUME RevokeAll, NEW f \in Session, session[f] # "none", Storing(f) = {}
               PROVE  Dead(f)'
    BY DEF RevokeAllEnds
  <2> DEFINE S == {t \in Token : token[t].status = "live"}
  <2>1. S \in SUBSET Token /\ RevokeTokens(S) /\ Live(f) \subseteq S
    BY DEF RevokeAll, Live
  <2>2. session'[f] # "none" /\ UNCHANGED req
    BY DEF RevokeAll
  <2> HIDE DEF S
  <2>3. QED
    BY <1>2, <2>1, <2>2, RevokingEnds
<1>3. ASSUME IInv PROVE LogoutEnds
  <2> SUFFICES ASSUME NEW t \in Token, Logout(t), token[t].status = "live",
                      token[t].family \notin overlapped, Storing(token[t].family) = {}
               PROVE  Dead(token[t].family)'
    BY DEF LogoutEnds
  <2>1. PICK f \in Session : f = token[t].family /\ session[f] # "none"
    BY <1>3 DEF IInv, TypeOK, TokensFiled, TokenRow
  <2>2. {t} \in SUBSET Token /\ RevokeTokens({t}) /\ UNCHANGED <<session, req>>
    BY DEF Logout
  <2>3. Live(f) \subseteq {t}
    BY <1>3, <2>1 DEF IInv, OneHolder, Live
  <2>4. Dead(f)'
    BY <1>3, <2>1, <2>2, <2>3, RevokingEnds
  <2>5. token'[t].family = f
    BY <1>3, <2>1, <2>2, RevokeTokensType DEF IInv, TypeOK
  <2>6. QED
    BY <2>4, <2>5
<1>4. IInv /\ [Next]_vars => [RevokeEnds /\ RevokeAllEnds /\ LogoutEnds]_vars
  BY <1>1, <1>2, <1>3
<1>5. QED
  BY <1>4, SessionInvariance, PTL DEF Spec
=============================================================================
