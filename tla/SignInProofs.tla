---------------------------- MODULE SignInProofs ----------------------------
(***************************************************************************)
(* Theorems about SignIn, for every number of tabs, requests, tokens and   *)
(* links.                                                                  *)
(***************************************************************************)
EXTENDS SignIn, TLAPS

USE SignInAssumption

-----------------------------------------------------------------------------
(* Types.  A request that was granted has a token, and no other has one.   *)

Fn == SignInFn \cup {"none", "link", "me", "load", "logout"}
MaybeLink == Link \cup {NoLink}

Filed(c) ==
    /\ c.at = "idle" => c.fn = "none" /\ ~c.mine
    /\ c.at # "answered" => c.token = NoToken
    /\ c.fn \notin SignInFn => c.token = NoToken
    /\ c.at = "answered" /\ c.fn \in SignInFn => c.token \in Token
GoodCall == {c \in CallState : Filed(c)}
CallsFiled == call \in [Tab -> [Slot -> GoodCall]]

LEMMA IdleGood == Idle \in GoodCall
  BY DEF Idle, GoodCall, CallState, Filed, NoCookies, Jar, SignInFn

LEMMA BlankType == Blank \in TabState
  BY DEF Blank, TabState, Page

LEMMA AtType ==
    ASSUME NEW st \in TabState, NEW page \in Page
    PROVE  At(st, page) \in TabState
<1>1. PICK due \in BOOLEAN : due <=> page \in {"guard", "inside"}
  OBVIOUS
<1>2. (page \in {"guard", "inside"}) = due
  BY <1>1, Zenon
<1>3. At(st, page) = [Blank EXCEPT !.page = page, !.due = due, !.push = st.push, !.out = st.out]
  BY <1>2, Zenon DEF At
<1>4. QED
  BY <1>3 DEF Blank, TabState

LEMMA LeftGood ==
    ASSUME CallsFiled, NEW t \in Tab
    PROVE  Left(t) \in [Slot -> GoodCall]
<1>1. ASSUME NEW c \in GoodCall PROVE [c EXCEPT !.mine = FALSE] \in GoodCall
  BY DEF GoodCall, CallState, Filed
<1>2. QED
  BY <1>1 DEF Left, CallsFiled

\* Replacing one request of a tab, or all of them.
LEMMA PutCall ==
    ASSUME CallsFiled, NEW t \in Tab, NEW s \in Slot, NEW c \in GoodCall,
           call' = [call EXCEPT ![t] = [call[t] EXCEPT ![s] = c]]
    PROVE  /\ CallsFiled'
           /\ call'[t][s] = c
           /\ \A r \in Slot \ {s} : call'[t][r] = call[t][r]
           /\ \A u \in Tab \ {t} : call'[u] = call[u]
  BY DEF CallsFiled

LEMMA PutCalls ==
    ASSUME CallsFiled, NEW t \in Tab, NEW f \in [Slot -> GoodCall], call' = [call EXCEPT ![t] = f]
    PROVE  CallsFiled' /\ call'[t] = f /\ \A u \in Tab \ {t} : call'[u] = call[u]
  BY DEF CallsFiled

LEMMA PutTab ==
    ASSUME tab \in [Tab -> TabState], NEW t \in Tab, NEW st \in TabState, tab' = [tab EXCEPT ![t] = st]
    PROVE  /\ tab' \in [Tab -> TabState]
           /\ tab'[t] = st
           /\ \A u \in Tab \ {t} : tab'[u] = tab[u]
  OBVIOUS

Sent(fn, l) == [Idle EXCEPT !.at = "sent", !.fn = fn, !.mine = TRUE, !.cookies = Carried(fn), !.link = l]

LEMMA SendIs ==
    ASSUME TypeOK, CallsFiled, NEW t \in Tab, NEW s \in Slot, NEW fn \in Fn \ {"none"}, NEW l \in MaybeLink,
           Send(t, s, fn, l)
    PROVE  /\ Sent(fn, l) \in GoodCall
           /\ call[t][s].at = "idle"
           /\ call' = [call EXCEPT ![t] = [call[t] EXCEPT ![s] = Sent(fn, l)]]
           /\ mishap' \in BOOLEAN
<1>1. Carried(fn) \in Jar
  BY DEF Carried, Jar, TypeOK
<1>2. Sent(fn, l) \in GoodCall
  BY <1>1 DEF Sent, Idle, GoodCall, CallState, Filed, Fn, MaybeLink
<1> DEFINE sent == Sent(fn, l)
<1>3. call' = [call EXCEPT ![t][s] = sent] /\ call[t][s].at = "idle"
  BY DEF Send, Sent
<1>4. mishap' \in BOOLEAN
  BY DEF Send, TypeOK, Changes
<1> HIDE DEF sent
<1>5. call' = [call EXCEPT ![t] = [call[t] EXCEPT ![s] = sent]]
  BY <1>3
<1>6. QED
  BY <1>2, <1>3, <1>4, <1>5 DEF sent

Answered(c, k) == [c EXCEPT !.at = "answered", !.token = k, !.cookies = NoCookies, !.link = NoLink]

LEMMA AnswerIs ==
    ASSUME TypeOK, CallsFiled, NEW t \in Tab, NEW s \in Slot, NEW k \in Token \cup {NoToken},
           Answer(t, s, k), call[t][s].at = "sent",
           (k \in Token) <=> (call[t][s].fn \in SignInFn)
    PROVE  /\ Answered(call[t][s], k) \in GoodCall
           /\ call' = [call EXCEPT ![t] = [call[t] EXCEPT ![s] = Answered(call[t][s], k)]]
<1>1. call[t][s] \in CallState /\ Filed(call[t][s])
  BY DEF CallsFiled, GoodCall
<1> DEFINE next == Answered(call[t][s], k)
<1>2. next \in GoodCall
  BY <1>1 DEF Answered, GoodCall, CallState, Filed, NoCookies, Jar
<1>3. call' = [call EXCEPT ![t][s] = next]
  BY DEF Answer, Answered, CallsFiled
<1> HIDE DEF next
<1>4. call' = [call EXCEPT ![t] = [call[t] EXCEPT ![s] = next]]
  BY <1>3
<1>5. QED
  BY <1>2, <1>4 DEF next

LEMMA CloseIs ==
    ASSUME CallsFiled, NEW t \in Tab, NEW s \in Slot, Close(t, s)
    PROVE  call' = [call EXCEPT ![t] = [call[t] EXCEPT ![s] = Idle]]
  BY DEF Close, CallsFiled

-----------------------------------------------------------------------------
(* What the steps do to a tab and its requests.                            *)

\* A step of one tab that changes one of its requests.
Put(t, s, st, c) ==
    /\ st \in TabState /\ c \in GoodCall
    /\ tab' = [tab EXCEPT ![t] = st]
    /\ call' = [call EXCEPT ![t] = [call[t] EXCEPT ![s] = c]]

\* The page is the one it was.
Kept(st, old) ==
    /\ st.page = old.page /\ st.due = old.due /\ st.shown = old.shown
    /\ st.stale = old.stale /\ st.push = old.push
    /\ st.out => old.out

Asked(t, fn) ==
    /\ fn \in {"login", "register", "link", "verify", "logout"}
    /\ ~tab[t].busy
    /\ fn \in {"login", "register"} => t \in Dashboard
    /\ fn \in {"link", "verify"} => t \in Partner /\ tab[t].page = "login"
    /\ fn = "logout" => tab[t].page = "inside" /\ ~tab[t].due

AskStep(t, s, fn, l, st) ==
    /\ Put(t, s, st, Sent(fn, l)) /\ Send(t, s, fn, l) /\ Asked(t, fn)
    /\ Kept(st, tab[t]) /\ st.busy /\ mishap' \in BOOLEAN /\ UNCHANGED <<jar, server>>

LEMMA AskWith ==
    ASSUME TypeOK, CallsFiled, NEW t \in Tab, NEW s \in Slot, NEW fn, NEW l \in MaybeLink,
           NEW st \in TabState, Send(t, s, fn, l), Asked(t, fn), tab' = [tab EXCEPT ![t] = st],
           Kept(st, tab[t]), st.busy, UNCHANGED <<jar, server>>
    PROVE  fn \in Fn /\ AskStep(t, s, fn, l, st)
<1>1. fn \in Fn \ {"none"}
  BY DEF Asked, Fn, SignInFn
<1>2. QED
  BY <1>1, SendIs DEF AskStep, Put

LEMMA AskIs ==
    ASSUME TypeOK, CallsFiled, NEW t \in Tab, NEW s \in Slot, Ask(t, s)
    PROVE  \E fn \in Fn, l \in MaybeLink, st \in TabState : AskStep(t, s, fn, l, st)
<1> DEFINE asking == [tab[t] EXCEPT !.busy = TRUE, !.out = FALSE]
           waiting == [tab[t] EXCEPT !.busy = TRUE]
<1>1. tab[t] \in TabState /\ tab[t].dev \in MaybeLink /\ NoLink \in MaybeLink
  BY DEF TypeOK, TabState, MaybeLink
<1>2. /\ asking \in TabState /\ Kept(asking, tab[t]) /\ asking.busy
      /\ waiting \in TabState /\ Kept(waiting, tab[t]) /\ waiting.busy
  BY <1>1 DEF TabState, Kept
<1>3. /\ tab' = [tab EXCEPT ![t].busy = TRUE, ![t].out = FALSE] => tab' = [tab EXCEPT ![t] = asking]
      /\ tab' = [tab EXCEPT ![t].busy = TRUE] => tab' = [tab EXCEPT ![t] = waiting]
  BY DEF TypeOK
<1> HIDE DEF asking, waiting
<1>4. CASE SubmitLogin(t, s)
  <2>1. Send(t, s, "login", NoLink) /\ Asked(t, "login") /\ tab' = [tab EXCEPT ![t] = asking]
           /\ UNCHANGED <<jar, server>>
    BY <1>3, <1>4 DEF SubmitLogin, LoginForm, Asked
  <2>2. QED
    BY <1>1, <1>2, <2>1, AskWith
<1>5. CASE SubmitRegister(t, s)
  <2>1. Send(t, s, "register", NoLink) /\ Asked(t, "register") /\ tab' = [tab EXCEPT ![t] = asking]
           /\ UNCHANGED <<jar, server>>
    BY <1>3, <1>5 DEF SubmitRegister, RegisterForm, Asked
  <2>2. QED
    BY <1>1, <1>2, <2>1, AskWith
<1>6. CASE SubmitEmail(t, s)
  <2>1. Send(t, s, "link", NoLink) /\ Asked(t, "link") /\ tab' = [tab EXCEPT ![t] = asking]
           /\ UNCHANGED <<jar, server>>
    BY <1>3, <1>6 DEF SubmitEmail, EmailForm, Asked
  <2>2. QED
    BY <1>1, <1>2, <2>1, AskWith
<1>7. CASE HandleDevConfirm(t, s)
  <2>1. Send(t, s, "verify", tab[t].dev) /\ Asked(t, "verify") /\ tab' = [tab EXCEPT ![t] = waiting]
           /\ UNCHANGED <<jar, server>>
    BY <1>3, <1>7 DEF HandleDevConfirm, LinkForm, Asked
  <2>2. QED
    BY <1>1, <1>2, <2>1, AskWith
<1>8. CASE HandleLogout(t, s)
  <2>1. Send(t, s, "logout", NoLink) /\ Asked(t, "logout") /\ tab' = [tab EXCEPT ![t] = waiting]
           /\ UNCHANGED <<jar, server>>
    BY <1>3, <1>8 DEF HandleLogout, LogoutOffered, Asked
  <2>2. QED
    BY <1>1, <1>2, <2>1, AskWith
<1>9. QED
  BY <1>4, <1>5, <1>6, <1>7, <1>8 DEF Ask

\* An effect runs.
EffectFn(t) == CASE tab[t].page = "verify" -> "verify"
                 [] tab[t].page = "guard"  -> "me"
                 [] tab[t].page = "inside" -> "load"

EffectStep(t, s, fn, l, st) ==
    /\ Put(t, s, st, Sent(fn, l)) /\ Send(t, s, fn, l) /\ fn = EffectFn(t)
    /\ tab[t].due /\ ~st.due
    /\ st.page = tab[t].page /\ st.busy = tab[t].busy /\ st.push = tab[t].push
    /\ st.shown = tab[t].shown /\ st.out = tab[t].out
    /\ ~st.stale => tab[t].page = "inside" \/ ~tab[t].stale
    /\ mishap' \in BOOLEAN /\ UNCHANGED <<jar, server>>

LEMMA RunEffectIs ==
    ASSUME TypeOK, CallsFiled, NEW t \in Tab, NEW s \in Slot, RunEffect(t, s),
           tab[t].page \in {"verify", "guard", "inside"}
    PROVE  \E l \in MaybeLink, st \in TabState : EffectStep(t, s, EffectFn(t), l, st)
<1>1. tab[t] \in TabState /\ tab[t].dev \in MaybeLink
  BY DEF TypeOK, TabState, MaybeLink
<1>2. PICK stale \in BOOLEAN : stale <=> (tab[t].page # "inside" /\ tab[t].stale)
  OBVIOUS
<1>3. (tab[t].page # "inside" /\ tab[t].stale) = stale
  BY <1>1, <1>2 DEF TabState
<1> DEFINE st == [tab[t] EXCEPT !.due = FALSE, !.stale = stale]
<1>4. st \in TabState
  BY <1>1 DEF TabState
<1>5. tab' = [tab EXCEPT ![t].due = FALSE, ![t].stale = stale]
  BY <1>3, Zenon DEF RunEffect
<1>6. tab' = [tab EXCEPT ![t] = st]
  BY <1>5 DEF TypeOK
<1>7. EffectFn(t) \in Fn \ {"none"}
  BY DEF EffectFn, Fn, SignInFn
<1>8. Send(t, s, EffectFn(t), tab[t].dev) /\ tab[t].due /\ UNCHANGED <<jar, server>>
  BY Zenon DEF RunEffect, EffectFn
<1>9. /\ st.page = tab[t].page /\ st.busy = tab[t].busy /\ st.push = tab[t].push
      /\ st.shown = tab[t].shown /\ st.out = tab[t].out /\ ~st.due /\ st.stale = stale
  BY <1>1 DEF TabState
<1> HIDE DEF st
<1>10. EffectStep(t, s, EffectFn(t), tab[t].dev, st)
  BY <1>1, <1>2, <1>4, <1>6, <1>7, <1>8, <1>9, SendIs DEF EffectStep, Put
<1>11. QED
  BY <1>1, <1>4, <1>10

\* The server answers: a sign-in is granted a token, a link is made, a token is revoked.
AnswerStep(t, s, c) ==
    /\ call[t][s].at = "sent" /\ c.at = "answered" /\ c.fn = call[t][s].fn /\ c.mine = call[t][s].mine
    /\ c \in GoodCall /\ call' = [call EXCEPT ![t] = [call[t] EXCEPT ![s] = c]]
    /\ UNCHANGED <<jar, tab, mishap>>

GrantStep(t, s, c, user, l) ==
    /\ AnswerStep(t, s, c) /\ c.fn \in SignInFn
    /\ user \in User /\ l \in MaybeLink
    /\ owner[c.token] = Nobody
    /\ owner' = [owner EXCEPT ![c.token] = user]
    /\ origin' = [origin EXCEPT ![c.token] = l]
    /\ live' = live \cup {c.token}
    /\ account' \in BOOLEAN
    /\ \/ l = NoLink /\ link' = link
       \/ link[l] = "issued" /\ link' = [link EXCEPT ![l] = "spent"]

LinkStep(t, s, c, l) ==
    /\ AnswerStep(t, s, c) /\ c.fn = "link"
    /\ l \in Link /\ link[l] = "unused" /\ link' = [link EXCEPT ![l] = "issued"]
    /\ UNCHANGED <<account, owner, origin, live>>

RevokeStep(t, s, c) ==
    /\ AnswerStep(t, s, c) /\ c.fn = "logout"
    /\ live' = live \ {call[t][s].cookies.refresh}
    /\ UNCHANGED <<account, owner, origin, link>>

LEMMA GrantIs ==
    ASSUME TypeOK, CallsFiled, NEW t \in Tab, NEW s \in Slot, NEW user \in User, NEW l \in MaybeLink,
           Grant(t, s, user, l), call[t][s].at = "sent", call[t][s].fn \in SignInFn,
           account' \in BOOLEAN, UNCHANGED <<jar, tab, mishap>>,
           (l = NoLink /\ link' = link) \/ (link[l] = "issued" /\ link' = [link EXCEPT ![l] = "spent"])
    PROVE  \E c \in GoodCall : GrantStep(t, s, c, user, l)
<1>1. PICK k \in Token : /\ owner[k] = Nobody
                         /\ owner' = [owner EXCEPT ![k] = user]
                         /\ origin' = [origin EXCEPT ![k] = l]
                         /\ live' = live \cup {k}
                         /\ Answer(t, s, k)
  BY DEF Grant
<1> DEFINE c == Answered(call[t][s], k)
<1>2. c \in GoodCall /\ call' = [call EXCEPT ![t] = [call[t] EXCEPT ![s] = c]]
  BY <1>1, AnswerIs
<1>3. call[t][s] \in CallState
  BY DEF CallsFiled, GoodCall
<1>4. c.at = "answered" /\ c.fn = call[t][s].fn /\ c.mine = call[t][s].mine /\ c.token = k
  BY <1>3 DEF Answered, CallState
<1> HIDE DEF c
<1>5. GrantStep(t, s, c, user, l)
  BY <1>1, <1>2, <1>4 DEF GrantStep, AnswerStep
<1>6. QED
  BY <1>2, <1>5

LEMMA ServeIs ==
    ASSUME TypeOK, CallsFiled, NEW t \in Tab, NEW s \in Slot, Serve(t, s)
    PROVE  \E c \in GoodCall :
              \/ \E user \in User, l \in MaybeLink : GrantStep(t, s, c, user, l)
              \/ \E l \in Link : LinkStep(t, s, c, l)
              \/ RevokeStep(t, s, c)
<1>1. call[t][s] \in CallState /\ Filed(call[t][s]) /\ NoLink \in MaybeLink
  BY DEF CallsFiled, GoodCall, MaybeLink
<1>2. CASE ServeLogin(t, s)
  <2>1. "operator" \in User /\ call[t][s].fn \in SignInFn
    BY <1>2 DEF User, ServeLogin, SignInFn
  <2>2. QED
    BY <1>1, <1>2, <2>1, GrantIs DEF ServeLogin, TypeOK
<1>3. CASE ServeRegister(t, s)
  <2>1. "operator" \in User /\ call[t][s].fn \in SignInFn
    BY <1>3 DEF User, ServeRegister, SignInFn
  <2>2. QED
    BY <1>1, <1>3, <2>1, GrantIs DEF ServeRegister
<1>4. CASE ServeVerify(t, s)
  <2>1. "partner" \in User /\ call[t][s].fn \in SignInFn /\ call[t][s].link \in MaybeLink
    BY <1>1, <1>4 DEF User, ServeVerify, SignInFn, CallState, MaybeLink
  <2>2. QED
    BY <1>1, <1>4, <2>1, GrantIs DEF ServeVerify, TypeOK
<1>5. CASE ServeLink(t, s)
  <2>1. PICK l \in Link : /\ link[l] = "unused" /\ link' = [link EXCEPT ![l] = "issued"]
                          /\ call' = [call EXCEPT ![t][s].at = "answered", ![t][s].link = l]
    BY <1>5 DEF ServeLink
  <2> DEFINE c == [call[t][s] EXCEPT !.at = "answered", !.link = l]
  <2>2. call[t][s].at = "sent" /\ call[t][s].fn = "link" /\ call[t][s].token = NoToken
    BY <1>1, <1>5 DEF ServeLink, Filed
  <2>3. c \in GoodCall
    BY <1>1, <2>2 DEF GoodCall, CallState, Filed, SignInFn
  <2>4. c.at = "answered" /\ c.fn = "link" /\ c.mine = call[t][s].mine
    BY <1>1, <2>2 DEF CallState
  <2>5. call' = [call EXCEPT ![t][s] = c]
    BY <2>1 DEF CallsFiled
  <2> HIDE DEF c
  <2>6. call' = [call EXCEPT ![t] = [call[t] EXCEPT ![s] = c]]
    BY <2>5
  <2>7. LinkStep(t, s, c, l)
    BY <1>5, <2>1, <2>2, <2>3, <2>4, <2>6 DEF ServeLink, LinkStep, AnswerStep
  <2>8. QED
    BY <2>3, <2>7
<1>6. CASE ServeLogout(t, s)
  <2> DEFINE c == Answered(call[t][s], NoToken)
  <2>1. call[t][s].at = "sent" /\ call[t][s].fn = "logout" /\ "logout" \notin SignInFn
    BY <1>6 DEF ServeLogout, SignInFn
  <2>2. c \in GoodCall /\ call' = [call EXCEPT ![t] = [call[t] EXCEPT ![s] = c]]
    BY <1>6, <2>1, AnswerIs DEF ServeLogout
  <2>3. c.at = "answered" /\ c.fn = "logout" /\ c.mine = call[t][s].mine
    BY <1>1, <2>1 DEF CallState, Answered
  <2> HIDE DEF c
  <2>4. RevokeStep(t, s, c)
    BY <1>6, <2>1, <2>2, <2>3 DEF ServeLogout, RevokeStep, AnswerStep
  <2>5. QED
    BY <2>2, <2>4
<1>7. QED
  BY <1>2, <1>3, <1>4, <1>5, <1>6 DEF Serve

LEMMA AtIs ==
    ASSUME NEW st \in TabState, NEW page \in Page
    PROVE  /\ At(st, page).page = page
           /\ At(st, page).due <=> page \in {"guard", "inside"}
           /\ ~At(st, page).busy /\ ~At(st, page).stale
           /\ At(st, page).shown = Nobody
           /\ At(st, page).push = st.push /\ At(st, page).out = st.out
<1>1. PICK due \in BOOLEAN : due <=> page \in {"guard", "inside"}
  OBVIOUS
<1>2. (page \in {"guard", "inside"}) = due
  BY <1>1, Zenon
<1>3. At(st, page) = [Blank EXCEPT !.page = page, !.due = due, !.push = st.push, !.out = st.out]
  BY <1>2, Zenon DEF At
<1>4. QED
  BY <1>1, <1>3 DEF Blank

\* The cookies of a sign-in are stored; every tab learns nothing of it.
Overtaken(st) == [st EXCEPT !.stale = TRUE, !.out = FALSE]

StoreStep(t, s, st, c) ==
    LET k == call[t][s].token IN
    /\ call[t][s].at = "answered" /\ call[t][s].fn \in SignInFn /\ k \in Token
    /\ st \in TabState /\ c \in GoodCall
    /\ call' = [call EXCEPT ![t] = [call[t] EXCEPT ![s] = c]]
    /\ tab' = [u \in Tab |-> Overtaken(IF u = t THEN st ELSE tab[u])]
    /\ jar' = [access |-> owner[k], refresh |-> k]
    /\ UNCHANGED server
    /\ mishap' \in BOOLEAN /\ (mishap => mishap')
    /\ \/ c = Idle /\ call[t][s].fn # "register"
       \/ c.at = "sent" /\ c.fn = "again" /\ call[t][s].fn = "register" /\ c.mine = call[t][s].mine /\ mishap'
    /\ \/ /\ call[t][s].fn = "verify"
          /\ st = At(tab[t], "guard")
       \/ /\ call[t][s].fn # "verify"
          /\ st.page = tab[t].page /\ st.due = tab[t].due /\ st.shown = tab[t].shown
          /\ st.busy = tab[t].busy
          /\ tab[t].push \subseteq st.push
          /\ call[t][s].fn # "register" => st.push # {}

LEMMA StoreCookiesIs ==
    ASSUME TypeOK, CallsFiled, NEW t \in Tab, NEW s \in Slot,
           LoginArrives(t, s) \/ RegisterArrives(t, s) \/ VerifyArrives(t, s)
    PROVE  \E st \in TabState, c \in GoodCall : StoreStep(t, s, st, c)
<1>1. call[t][s] \in CallState /\ Filed(call[t][s]) /\ tab[t] \in TabState
  BY DEF CallsFiled, GoodCall, TypeOK
<1>2. ASSUME NEW st \in TabState, StoreCookies(t, s, st)
      PROVE  /\ tab' = [u \in Tab |-> Overtaken(IF u = t THEN st ELSE tab[u])]
             /\ jar' = [access |-> owner[call[t][s].token], refresh |-> call[t][s].token]
  BY <1>2, Zenon DEF StoreCookies, Overtaken
<1>3. CASE LoginArrives(t, s)
  <2> DEFINE st == [tab[t] EXCEPT !.push = @ \cup {"guard"}]
  <2>1. st \in TabState
    BY <1>1 DEF TabState
  <2>2. StoreCookies(t, s, st) /\ UNCHANGED <<server, mishap>>
    BY <1>3 DEF LoginArrives
  <2>3. /\ call[t][s].at = "answered" /\ call[t][s].token \in Token
        /\ call[t][s].fn \in SignInFn \ {"verify", "register"}
    BY <1>1, <1>3 DEF LoginArrives, Arrived, Under, Filed, SignInFn
  <2>4. call' = [call EXCEPT ![t] = [call[t] EXCEPT ![s] = Idle]]
    BY <1>3, CloseIs DEF LoginArrives
  <2>5. /\ st.page = tab[t].page /\ st.due = tab[t].due /\ st.shown = tab[t].shown /\ st.busy = tab[t].busy
        /\ tab[t].push \subseteq st.push /\ st.push # {}
    BY <1>1 DEF TabState
  <2> HIDE DEF st
  <2>6. StoreStep(t, s, st, Idle)
    BY <1>2, <2>1, <2>2, <2>3, <2>4, <2>5, IdleGood DEF StoreStep, TypeOK
  <2>7. QED
    BY <2>1, <2>6, IdleGood
<1>4. CASE RegisterArrives(t, s)
  <2> DEFINE c == [Idle EXCEPT !.at = "sent", !.fn = "again", !.mine = call[t][s].mine]
  <2>1. StoreCookies(t, s, tab[t]) /\ mishap' = TRUE /\ UNCHANGED server
    BY <1>4 DEF RegisterArrives
  <2>2. call[t][s].at = "answered" /\ call[t][s].fn = "register" /\ call[t][s].token \in Token
    BY <1>1, <1>4 DEF RegisterArrives, Arrived, Under, Filed, SignInFn
  <2>3. c \in GoodCall /\ c.at = "sent" /\ c.fn = "again" /\ c.mine = call[t][s].mine
    BY <1>1 DEF Idle, GoodCall, CallState, Filed, NoCookies, Jar, SignInFn
  <2>4. call' = [call EXCEPT ![t][s] = c]
    BY <1>4 DEF RegisterArrives
  <2> HIDE DEF c
  <2>5. call' = [call EXCEPT ![t] = [call[t] EXCEPT ![s] = c]]
    BY <2>4
  <2>6. "register" \in SignInFn
    BY DEF SignInFn
  <2>7. StoreStep(t, s, tab[t], c)
    BY <1>1, <1>2, <2>1, <2>2, <2>3, <2>5, <2>6 DEF StoreStep
  <2>8. QED
    BY <1>1, <2>3, <2>7
<1>5. CASE VerifyArrives(t, s)
  <2> DEFINE st == At(tab[t], "guard")
  <2>1. st \in TabState
    BY <1>1, AtType DEF Page
  <2>2. StoreCookies(t, s, st) /\ UNCHANGED <<server, mishap>>
    BY <1>5 DEF VerifyArrives
  <2>3. call[t][s].at = "answered" /\ call[t][s].fn = "verify" /\ call[t][s].token \in Token
    BY <1>1, <1>5 DEF VerifyArrives, Arrived, Under, Filed, SignInFn
  <2>4. call' = [call EXCEPT ![t] = [call[t] EXCEPT ![s] = Idle]]
    BY <1>5, CloseIs DEF VerifyArrives
  <2>5. "verify" \in SignInFn
    BY DEF SignInFn
  <2>6. StoreStep(t, s, st, Idle)
    BY <1>2, <2>1, <2>2, <2>3, <2>4, <2>5, IdleGood DEF StoreStep, TypeOK
  <2>7. QED
    BY <2>1, <2>6, IdleGood
<1>6. QED
  BY <1>3, <1>4, <1>5

\* A form learns of its answer, or of a refusal: what it was waiting for is over.
SettleStep(t, s, st) ==
    /\ Put(t, s, st, Idle)
    /\ call[t][s].fn \in SignInFn \cup {"link"}
    /\ st.page = tab[t].page /\ st.due = tab[t].due /\ st.shown = tab[t].shown
    /\ st.stale = tab[t].stale /\ st.out = tab[t].out
    /\ st.push = tab[t].push \/ call[t][s].fn = "again"
    /\ tab[t].push \subseteq st.push
    /\ st.busy => tab[t].busy /\ (call[t][s].mine => st.push # {})
    /\ call[t][s].token # NoToken => mishap'
    /\ mishap' \in BOOLEAN /\ (mishap => mishap') /\ UNCHANGED <<jar, server>>

LEMMA SettleIs ==
    ASSUME TypeOK, CallsFiled, NEW t \in Tab, NEW s \in Slot,
           AgainRefused(t, s) \/ SubmitFails(t, s) \/ LinkArrives(t, s)
    PROVE  \E st \in TabState : SettleStep(t, s, st)
<1>1. call[t][s] \in CallState /\ Filed(call[t][s]) /\ tab[t] \in TabState
  BY DEF CallsFiled, GoodCall, TypeOK
<1>2. tab = [tab EXCEPT ![t] = tab[t]]
  BY DEF TypeOK
<1>3. CASE AgainRefused(t, s)
  <2> DEFINE st == [tab[t] EXCEPT !.push = @ \cup {"login"}]
  <2>1. st \in TabState
    BY <1>1 DEF TabState
  <2>2. tab' = [tab EXCEPT ![t] = st] /\ UNCHANGED <<jar, server, mishap>>
    BY <1>3 DEF AgainRefused, TypeOK
  <2>3. call[t][s].fn = "again" /\ call[t][s].token = NoToken /\ "again" \in SignInFn
    BY <1>1, <1>3 DEF AgainRefused, Under, Filed, SignInFn
  <2>4. call' = [call EXCEPT ![t] = [call[t] EXCEPT ![s] = Idle]]
    BY <1>3, CloseIs DEF AgainRefused
  <2>5. /\ st.page = tab[t].page /\ st.due = tab[t].due /\ st.shown = tab[t].shown
        /\ st.busy = tab[t].busy /\ st.stale = tab[t].stale /\ st.out = tab[t].out
        /\ tab[t].push \subseteq st.push /\ st.push # {}
    BY <1>1 DEF TabState
  <2> HIDE DEF st
  <2>6. SettleStep(t, s, st)
    BY <2>1, <2>2, <2>3, <2>4, <2>5, IdleGood DEF SettleStep, Put, TypeOK
  <2>7. QED
    BY <2>1, <2>6
<1>4. CASE SubmitFails(t, s)
  <2> DEFINE freed == [tab[t] EXCEPT !.busy = FALSE]
             st == IF call[t][s].mine THEN freed ELSE tab[t]
  <2>1. freed \in TabState /\ Kept(freed, tab[t]) /\ ~freed.busy /\ freed.out = tab[t].out
    BY <1>1 DEF TabState, Kept
  <2>2. tab' = [tab EXCEPT ![t] = st] /\ UNCHANGED <<jar, server>>
    BY <1>2, <1>4 DEF SubmitFails, TypeOK
  <2>3. /\ call[t][s].fn \in SignInFn \cup {"link"}
        /\ mishap' = (mishap \/ call[t][s].token # NoToken)
    BY <1>4 DEF SubmitFails, Under
  <2>4. call' = [call EXCEPT ![t] = [call[t] EXCEPT ![s] = Idle]]
    BY <1>4, CloseIs DEF SubmitFails
  <2> HIDE DEF freed
  <2>5. /\ st \in TabState /\ Kept(st, tab[t]) /\ st.out = tab[t].out
        /\ st.busy => tab[t].busy /\ ~call[t][s].mine
    BY <1>1, <2>1 DEF Kept
  <2> HIDE DEF st
  <2>6. mishap' \in BOOLEAN /\ (mishap => mishap') /\ (call[t][s].token # NoToken => mishap')
    BY <2>3 DEF TypeOK
  <2>7. SettleStep(t, s, st)
    BY <2>2, <2>3, <2>4, <2>5, <2>6, IdleGood DEF SettleStep, Put, Kept
  <2>8. QED
    BY <2>5, <2>7
<1>5. CASE LinkArrives(t, s)
  <2> DEFINE told == [tab[t] EXCEPT !.busy = FALSE, !.dev = call[t][s].link]
             st == IF call[t][s].mine THEN told ELSE tab[t]
  <2>1. told \in TabState /\ Kept(told, tab[t]) /\ ~told.busy /\ told.out = tab[t].out
    BY <1>1 DEF TabState, Kept, CallState
  <2>2. tab' = [tab EXCEPT ![t] = st] /\ UNCHANGED <<jar, server, mishap>>
    BY <1>2, <1>5 DEF LinkArrives, TypeOK
  <2>3. call[t][s].fn = "link" /\ call[t][s].token = NoToken
    BY <1>1, <1>5 DEF LinkArrives, Arrived, Under, Filed, SignInFn
  <2>4. call' = [call EXCEPT ![t] = [call[t] EXCEPT ![s] = Idle]]
    BY <1>5, CloseIs DEF LinkArrives
  <2> HIDE DEF told
  <2>5. /\ st \in TabState /\ Kept(st, tab[t]) /\ st.out = tab[t].out
        /\ st.busy => tab[t].busy /\ ~call[t][s].mine
    BY <1>1, <2>1 DEF Kept
  <2> HIDE DEF st
  <2>6. SettleStep(t, s, st)
    BY <2>2, <2>3, <2>4, <2>5, IdleGood DEF SettleStep, Put, Kept, TypeOK
  <2>7. QED
    BY <2>5, <2>6
<1>6. QED
  BY <1>3, <1>4, <1>5

\* The guard, and what loads the user's name.
MeStep(t, s, st) ==
    /\ Put(t, s, st, Idle) /\ call[t][s].fn = "me" /\ call[t][s].at = "sent"
    /\ \/ st = tab[t] /\ ~call[t][s].mine
       \/ \E page \in {"inside", "login"} : st = At(tab[t], page) /\ call[t][s].mine
    /\ UNCHANGED <<jar, server, mishap>>

NameStep(t, s, st) ==
    /\ Put(t, s, st, Idle) /\ call[t][s].fn = "load" /\ call[t][s].at = "sent"
    /\ \/ st = tab[t]
       \/ /\ call[t][s].mine
          /\ st.page = tab[t].page /\ st.due = tab[t].due /\ st.busy = tab[t].busy
          /\ st.stale = tab[t].stale /\ st.push = tab[t].push /\ st.out = tab[t].out
          /\ st.shown \in {call[t][s].cookies.access, Nobody}
    /\ UNCHANGED <<jar, server, mishap>>

LEMMA MeArrivesIs ==
    ASSUME TypeOK, CallsFiled, NEW t \in Tab, NEW s \in Slot, MeArrives(t, s)
    PROVE  \E st \in TabState : MeStep(t, s, st)
<1>1. call[t][s] \in CallState /\ tab[t] \in TabState
  BY DEF CallsFiled, GoodCall, TypeOK
<1>2. PICK page \in {"inside", "login"} :
         tab' = [tab EXCEPT ![t] = IF call[t][s].mine THEN At(@, page) ELSE @]
  BY DEF MeArrives
<1> DEFINE st == IF call[t][s].mine THEN At(tab[t], page) ELSE tab[t]
<1>3. tab' = [tab EXCEPT ![t] = st]
  BY <1>2 DEF TypeOK
<1>4. st \in TabState
  BY <1>1, AtType DEF Page
<1>5. call[t][s].fn = "me" /\ call[t][s].at = "sent" /\ UNCHANGED <<jar, server, mishap>>
  BY DEF MeArrives, Under
<1>6. call' = [call EXCEPT ![t] = [call[t] EXCEPT ![s] = Idle]]
  BY CloseIs DEF MeArrives
<1>7. (st = tab[t] /\ ~call[t][s].mine) \/ (st = At(tab[t], page) /\ call[t][s].mine)
  OBVIOUS
<1> HIDE DEF st
<1>8. MeStep(t, s, st)
  BY <1>3, <1>4, <1>5, <1>6, <1>7, IdleGood DEF MeStep, Put
<1>9. QED
  BY <1>4, <1>8

LEMMA LoadArrivesIs ==
    ASSUME TypeOK, CallsFiled, NEW t \in Tab, NEW s \in Slot, LoadArrives(t, s)
    PROVE  \E st \in TabState : NameStep(t, s, st)
<1>1. call[t][s] \in CallState /\ tab[t] \in TabState
  BY DEF CallsFiled, GoodCall, TypeOK
<1>2. PICK user \in {call[t][s].cookies.access, Nobody} :
         tab' = [tab EXCEPT ![t].shown = IF call[t][s].mine THEN user ELSE @]
  BY DEF LoadArrives
<1> DEFINE st == [tab[t] EXCEPT !.shown = IF call[t][s].mine THEN user ELSE @]
<1>3. user \in User \cup {Nobody}
  BY <1>1 DEF CallState, Jar
<1>4. st \in TabState
  BY <1>1, <1>3 DEF TabState
<1>5. tab' = [tab EXCEPT ![t] = st]
  BY <1>2 DEF TypeOK
<1>6. call[t][s].fn = "load" /\ call[t][s].at = "sent" /\ UNCHANGED <<jar, server, mishap>>
  BY DEF LoadArrives, Under
<1>7. call' = [call EXCEPT ![t] = [call[t] EXCEPT ![s] = Idle]]
  BY CloseIs DEF LoadArrives
<1>8. \/ st = tab[t]
      \/ /\ call[t][s].mine
         /\ st.page = tab[t].page /\ st.due = tab[t].due /\ st.busy = tab[t].busy
         /\ st.stale = tab[t].stale /\ st.push = tab[t].push /\ st.out = tab[t].out
         /\ st.shown = user
  BY <1>1 DEF TabState
<1> HIDE DEF st
<1>9. NameStep(t, s, st)
  BY <1>2, <1>4, <1>5, <1>6, <1>7, <1>8, IdleGood DEF NameStep, Put
<1>10. QED
  BY <1>4, <1>9

\* A tab shows another page: what is under way does not find the one it belongs to.
Fresh(t, st) ==
    /\ st \in TabState
    /\ st.shown = Nobody /\ ~st.busy /\ ~st.stale /\ st.push \subseteq tab[t].push
    /\ st.due => st.page \in {"verify", "guard", "inside"}
    /\ st.page = "verify" => t \in Partner
    /\ st.page = "guard" => st.due

SameRequest(c, d) == c.at = d.at /\ c.fn = d.fn /\ c.token = d.token /\ c.cookies = d.cookies /\ ~c.mine

MoveStep(t, st, f) ==
    /\ Fresh(t, st) /\ tab' = [tab EXCEPT ![t] = st]
    /\ f \in [Slot -> GoodCall] /\ call' = [call EXCEPT ![t] = f]
    /\ \A r \in Slot : SameRequest(f[r], call[t][r])
    /\ st.out => tab[t].out
    /\ \/ t \in Dashboard /\ t \notin Partner
       \/ tab[t].push # {}
       \/ \A r \in Slot : call[t][r].fn = "none"
    /\ UNCHANGED <<jar, server, mishap>>

LogoutStep(t, s, st, f) ==
    /\ Fresh(t, st) /\ tab' = [tab EXCEPT ![t] = st] /\ st.page = "login"
    /\ call[t][s].fn = "logout"
    /\ f \in [Slot -> GoodCall] /\ call' = [call EXCEPT ![t] = f]
    /\ f[s] = Idle
    /\ \A r \in Slot \ {s} : SameRequest(f[r], call[t][r])
    /\ \/ jar' = jar /\ ~st.out
       \/ jar' = NoCookies /\ call[t][s].at = "answered"
    /\ UNCHANGED <<server, mishap>>

LEMMA LeftIs ==
    ASSUME CallsFiled, NEW t \in Tab
    PROVE  Left(t) \in [Slot -> GoodCall] /\ \A r \in Slot : SameRequest(Left(t)[r], call[t][r])
<1>1. ASSUME NEW c \in GoodCall PROVE SameRequest([c EXCEPT !.mine = FALSE], c)
  BY DEF GoodCall, CallState, SameRequest
<1>2. \A r \in Slot : call[t][r] \in GoodCall
  BY DEF CallsFiled
<1>3. QED
  BY <1>1, <1>2, LeftGood DEF Left

LEMMA AtFresh ==
    ASSUME NEW t \in Tab, tab[t] \in TabState, NEW page \in Page \ {"verify"}
    PROVE  Fresh(t, At(tab[t], page)) /\ At(tab[t], page).out = tab[t].out
  BY AtType, AtIs DEF Fresh

\* A tab opened at an address.
Opened(page, due, l) == [Blank EXCEPT !.page = page, !.due = due, !.dev = l]

LEMMA OpenedIs ==
    ASSUME NEW t \in Tab, NEW page \in Page, NEW due \in BOOLEAN, NEW l \in Link \cup {NoLink},
           due => page \in {"verify", "guard", "inside"}, page = "guard" => due,
           page = "verify" => t \in Partner
    PROVE  Fresh(t, Opened(page, due, l)) /\ ~Opened(page, due, l).out
<1> DEFINE st == Opened(page, due, l)
<1>1. Blank \in TabState
  BY DEF Blank, TabState, Page
<1>2. st \in TabState /\ st.page = page /\ (st.due <=> due)
  BY <1>1 DEF TabState, Opened
<1>3. /\ st.shown = Blank.shown /\ st.busy = Blank.busy /\ st.stale = Blank.stale
      /\ st.push = Blank.push /\ st.out = Blank.out
  BY <1>1 DEF TabState, Opened
<1> HIDE DEF st
<1>4. Blank.shown = Nobody /\ ~Blank.busy /\ ~Blank.stale /\ Blank.push = {} /\ ~Blank.out
  BY DEF Blank
<1>5. Fresh(t, st) /\ ~st.out
  BY <1>2, <1>3, <1>4 DEF Fresh
<1>6. QED
  BY <1>5 DEF st

LEMMA MovesIs ==
    ASSUME TypeOK, CallsFiled, NEW t \in Tab,
           \/ Switch(t) \/ TimerFires(t)
           \/ \E page \in Page, l \in Link \cup {NoLink} : Load(t, page, l)
    PROVE  \E st \in TabState, f \in [Slot -> GoodCall] : MoveStep(t, st, f)
<1>1. tab[t] \in TabState
  BY DEF TypeOK
<1>2. CASE Switch(t)
  <2>1. PICK page \in {"login", "register"} : tab' = [tab EXCEPT ![t] = At(@, page)]
    BY <1>2 DEF Switch
  <2>2. tab' = [tab EXCEPT ![t] = At(tab[t], page)]
    BY <2>1 DEF TypeOK
  <2>3. /\ call' = [call EXCEPT ![t] = Left(t)] /\ UNCHANGED <<jar, server, mishap>>
        /\ t \in Dashboard /\ t \notin Partner
    BY <1>2 DEF Switch
  <2>4. page \in Page \ {"verify"}
    BY DEF Page
  <2>5. MoveStep(t, At(tab[t], page), Left(t))
    BY <1>1, <2>2, <2>3, <2>4, AtFresh, LeftIs DEF MoveStep
  <2>6. QED
    BY <2>5 DEF MoveStep, Fresh
<1>3. CASE TimerFires(t)
  <2>1. PICK page \in tab[t].push :
           /\ tab' = [tab EXCEPT ![t] = [At(tab[t], page) EXCEPT !.push = tab[t].push \ {page}]]
           /\ call' = [call EXCEPT ![t] = Left(t)] /\ UNCHANGED <<jar, server, mishap>>
    BY <1>3 DEF TimerFires
  <2>2. page \in Page \ {"verify"}
    BY <1>1 DEF TabState, Page
  <2> DEFINE old == At(tab[t], page)
             st == [old EXCEPT !.push = tab[t].push \ {page}]
  <2>3. Fresh(t, old) /\ old.out = tab[t].out /\ old.push = tab[t].push
    BY <1>1, <2>2, AtFresh, AtIs
  <2>4. tab' = [tab EXCEPT ![t] = st]
    BY <2>1, Zenon
  <2> HIDE DEF old
  <2>5. Fresh(t, st) /\ st.out = tab[t].out
    BY <2>3 DEF Fresh, TabState
  <2> HIDE DEF st
  <2>6. tab[t].push # {}
    BY <2>1
  <2>7. MoveStep(t, st, Left(t))
    BY <2>1, <2>4, <2>5, <2>6, LeftIs DEF MoveStep
  <2>8. QED
    BY <2>7 DEF MoveStep, Fresh
<1>4. ASSUME NEW page \in Page, NEW l \in Link \cup {NoLink}, Load(t, page, l)
      PROVE  \E st \in TabState, f \in [Slot -> GoodCall] : MoveStep(t, st, f)
  <2>1. PICK due \in BOOLEAN : due <=> page # "login" /\ page # "register"
    OBVIOUS
  <2>2. (page # "login" /\ page # "register") = due
    BY <2>1
  <2> DEFINE st == Opened(page, due, l)
  <2>3. tab' = [tab EXCEPT ![t] = st]
    BY <1>4, <2>2, Zenon DEF Load, Opened
  <2>4. page = "verify" => t \in Partner
    BY <1>4 DEF Load, Tab
  <2>5. (due => page \in {"verify", "guard", "inside"}) /\ (page = "guard" => due)
    BY <2>1 DEF Page
  <2>9. Fresh(t, st) /\ ~st.out
    BY <2>4, <2>5, OpenedIs
  <2> HIDE DEF st
  <2>6. \A r \in Slot : call[t][r].at = "idle" /\ call[t][r] \in GoodCall
    <3>1. \A r \in Slot : call[t][r].at = "idle"
      BY <1>4, Zenon DEF Load
    <3>2. \A r \in Slot : call[t][r] \in GoodCall
      BY DEF CallsFiled
    <3>3. QED
      BY <3>1, <3>2
  <2>7. \A r \in Slot : SameRequest(call[t][r], call[t][r]) /\ call[t][r].fn = "none"
    BY <2>6 DEF GoodCall, Filed, SameRequest
  <2>8. call' = [call EXCEPT ![t] = call[t]] /\ call[t] \in [Slot -> GoodCall]
           /\ UNCHANGED <<jar, server, mishap>>
    <3>1. UNCHANGED <<jar, server, call, mishap>>
      BY <1>4, Zenon DEF Load
    <3>2. QED
      BY <3>1 DEF CallsFiled
  <2>10. MoveStep(t, st, call[t])
    BY <2>3, <2>7, <2>8, <2>9 DEF MoveStep
  <2>11. QED
    BY <2>10 DEF MoveStep, Fresh
<1>5. QED
  BY <1>2, <1>3, <1>4

LEMMA LogoutsIs ==
    ASSUME TypeOK, CallsFiled, NEW t \in Tab, NEW s \in Slot, LogoutArrives(t, s) \/ LogoutFails(t, s)
    PROVE  \E st \in TabState, f \in [Slot -> GoodCall] : LogoutStep(t, s, st, f)
<1>1. PICK out \in BOOLEAN :
         /\ tab' = [tab EXCEPT ![t] = [At(@, "login") EXCEPT !.out = out]]
         /\ \/ jar' = jar /\ ~out
            \/ jar' = NoCookies /\ call[t][s].at = "answered"
  BY DEF LogoutArrives, LogoutFails, Arrived, Under
<1> DEFINE old == At(tab[t], "login")
           st == [old EXCEPT !.out = out]
           f == [Left(t) EXCEPT ![s] = Idle]
<1>2. /\ call' = [call EXCEPT ![t] = f] /\ call[t][s].fn = "logout" /\ UNCHANGED <<server, mishap>>
  BY DEF LogoutArrives, LogoutFails, Arrived, Under
<1>3. Fresh(t, old) /\ old.page = "login"
  BY AtFresh, AtIs DEF TypeOK, Page
<1>4. tab' = [tab EXCEPT ![t] = st]
  BY <1>1 DEF TypeOK
<1> HIDE DEF old
<1>5. Fresh(t, st) /\ st.page = "login" /\ st.out = out
  BY <1>3 DEF Fresh, TabState
<1> HIDE DEF st
<1>6. /\ f \in [Slot -> GoodCall] /\ f[s] = Idle
      /\ \A r \in Slot \ {s} : SameRequest(f[r], call[t][r])
  BY LeftIs, IdleGood
<1> HIDE DEF f
<1>7. LogoutStep(t, s, st, f)
  BY <1>1, <1>2, <1>4, <1>5, <1>6 DEF LogoutStep
<1>8. QED
  BY <1>5, <1>6, <1>7 DEF Fresh

BackStep(t, st) ==
    /\ st \in TabState /\ tab' = [tab EXCEPT ![t] = st]
    /\ Kept(st, tab[t]) /\ st.busy = tab[t].busy
    /\ UNCHANGED <<jar, server, call, mishap>>

LEMMA BackIs ==
    ASSUME TypeOK, NEW t \in Tab, Back(t)
    PROVE  \E st \in TabState : BackStep(t, st)
<1> DEFINE st == [tab[t] EXCEPT !.dev = NoLink]
<1>0. tab[t] \in TabState
  BY DEF TypeOK
<1>1. st \in TabState /\ Kept(st, tab[t]) /\ st.busy = tab[t].busy
  BY <1>0 DEF TabState, Kept
<1>2. tab' = [tab EXCEPT ![t] = st] /\ UNCHANGED <<jar, server, call, mishap>>
  BY DEF Back, TypeOK
<1> HIDE DEF st
<1>3. QED
  BY <1>1, <1>2 DEF BackStep

\* Every step is one of these, for some tab and one of its requests.
DuePage == \A t \in Tab : tab[t].due => tab[t].page \in {"verify", "guard", "inside"}
Typed == TypeOK /\ CallsFiled /\ DuePage

RequestStep(t, s) ==
    \/ \E fn \in Fn, l \in MaybeLink, st \in TabState : AskStep(t, s, fn, l, st)
    \/ \E l \in MaybeLink, st \in TabState : EffectStep(t, s, EffectFn(t), l, st)
    \/ \E c \in GoodCall, user \in User, l \in MaybeLink : GrantStep(t, s, c, user, l)
    \/ \E c \in GoodCall, l \in Link : LinkStep(t, s, c, l)
    \/ \E c \in GoodCall : RevokeStep(t, s, c)
    \/ \E st \in TabState, c \in GoodCall : StoreStep(t, s, st, c)
    \/ \E st \in TabState : SettleStep(t, s, st) \/ MeStep(t, s, st) \/ NameStep(t, s, st)
    \/ \E st \in TabState, f \in [Slot -> GoodCall] : LogoutStep(t, s, st, f)

TabStep(t) ==
    \/ \E st \in TabState : BackStep(t, st)
    \/ \E st \in TabState, f \in [Slot -> GoodCall] : MoveStep(t, st, f)

LEMMA StepKinds ==
    ASSUME Typed, [Next]_vars
    PROVE  \/ \E t \in Tab, s \in Slot : RequestStep(t, s)
           \/ \E t \in Tab : TabStep(t)
           \/ \E l \in Link : LinkExpires(l)
           \/ AccessExpires
           \/ UNCHANGED vars
<1>1. TypeOK /\ CallsFiled /\ DuePage
  BY DEF Typed
<1>2. ASSUME NEW t \in Tab, NEW s \in Slot, Ask(t, s) \/ RunEffect(t, s) \/ Serve(t, s) \/ Arrive(t, s)
      PROVE  RequestStep(t, s)
  <2>1. CASE Ask(t, s)
    BY <1>1, <2>1, AskIs DEF RequestStep
  <2>2. CASE RunEffect(t, s)
    <3>1. tab[t].page \in {"verify", "guard", "inside"}
      BY <1>1, <2>2 DEF RunEffect, DuePage
    <3>2. QED
      BY <1>1, <2>2, <3>1, RunEffectIs DEF RequestStep
  <2>3. CASE Serve(t, s)
    BY <1>1, <2>3, ServeIs DEF RequestStep
  <2>4. CASE Arrive(t, s)
    <3>1. CASE LoginArrives(t, s) \/ RegisterArrives(t, s) \/ VerifyArrives(t, s)
      BY <1>1, <3>1, StoreCookiesIs DEF RequestStep
    <3>2. CASE AgainRefused(t, s) \/ SubmitFails(t, s) \/ LinkArrives(t, s)
      BY <1>1, <3>2, SettleIs DEF RequestStep
    <3>3. CASE MeArrives(t, s) \/ LoadArrives(t, s)
      BY <1>1, <3>3, MeArrivesIs, LoadArrivesIs DEF RequestStep
    <3>4. CASE LogoutArrives(t, s) \/ LogoutFails(t, s)
      BY <1>1, <3>4, LogoutsIs DEF RequestStep
    <3>5. QED
      BY <2>4, <3>1, <3>2, <3>3, <3>4 DEF Arrive
  <2>5. QED
    BY <1>2, <2>1, <2>2, <2>3, <2>4
<1>3. ASSUME NEW t \in Tab, Back(t) PROVE TabStep(t)
  BY <1>1, <1>3, BackIs DEF TabStep
<1>4. ASSUME NEW t \in Tab,
             \/ Switch(t) \/ TimerFires(t)
             \/ \E page \in Page, l \in Link \cup {NoLink} : Load(t, page, l)
      PROVE  TabStep(t)
  BY <1>1, <1>4, MovesIs DEF TabStep
<1>5. QED
  BY <1>2, <1>3, <1>4 DEF Next

-----------------------------------------------------------------------------
(* Types, and pages whose effect has not run.                              *)

LEMMA InitTyped == Init => Typed
<1> SUFFICES ASSUME Init PROVE Typed
  OBVIOUS
<1>1. jar \in Jar
  BY DEF Init, NoCookies, Jar
<1>2. tab \in [Tab -> TabState] /\ \A t \in Tab : ~tab[t].due
  BY BlankType DEF Init, Blank
<1>3. CallsFiled
  BY IdleGood DEF Init, CallsFiled
<1>4. call \in [Tab -> [Slot -> CallState]]
  BY <1>3 DEF CallsFiled, GoodCall
<1>5. QED
  BY <1>1, <1>2, <1>3, <1>4 DEF Init, Typed, TypeOK, DuePage

LEMMA NextTyped ==
    ASSUME Typed, [Next]_vars
    PROVE  Typed'
<1>0. TypeOK /\ CallsFiled /\ DuePage /\ tab \in [Tab -> TabState]
  BY DEF Typed, TypeOK
<1> DEFINE TabsTyped == tab' \in [Tab -> TabState] /\ DuePage' /\ CallsFiled'
           ServerTyped == /\ account' \in BOOLEAN
                          /\ owner' \in [Token -> User \cup {Nobody}]
                          /\ origin' \in [Token -> Link \cup {NoLink}]
                          /\ live' \subseteq Token
                          /\ link' \in [Link -> {"unused", "issued", "spent"}]
<1>1. ASSUME TabsTyped, ServerTyped, jar' \in Jar, mishap' \in BOOLEAN PROVE Typed'
  BY <1>1 DEF Typed, TypeOK, CallsFiled, GoodCall
<1>2. UNCHANGED server => ServerTyped
  BY <1>0 DEF TypeOK, server
<1>3. UNCHANGED jar => jar' \in Jar
  BY <1>0 DEF TypeOK
<1>4. UNCHANGED mishap => mishap' \in BOOLEAN
  BY <1>0 DEF TypeOK
<1>5. ASSUME NEW t \in Tab, NEW s \in Slot, NEW st, NEW c, Put(t, s, st, c),
             st.due => st.page \in {"verify", "guard", "inside"}
      PROVE  TabsTyped
  <2>1. st \in TabState /\ c \in GoodCall
    BY <1>5 DEF Put
  <2>2. CallsFiled'
    BY <1>0, <1>5, <2>1, PutCall DEF Put
  <2>3. QED
    BY <1>0, <1>5, <2>1, <2>2, PutTab DEF Put, DuePage
<1>6. ASSUME NEW t \in Tab, NEW s \in Slot, RequestStep(t, s) PROVE Typed'
  <2>1. ASSUME NEW fn \in Fn, NEW l \in MaybeLink, NEW st \in TabState, AskStep(t, s, fn, l, st)
        PROVE  Typed'
    BY <1>0, <1>1, <1>2, <1>3, <1>5, <2>1 DEF AskStep, Kept, DuePage
  <2>2. ASSUME NEW l \in MaybeLink, NEW st \in TabState, EffectStep(t, s, EffectFn(t), l, st)
        PROVE  Typed'
    BY <1>0, <1>1, <1>2, <1>3, <1>5, <2>2 DEF EffectStep, DuePage
  <2>3. ASSUME NEW c \in GoodCall, AnswerStep(t, s, c), ServerTyped PROVE Typed'
    <3>1. TabsTyped
      BY <1>0, <2>3, PutCall DEF AnswerStep, DuePage
    <3>2. QED
      BY <1>1, <1>3, <1>4, <2>3, <3>1 DEF AnswerStep
  <2>4. ASSUME NEW c \in GoodCall, NEW user \in User, NEW l \in MaybeLink, GrantStep(t, s, c, user, l)
        PROVE  Typed'
    <3>1. c.token \in Token
      BY <2>4 DEF GrantStep, AnswerStep, GoodCall, Filed
    <3>2. ServerTyped
      BY <1>0, <2>4, <3>1 DEF GrantStep, TypeOK, MaybeLink
    <3>3. QED
      BY <2>3, <2>4, <3>2 DEF GrantStep
  <2>5. ASSUME NEW c \in GoodCall, NEW l \in Link, LinkStep(t, s, c, l) PROVE Typed'
    <3>1. ServerTyped
      BY <1>0, <2>5 DEF LinkStep, TypeOK
    <3>2. QED
      BY <2>3, <2>5, <3>1 DEF LinkStep
  <2>6. ASSUME NEW c \in GoodCall, RevokeStep(t, s, c) PROVE Typed'
    <3>1. ServerTyped
      BY <1>0, <2>6 DEF RevokeStep, TypeOK
    <3>2. QED
      BY <2>3, <2>6, <3>1 DEF RevokeStep
  <2>7. ASSUME NEW st \in TabState, NEW c \in GoodCall, StoreStep(t, s, st, c) PROVE Typed'
    <3>1. ASSUME NEW old \in TabState
          PROVE  /\ Overtaken(old) \in TabState
                 /\ Overtaken(old).due = old.due /\ Overtaken(old).page = old.page
      BY DEF Overtaken, TabState
    <3>2. st.due => st.page \in {"verify", "guard", "inside"}
      <4>1. CASE st = At(tab[t], "guard")
        BY <1>0, <4>1, AtIs DEF Page
      <4>2. CASE st.page = tab[t].page /\ st.due = tab[t].due
        BY <1>0, <4>2 DEF DuePage
      <4>3. QED
        BY <2>7, <4>1, <4>2 DEF StoreStep
    <3>3. tab' \in [Tab -> TabState] /\ DuePage'
      BY <1>0, <2>7, <3>1, <3>2 DEF StoreStep, DuePage
    <3>4. CallsFiled'
      BY <1>0, <2>7, PutCall DEF StoreStep
    <3>5. jar' \in Jar
      BY <1>0, <2>7 DEF StoreStep, Jar, TypeOK
    <3>6. QED
      BY <1>1, <1>2, <2>7, <3>3, <3>4, <3>5 DEF StoreStep
  <2>8. ASSUME NEW st \in TabState, SettleStep(t, s, st) PROVE Typed'
    BY <1>0, <1>1, <1>2, <1>3, <1>5, <2>8 DEF SettleStep, DuePage
  <2>9. ASSUME NEW st \in TabState, MeStep(t, s, st) PROVE Typed'
    <3>1. st.due => st.page \in {"verify", "guard", "inside"}
      BY <1>0, <2>9, AtIs DEF MeStep, DuePage, Page
    <3>2. QED
      BY <1>1, <1>2, <1>3, <1>4, <1>5, <2>9, <3>1 DEF MeStep
  <2>10. ASSUME NEW st \in TabState, NameStep(t, s, st) PROVE Typed'
    BY <1>0, <1>1, <1>2, <1>3, <1>4, <1>5, <2>10 DEF NameStep, DuePage
  <2>11. ASSUME NEW st \in TabState, NEW f \in [Slot -> GoodCall], LogoutStep(t, s, st, f) PROVE Typed'
    <3>1. jar' \in Jar
      BY <1>3, <2>11 DEF LogoutStep, NoCookies, Jar
    <3>2. TabsTyped
      BY <1>0, <2>11, PutTab, PutCalls DEF LogoutStep, Fresh, DuePage
    <3>3. QED
      BY <1>1, <1>2, <1>4, <2>11, <3>1, <3>2 DEF LogoutStep
  <2>12. QED
    BY <1>6, <2>1, <2>2, <2>4, <2>5, <2>6, <2>7, <2>8, <2>9, <2>10, <2>11 DEF RequestStep
<1>7. ASSUME NEW t \in Tab, TabStep(t) PROVE Typed'
  <2>1. ASSUME NEW st \in TabState, BackStep(t, st) PROVE Typed'
    <3>1. TabsTyped
      BY <1>0, <2>1, PutTab DEF BackStep, Kept, DuePage, CallsFiled
    <3>2. QED
      BY <1>1, <1>2, <1>3, <1>4, <2>1, <3>1 DEF BackStep
  <2>2. ASSUME NEW st \in TabState, NEW f \in [Slot -> GoodCall], MoveStep(t, st, f) PROVE Typed'
    <3>1. /\ tab' \in [Tab -> TabState] /\ tab'[t] = st /\ \A u \in Tab \ {t} : tab'[u] = tab[u]
      BY <1>0, <2>2, PutTab DEF MoveStep, Fresh
    <3>2. CallsFiled'
      BY <1>0, <2>2, PutCalls DEF MoveStep
    <3>3. DuePage'
      BY <1>0, <2>2, <3>1 DEF MoveStep, Fresh, DuePage
    <3>4. QED
      BY <1>1, <1>2, <1>3, <1>4, <2>2, <3>1, <3>2, <3>3 DEF MoveStep
  <2>3. QED
    BY <1>7, <2>1, <2>2 DEF TabStep
<1>8. UNCHANGED <<tab, call>> => TabsTyped
  BY <1>0 DEF DuePage, CallsFiled
<1>9. ASSUME NEW l \in Link, LinkExpires(l) PROVE Typed'
  <2>1. ServerTyped
    BY <1>0, <1>9 DEF LinkExpires, TypeOK
  <2>2. QED
    BY <1>1, <1>3, <1>4, <1>8, <1>9, <2>1 DEF LinkExpires
<1>10. ASSUME AccessExpires PROVE Typed'
  <2>1. jar' \in Jar
    BY <1>0, <1>10 DEF AccessExpires, Jar, TypeOK
  <2>2. QED
    BY <1>1, <1>2, <1>4, <1>8, <1>10, <2>1 DEF AccessExpires
<1>11. UNCHANGED vars => Typed'
  BY <1>1, <1>2, <1>3, <1>4, <1>8 DEF vars
<1>12. QED
  BY <1>6, <1>7, <1>9, <1>10, <1>11, StepKinds

-----------------------------------------------------------------------------
(* A link that a token was given for is spent.                             *)

LinksSpent == \A k \in Token : origin[k] \in Link => link[origin[k]] = "spent"
Links == LinksSpent /\ LinkSpentOnce

LEMMA InitLinks == Init => Links
  BY DEF Init, Links, LinksSpent, LinkSpentOnce

LEMMA NextLinks ==
    ASSUME Typed, Links, [Next]_vars
    PROVE  Links'
<1>0. TypeOK /\ LinksSpent /\ LinkSpentOnce
  BY DEF Typed, Links
<1>1. UNCHANGED <<origin, link>> => Links'
  BY <1>0 DEF Links, LinksSpent, LinkSpentOnce
<1>2. UNCHANGED server => Links'
  BY <1>1 DEF server
<1>3. ASSUME origin' = origin, NEW l \in Link, NEW status \in {"issued", "spent"},
             link[l] # "spent", link' = [link EXCEPT ![l] = status]
      PROVE  Links'
  BY <1>0, <1>3 DEF Links, LinksSpent, LinkSpentOnce, TypeOK
<1>4. ASSUME NEW t \in Tab, NEW s \in Slot, NEW c \in GoodCall, NEW user \in User, NEW l \in MaybeLink,
             GrantStep(t, s, c, user, l)
      PROVE  Links'
  <2>1. c.token \in Token /\ origin' = [origin EXCEPT ![c.token] = l]
    BY <1>4 DEF GrantStep, AnswerStep, GoodCall, Filed
  <2>2. CASE l = NoLink /\ link' = link
    BY <1>0, <2>1, <2>2 DEF Links, LinksSpent, LinkSpentOnce, TypeOK
  <2>3. CASE link[l] = "issued" /\ link' = [link EXCEPT ![l] = "spent"]
    <3>1. \A k \in Token : origin[k] = l => l \notin Link
      BY <1>0, <2>3 DEF LinksSpent
    <3>2. LinksSpent'
      BY <1>0, <2>1, <2>3 DEF LinksSpent, TypeOK
    <3>3. LinkSpentOnce'
      BY <1>0, <2>1, <3>1 DEF LinkSpentOnce, TypeOK, MaybeLink
    <3>4. QED
      BY <3>2, <3>3 DEF Links
  <2>4. QED
    BY <1>4, <2>2, <2>3 DEF GrantStep
<1>5. ASSUME NEW t \in Tab, NEW s \in Slot, RequestStep(t, s) PROVE Links'
  BY <1>1, <1>2, <1>3, <1>4, <1>5
     DEF RequestStep, AskStep, EffectStep, LinkStep, RevokeStep, StoreStep, SettleStep, MeStep,
         NameStep, LogoutStep
<1>6. ASSUME NEW t \in Tab, TabStep(t) PROVE Links'
  BY <1>2, <1>6 DEF TabStep, BackStep, MoveStep
<1>7. ASSUME NEW l \in Link, LinkExpires(l) PROVE Links'
  BY <1>3, <1>7 DEF LinkExpires
<1>8. QED
  BY <1>2, <1>5, <1>6, <1>7, StepKinds DEF AccessExpires, vars, server

-----------------------------------------------------------------------------
(* After a log-out that was answered there are no cookies.                 *)

LEMMA InitOut == Init => OutIsOut
  BY DEF Init, OutIsOut

LEMMA NextOut ==
    ASSUME Typed, OutIsOut, [Next]_vars
    PROVE  OutIsOut'
<1>0. TypeOK /\ tab \in [Tab -> TabState]
  BY DEF Typed, TypeOK
<1>1. ASSUME NEW t \in Tab, NEW st \in TabState, tab' = [tab EXCEPT ![t] = st], st.out => tab[t].out,
             UNCHANGED jar
      PROVE  OutIsOut'
  BY <1>0, <1>1 DEF OutIsOut
<1>2. UNCHANGED <<jar, tab>> => OutIsOut'
  BY DEF OutIsOut
<1>3. ASSUME NEW t \in Tab, NEW s \in Slot, NEW st \in TabState,
             SettleStep(t, s, st) \/ MeStep(t, s, st) \/ NameStep(t, s, st)
      PROVE  OutIsOut'
  <2>1. \A page \in {"inside", "login"} : At(tab[t], page).out = tab[t].out
    BY <1>0, AtIs DEF Page
  <2>2. st.out => tab[t].out
    BY <1>3, <2>1 DEF SettleStep, MeStep, NameStep
  <2>3. QED
    BY <1>1, <1>3, <2>2 DEF SettleStep, MeStep, NameStep, Put
<1>4. ASSUME NEW t \in Tab, NEW s \in Slot, NEW st \in TabState, NEW c \in GoodCall, StoreStep(t, s, st, c)
      PROVE  OutIsOut'
  <2>1. ASSUME NEW old \in TabState PROVE ~Overtaken(old).out
    BY DEF Overtaken, TabState
  <2>2. \A u \in Tab : ~tab'[u].out
    BY <1>0, <1>4, <2>1 DEF StoreStep
  <2>3. QED
    BY <2>2 DEF OutIsOut
<1>5. ASSUME NEW t \in Tab, NEW s \in Slot, NEW st \in TabState, NEW f \in [Slot -> GoodCall],
             LogoutStep(t, s, st, f)
      PROVE  OutIsOut'
  <2>1. CASE jar' = jar /\ ~st.out
    BY <1>1, <1>5, <2>1 DEF LogoutStep
  <2>2. CASE jar' = NoCookies
    BY <2>2 DEF OutIsOut
  <2>3. QED
    BY <1>5, <2>1, <2>2 DEF LogoutStep
<1>6. ASSUME NEW t \in Tab, NEW s \in Slot, RequestStep(t, s) PROVE OutIsOut'
  <2>1. ASSUME NEW fn \in Fn, NEW l \in MaybeLink, NEW st \in TabState, AskStep(t, s, fn, l, st)
        PROVE  OutIsOut'
    BY <1>1, <2>1 DEF AskStep, Put, Kept
  <2>2. ASSUME NEW l \in MaybeLink, NEW st \in TabState, EffectStep(t, s, EffectFn(t), l, st)
        PROVE  OutIsOut'
    BY <1>1, <2>2 DEF EffectStep, Put
  <2>3. ASSUME NEW c \in GoodCall, AnswerStep(t, s, c) PROVE OutIsOut'
    BY <1>2, <2>3 DEF AnswerStep
  <2>4. QED
    BY <1>3, <1>4, <1>5, <1>6, <2>1, <2>2, <2>3 DEF RequestStep, GrantStep, LinkStep, RevokeStep
<1>7. ASSUME NEW t \in Tab, TabStep(t) PROVE OutIsOut'
  BY <1>1, <1>7 DEF TabStep, BackStep, Kept, MoveStep
<1>8. ASSUME AccessExpires PROVE OutIsOut'
  <2>1. jar # NoCookies /\ tab' = tab
    BY <1>8 DEF AccessExpires, NoCookies
  <2>2. QED
    BY <2>1 DEF OutIsOut
<1>9. QED
  BY <1>2, <1>6, <1>7, <1>8, StepKinds DEF LinkExpires, vars

-----------------------------------------------------------------------------
(* What a tab is waiting for: the answer of a guard or of what loads the   *)
(* name finds the page that asked, and a partner's tab has one form, one   *)
(* guard or one log-out under way.                                         *)

Guarding(c) == c.fn = "me" /\ c.mine
Loading(c) == c.fn = "load" /\ c.mine
Attends(c) == c.fn \in {"link", "verify", "me", "logout"}
Awaited(st, fn) ==
    \/ fn \in {"link", "verify"} /\ st.page = "login" /\ st.busy
    \/ fn = "verify" /\ st.page = "verify" /\ ~st.due
    \/ fn = "me" /\ st.page = "guard" /\ ~st.due
    \/ fn = "logout" /\ st.page = "inside" /\ st.busy /\ ~st.due

PageFacts(t, st, cs) ==
    /\ st.due => st.shown = Nobody
    /\ st.page = "verify" => t \in Partner
    /\ \A s \in Slot : Guarding(cs[s]) =>
          st.page = "guard" /\ ~st.due /\ \A r \in Slot : Guarding(cs[r]) => r = s
    /\ \A s \in Slot : Loading(cs[s]) => st.page = "inside" /\ ~st.due
    /\ \A s \in Slot : cs[s].fn = "verify" => t \in Partner

PartnerFacts(t, st, cs) ==
    t \in Partner =>
        /\ st.push = {}
        /\ \A s \in Slot : cs[s].fn \notin {"login", "again", "register"}
        /\ \A s \in Slot : Attends(cs[s]) =>
              Awaited(st, cs[s].fn) /\ \A r \in Slot : Attends(cs[r]) => r = s

TabFact(t, st, cs) == PageFacts(t, st, cs) /\ PartnerFacts(t, st, cs)
TabFacts == \A t \in Tab : TabFact(t, tab[t], call[t])

LEMMA InitTabFacts == Init => TabFacts
<1> SUFFICES ASSUME Init, NEW t \in Tab PROVE TabFact(t, tab[t], call[t])
  BY DEF TabFacts
<1>1. \A s \in Slot : call[t][s].fn = "none"
  BY DEF Init, Idle
<1>2. tab[t].page = "login" /\ ~tab[t].due /\ tab[t].push = {}
  BY DEF Init, Blank
<1>3. QED
  BY <1>1, <1>2 DEF TabFact, PageFacts, PartnerFacts, Guarding, Loading, Attends

\* One request that is closed or new.
LEMMA ClosedFacts ==
    ASSUME NEW t \in Tab, NEW st, NEW cs \in [Slot -> GoodCall], NEW s \in Slot, TabFact(t, st, cs)
    PROVE  TabFact(t, st, [cs EXCEPT ![s] = Idle])
<1> DEFINE ds == [cs EXCEPT ![s] = Idle]
<1>1. ds[s].fn = "none" /\ \A r \in Slot \ {s} : ds[r] = cs[r]
  BY DEF Idle
<1> HIDE DEF ds
<1>2. \A r \in Slot : /\ Guarding(ds[r]) => Guarding(cs[r]) /\ ds[r] = cs[r]
                      /\ Loading(ds[r]) => Loading(cs[r])
                      /\ Attends(ds[r]) => Attends(cs[r]) /\ ds[r] = cs[r]
                      /\ ds[r].fn \in {cs[r].fn, "none"}
  BY <1>1 DEF Guarding, Loading, Attends
<1>3. PageFacts(t, st, ds)
  BY <1>2 DEF TabFact, PageFacts
<1>4. PartnerFacts(t, st, ds)
  BY <1>2 DEF TabFact, PartnerFacts
<1>5. QED
  BY <1>3, <1>4 DEF TabFact, ds

LEMMA AskFacts ==
    ASSUME Typed, NEW t \in Tab, NEW s \in Slot, NEW fn \in Fn, NEW l \in MaybeLink, NEW st \in TabState,
           AskStep(t, s, fn, l, st), TabFact(t, tab[t], call[t])
    PROVE  TabFact(t, st, [call[t] EXCEPT ![s] = Sent(fn, l)])
<1> DEFINE cs == call[t]
           c == Sent(fn, l)
           ds == [cs EXCEPT ![s] = c]
<1>1. cs \in [Slot -> GoodCall]
  BY DEF Typed, CallsFiled
<1>2. c.fn = fn
  BY DEF Sent, Idle
<1>3. Asked(t, fn) /\ Kept(st, tab[t]) /\ st.busy /\ t \in Dashboard \cup Partner
  BY DEF AskStep, Tab
<1> HIDE DEF cs, c
<1>4. ds[s] = c /\ \A r \in Slot \ {s} : ds[r] = cs[r]
  BY <1>1
<1> HIDE DEF ds
<1>5. ~Guarding(c) /\ ~Loading(c)
  BY <1>2, <1>3 DEF Asked, Guarding, Loading
<1>6. PageFacts(t, st, ds)
  <2>1. \A r \in Slot : (Guarding(ds[r]) => Guarding(cs[r]) /\ r # s) /\ (Loading(ds[r]) => Loading(cs[r]))
    BY <1>4, <1>5
  <2>2. \A r \in Slot : ds[r].fn = "verify" => t \in Partner
    BY <1>2, <1>3, <1>4 DEF Asked, TabFact, PageFacts, cs
  <2>3. QED
    BY <1>3, <2>1, <2>2 DEF TabFact, PageFacts, Kept, cs
<1>7. ASSUME t \in Partner PROVE PartnerFacts(t, st, ds)
  <2>1. \A r \in Slot : ~Attends(cs[r])
    <3>1. \A r \in Slot : Attends(cs[r]) => Awaited(tab[t], cs[r].fn)
      BY <1>7 DEF TabFact, PartnerFacts, cs
    <3>2. ~tab[t].busy /\ (tab[t].page = "login" \/ tab[t].page = "inside")
      BY <1>3, <1>7 DEF Asked
    <3>3. QED
      BY <3>1, <3>2 DEF Awaited
  <2>2. fn \in {"link", "verify", "logout"} /\ Awaited(st, fn)
    BY <1>3, <1>7 DEF Asked, Awaited, Kept
  <2>3. \A r \in Slot : Attends(ds[r]) => r = s /\ Awaited(st, ds[r].fn)
    BY <1>2, <1>4, <2>1, <2>2
  <2>4. \A r \in Slot : ds[r].fn \notin {"login", "again", "register"}
    BY <1>2, <1>4, <1>7, <2>2 DEF TabFact, PartnerFacts, cs
  <2>5. st.push = {}
    BY <1>3, <1>7 DEF TabFact, PartnerFacts, Kept
  <2>6. QED
    BY <2>3, <2>4, <2>5 DEF PartnerFacts
<1>8. QED
  BY <1>6, <1>7 DEF TabFact, PartnerFacts, ds, cs, c

LEMMA EffectFacts ==
    ASSUME Typed, NEW t \in Tab, NEW s \in Slot, NEW l \in MaybeLink, NEW st \in TabState,
           EffectStep(t, s, EffectFn(t), l, st), TabFact(t, tab[t], call[t])
    PROVE  TabFact(t, st, [call[t] EXCEPT ![s] = Sent(EffectFn(t), l)])
<1> DEFINE cs == call[t]
           fn == EffectFn(t)
           c == Sent(fn, l)
           ds == [cs EXCEPT ![s] = c]
<1>1. cs \in [Slot -> GoodCall]
  BY DEF Typed, CallsFiled
<1>2. c.fn = fn
  BY DEF Sent, Idle
<1>3. /\ tab[t].due /\ ~st.due /\ st.page = tab[t].page /\ st.push = tab[t].push
      /\ tab[t].page \in {"verify", "guard", "inside"}
  BY DEF EffectStep, Typed, DuePage
<1>4. \/ tab[t].page = "verify" /\ fn = "verify"
      \/ tab[t].page = "guard" /\ fn = "me"
      \/ tab[t].page = "inside" /\ fn = "load"
  BY <1>3 DEF EffectFn
<1> HIDE DEF cs, c, fn
<1>5. ds[s] = c /\ \A r \in Slot \ {s} : ds[r] = cs[r]
  BY <1>1
<1> HIDE DEF ds
<1>6. \A r \in Slot : ~Guarding(cs[r]) /\ ~Loading(cs[r])
  BY <1>3 DEF TabFact, PageFacts, cs
<1>7. PageFacts(t, st, ds)
  <2>1. \A r \in Slot : Guarding(ds[r]) => r = s /\ st.page = "guard"
    BY <1>2, <1>3, <1>4, <1>5, <1>6 DEF Guarding
  <2>2. \A r \in Slot : Loading(ds[r]) => st.page = "inside"
    BY <1>2, <1>3, <1>4, <1>5, <1>6 DEF Loading
  <2>3. \A r \in Slot : ds[r].fn = "verify" => t \in Partner
    BY <1>2, <1>3, <1>4, <1>5 DEF TabFact, PageFacts, cs
  <2>4. QED
    BY <1>3, <2>1, <2>2, <2>3 DEF TabFact, PageFacts
<1>8. ASSUME t \in Partner PROVE PartnerFacts(t, st, ds)
  <2>1. \A r \in Slot : ~Attends(cs[r])
    <3>1. \A r \in Slot : Attends(cs[r]) => Awaited(tab[t], cs[r].fn)
      BY <1>8 DEF TabFact, PartnerFacts, cs
    <3>2. QED
      BY <1>3, <3>1 DEF Awaited
  <2>2. \A r \in Slot : Attends(ds[r]) => r = s /\ Awaited(st, ds[r].fn)
    BY <1>2, <1>3, <1>4, <1>5, <2>1 DEF Awaited, Attends
  <2>3. \A r \in Slot : ds[r].fn \notin {"login", "again", "register"}
    BY <1>2, <1>4, <1>5, <1>8 DEF TabFact, PartnerFacts, cs
  <2>4. QED
    BY <1>3, <1>8, <2>2, <2>3 DEF TabFact, PartnerFacts
<1>9. QED
  BY <1>7, <1>8 DEF TabFact, PartnerFacts, ds, cs, c, fn

\* The facts do not depend on anything else of a tab or of its requests.
LEMMA SameFacts ==
    ASSUME NEW t \in Tab, NEW st, NEW cs, NEW next, NEW ds, TabFact(t, st, cs),
           next.page = st.page, next.due = st.due, next.shown = st.shown, next.push = st.push,
           next.busy = st.busy,
           \A r \in Slot : ds[r].fn = cs[r].fn /\ ds[r].mine = cs[r].mine
    PROVE  TabFact(t, next, ds)
<1>1. \A r \in Slot : /\ Guarding(ds[r]) <=> Guarding(cs[r])
                      /\ Loading(ds[r]) <=> Loading(cs[r])
                      /\ Attends(ds[r]) <=> Attends(cs[r])
  BY DEF Guarding, Loading, Attends
<1>2. \A fn : Awaited(st, fn) => Awaited(next, fn)
  BY DEF Awaited
<1>3. PageFacts(t, next, ds)
  BY <1>1 DEF TabFact, PageFacts
<1>4. PartnerFacts(t, next, ds)
  BY <1>1, <1>2 DEF TabFact, PartnerFacts
<1>5. QED
  BY <1>3, <1>4 DEF TabFact

\* A page that has been left for another, with nothing under way that would find it.
LEMMA FreshFacts ==
    ASSUME NEW t \in Tab, NEW st, NEW cs,
           st.due => st.shown = Nobody, st.page = "verify" => t \in Partner,
           \A r \in Slot : ~Guarding(cs[r]) /\ ~Loading(cs[r]),
           \A r \in Slot : cs[r].fn = "verify" => t \in Partner,
           t \in Partner => st.push = {},
           t \in Partner => \A r \in Slot : ~Attends(cs[r]) /\ cs[r].fn \notin {"login", "again", "register"}
    PROVE  TabFact(t, st, cs)
  BY DEF TabFact, PageFacts, PartnerFacts

LEMMA SettleFacts ==
    ASSUME Typed, NEW t \in Tab, NEW s \in Slot, NEW st \in TabState, SettleStep(t, s, st),
           TabFact(t, tab[t], call[t])
    PROVE  TabFact(t, st, [call[t] EXCEPT ![s] = Idle])
<1> DEFINE cs == call[t]
           ds == [cs EXCEPT ![s] = Idle]
<1>1. cs \in [Slot -> GoodCall]
  BY DEF Typed, CallsFiled
<1>2. TabFact(t, tab[t], ds)
  BY <1>1, ClosedFacts
<1>3. /\ cs[s].fn \in SignInFn \cup {"link"}
      /\ st.page = tab[t].page /\ st.due = tab[t].due /\ st.shown = tab[t].shown
      /\ st.push = tab[t].push \/ cs[s].fn = "again"
  BY DEF SettleStep
<1>4. ds[s].fn = "none" /\ \A r \in Slot \ {s} : ds[r] = cs[r]
  BY <1>1 DEF Idle
<1> HIDE DEF ds
<1>5. PageFacts(t, st, ds)
  BY <1>2, <1>3 DEF TabFact, PageFacts
<1>6. ASSUME t \in Partner PROVE PartnerFacts(t, st, ds)
  <2>1. cs[s].fn \notin {"login", "again", "register"}
    BY <1>6 DEF TabFact, PartnerFacts
  <2>2. Attends(cs[s])
    BY <1>3, <2>1 DEF Attends, SignInFn
  <2>3. \A r \in Slot : ~Attends(ds[r])
    BY <1>4, <1>6, <2>2 DEF TabFact, PartnerFacts, Attends
  <2>4. st.push = {} /\ \A r \in Slot : ds[r].fn \notin {"login", "again", "register"}
    BY <1>2, <1>3, <1>6, <2>1 DEF TabFact, PartnerFacts
  <2>5. QED
    BY <2>3, <2>4 DEF PartnerFacts
<1>7. QED
  BY <1>5, <1>6 DEF TabFact, PartnerFacts, ds

LEMMA MeFacts ==
    ASSUME Typed, NEW t \in Tab, NEW s \in Slot, NEW st \in TabState, MeStep(t, s, st),
           TabFact(t, tab[t], call[t])
    PROVE  TabFact(t, st, [call[t] EXCEPT ![s] = Idle])
<1> DEFINE cs == call[t]
           ds == [cs EXCEPT ![s] = Idle]
<1>1. cs \in [Slot -> GoodCall] /\ tab[t] \in TabState
  BY DEF Typed, CallsFiled, TypeOK
<1>2. TabFact(t, tab[t], ds)
  BY <1>1, ClosedFacts
<1>3. CASE st = tab[t]
  BY <1>2, <1>3
<1>4. ASSUME NEW page \in {"inside", "login"}, st = At(tab[t], page), cs[s].mine
      PROVE  TabFact(t, st, ds)
  <2>1. ds[s] = Idle /\ \A r \in Slot \ {s} : ds[r] = cs[r]
    BY <1>1
  <2>2. Guarding(cs[s]) /\ Attends(cs[s])
    BY <1>4 DEF MeStep, Guarding, Attends
  <2>3. ~Guarding(ds[s]) /\ ~Loading(ds[s]) /\ ~Attends(ds[s])
    BY <2>1 DEF Idle, Guarding, Loading, Attends
  <2> HIDE DEF ds
  <2>4. \A r \in Slot : ~Guarding(ds[r])
    BY <2>1, <2>2, <2>3 DEF TabFact, PageFacts
  <2>5. \A r \in Slot : ~Loading(ds[r])
    BY <2>1, <2>2, <2>3 DEF TabFact, PageFacts
  <2>6. t \in Partner => \A r \in Slot : ~Attends(ds[r])
    BY <2>1, <2>2, <2>3 DEF TabFact, PartnerFacts
  <2>7. st.page = page /\ st.shown = Nobody /\ st.push = tab[t].push
    BY <1>1, <1>4, AtIs DEF Page
  <2>8. t \in Partner => st.push = {} /\ \A r \in Slot : ds[r].fn \notin {"login", "again", "register"}
    BY <1>2, <2>7 DEF TabFact, PartnerFacts
  <2>9. \A r \in Slot : ds[r].fn = "verify" => t \in Partner
    BY <1>2 DEF TabFact, PageFacts
  <2>10. QED
    BY <2>4, <2>5, <2>6, <2>7, <2>8, <2>9, FreshFacts
<1>5. QED
  BY <1>3, <1>4 DEF MeStep

LEMMA NameFacts ==
    ASSUME Typed, NEW t \in Tab, NEW s \in Slot, NEW st \in TabState, NameStep(t, s, st),
           TabFact(t, tab[t], call[t])
    PROVE  TabFact(t, st, [call[t] EXCEPT ![s] = Idle])
<1> DEFINE cs == call[t]
           ds == [cs EXCEPT ![s] = Idle]
<1>1. cs \in [Slot -> GoodCall]
  BY DEF Typed, CallsFiled
<1>2. TabFact(t, tab[t], ds)
  BY <1>1, ClosedFacts
<1> HIDE DEF ds
<1>3. CASE st = tab[t]
  BY <1>2, <1>3 DEF ds
<1>4. CASE /\ cs[s].mine
           /\ st.page = tab[t].page /\ st.due = tab[t].due /\ st.busy = tab[t].busy
           /\ st.push = tab[t].push
  <2>1. ~tab[t].due
    BY <1>4 DEF NameStep, TabFact, PageFacts, Loading
  <2>2. PageFacts(t, st, ds)
    BY <1>2, <1>4, <2>1 DEF TabFact, PageFacts
  <2>3. \A fn : Awaited(tab[t], fn) => Awaited(st, fn)
    BY <1>4 DEF Awaited
  <2>4. PartnerFacts(t, st, ds)
    BY <1>2, <1>4, <2>3 DEF TabFact, PartnerFacts
  <2>5. QED
    BY <2>2, <2>4 DEF TabFact, ds
<1>5. QED
  BY <1>3, <1>4 DEF NameStep

LEMMA OvertakenIs ==
    ASSUME NEW st \in TabState
    PROVE  /\ Overtaken(st).page = st.page /\ Overtaken(st).due = st.due
           /\ Overtaken(st).shown = st.shown /\ Overtaken(st).push = st.push
           /\ Overtaken(st).busy = st.busy /\ Overtaken(st).stale
  BY DEF Overtaken, TabState

LEMMA StoreFacts ==
    ASSUME Typed, NEW t \in Tab, NEW s \in Slot, NEW st \in TabState, NEW c \in GoodCall,
           StoreStep(t, s, st, c), TabFact(t, tab[t], call[t])
    PROVE  TabFact(t, Overtaken(st), [call[t] EXCEPT ![s] = c])
<1> DEFINE cs == call[t]
           ds == [cs EXCEPT ![s] = c]
           next == Overtaken(st)
<1>1. cs \in [Slot -> GoodCall] /\ tab[t] \in TabState
  BY DEF Typed, CallsFiled, TypeOK
<1>2. ds[s] = c /\ \A r \in Slot \ {s} : ds[r] = cs[r]
  BY <1>1
<1>3. c.fn \in {"none", "again"}
  BY DEF StoreStep, Idle
<1>4. next.page = st.page /\ next.due = st.due /\ next.shown = st.shown /\ next.push = st.push
         /\ next.busy = st.busy
  BY OvertakenIs
<1> HIDE DEF ds, next
<1>5. ~Guarding(ds[s]) /\ ~Loading(ds[s]) /\ ~Attends(ds[s]) /\ ds[s].fn # "verify"
  BY <1>2, <1>3 DEF Guarding, Loading, Attends
<1>6. CASE cs[s].fn = "verify" /\ st = At(tab[t], "guard")
  <2>1. t \in Partner /\ Attends(cs[s]) /\ c = Idle
    BY <1>6 DEF TabFact, PageFacts, Attends, StoreStep
  <2>2. Awaited(tab[t], "verify") /\ \A r \in Slot : ~Attends(ds[r])
    BY <1>2, <1>5, <1>6, <2>1 DEF TabFact, PartnerFacts
  <2>3. tab[t].page \in {"login", "verify"}
    BY <2>2 DEF Awaited
  <2>4. \A r \in Slot : ~Guarding(ds[r]) /\ ~Loading(ds[r])
    BY <1>2, <1>5, <2>3 DEF TabFact, PageFacts
  <2>5. next.shown = Nobody /\ next.push = tab[t].push /\ next.page = "guard"
    BY <1>1, <1>4, <1>6, AtIs DEF Page
  <2>6. ds[s].fn = "none"
    BY <1>2, <2>1 DEF Idle
  <2>7. \A r \in Slot : ds[r].fn \notin {"login", "again", "register"}
    BY <1>2, <2>1, <2>6 DEF TabFact, PartnerFacts
  <2>8. tab[t].push = {}
    BY <2>1 DEF TabFact, PartnerFacts
  <2>9. QED
    BY <2>1, <2>2, <2>4, <2>5, <2>7, <2>8, FreshFacts DEF ds, next
<1>7. CASE cs[s].fn # "verify" /\ st.page = tab[t].page /\ st.due = tab[t].due /\ st.shown = tab[t].shown
  <2>1. t \notin Partner
    BY <1>7 DEF TabFact, PartnerFacts, StoreStep, SignInFn
  <2>2. PageFacts(t, next, ds)
    BY <1>2, <1>4, <1>5, <1>7 DEF TabFact, PageFacts
  <2>3. QED
    BY <2>1, <2>2 DEF TabFact, PartnerFacts, ds, next
<1>8. QED
  BY <1>6, <1>7 DEF StoreStep

LEMMA MoveFacts ==
    ASSUME NEW t \in Tab, NEW st \in TabState, NEW f \in [Slot -> GoodCall],
           MoveStep(t, st, f), TabFact(t, tab[t], call[t])
    PROVE  TabFact(t, st, f)
<1>1. \A r \in Slot : f[r].fn = call[t][r].fn /\ ~f[r].mine
  BY DEF MoveStep, SameRequest
<1>2. \A r \in Slot : ~Guarding(f[r]) /\ ~Loading(f[r])
  BY <1>1 DEF Guarding, Loading
<1>3. t \in Partner => st.push = {} /\ \A r \in Slot : f[r].fn = "none"
  BY <1>1 DEF MoveStep, Fresh, TabFact, PartnerFacts
<1>4. \A r \in Slot : f[r].fn = "verify" => t \in Partner
  BY <1>1 DEF TabFact, PageFacts
<1>5. QED
  BY <1>2, <1>3, <1>4, FreshFacts DEF MoveStep, Fresh, Attends

LEMMA LogoutFacts ==
    ASSUME NEW t \in Tab, NEW s \in Slot, NEW st \in TabState, NEW f \in [Slot -> GoodCall],
           LogoutStep(t, s, st, f), TabFact(t, tab[t], call[t])
    PROVE  TabFact(t, st, f)
<1>1. /\ f[s].fn = "none" /\ ~f[s].mine
      /\ \A r \in Slot \ {s} : f[r].fn = call[t][r].fn /\ ~f[r].mine
  BY DEF LogoutStep, SameRequest, Idle
<1>2. \A r \in Slot : ~Guarding(f[r]) /\ ~Loading(f[r])
  BY <1>1 DEF Guarding, Loading
<1>3. Attends(call[t][s])
  BY DEF LogoutStep, Attends
<1>4. ASSUME t \in Partner, NEW r \in Slot
      PROVE  ~Attends(f[r]) /\ f[r].fn \notin {"login", "again", "register"}
  BY <1>1, <1>3, <1>4 DEF TabFact, PartnerFacts, Attends
<1>5. \A r \in Slot : f[r].fn = "verify" => t \in Partner
  BY <1>1 DEF TabFact, PageFacts
<1>6. t \in Partner => st.push = {}
  BY DEF LogoutStep, Fresh, TabFact, PartnerFacts
<1>7. QED
  BY <1>2, <1>4, <1>5, <1>6, FreshFacts DEF LogoutStep, Fresh

LEMMA NextTabFacts ==
    ASSUME Typed, TabFacts, [Next]_vars
    PROVE  TabFacts'
<1>0. tab \in [Tab -> TabState] /\ CallsFiled
  BY DEF Typed, TypeOK
<1>1. ASSUME NEW t \in Tab, TabFact(t, tab'[t], call'[t]),
             \A u \in Tab \ {t} : tab'[u] = tab[u] /\ call'[u] = call[u]
      PROVE  TabFacts'
  BY <1>1 DEF TabFacts, TabFact, PageFacts, PartnerFacts
<1>2. ASSUME NEW t \in Tab, NEW s \in Slot, NEW st \in TabState, NEW c \in GoodCall, Put(t, s, st, c),
             TabFact(t, st, [call[t] EXCEPT ![s] = c])
      PROVE  TabFacts'
  <2>1. tab'[t] = st /\ call'[t] = [call[t] EXCEPT ![s] = c]
    BY <1>0, <1>2 DEF Put, CallsFiled
  <2>2. \A u \in Tab \ {t} : tab'[u] = tab[u] /\ call'[u] = call[u]
    BY <1>0, <1>2 DEF Put, CallsFiled
  <2>3. QED
    BY <1>1, <1>2, <2>1, <2>2
<1>3. ASSUME NEW t \in Tab, NEW s \in Slot, RequestStep(t, s) PROVE TabFacts'
  <2>0. TabFact(t, tab[t], call[t]) /\ tab[t] \in TabState
    BY <1>0 DEF TabFacts
  <2>1. ASSUME NEW fn \in Fn, NEW l \in MaybeLink, NEW st \in TabState, AskStep(t, s, fn, l, st)
        PROVE  TabFacts'
    <3>1. Put(t, s, st, Sent(fn, l)) /\ Sent(fn, l) \in GoodCall
      BY <2>1 DEF AskStep, Put
    <3>2. QED
      BY <1>2, <2>0, <2>1, <3>1, AskFacts
  <2>2. ASSUME NEW l \in MaybeLink, NEW st \in TabState, EffectStep(t, s, EffectFn(t), l, st)
        PROVE  TabFacts'
    <3>1. Put(t, s, st, Sent(EffectFn(t), l)) /\ Sent(EffectFn(t), l) \in GoodCall
      BY <2>2 DEF EffectStep, Put
    <3>2. QED
      BY <1>2, <2>0, <2>2, <3>1, EffectFacts
  <2>3. ASSUME NEW c \in GoodCall, AnswerStep(t, s, c) PROVE TabFacts'
    <3> DEFINE ds == [call[t] EXCEPT ![s] = c]
    <3>1. \A r \in Slot : ds[r].fn = call[t][r].fn /\ ds[r].mine = call[t][r].mine
      BY <1>0, <2>3 DEF AnswerStep, CallsFiled
    <3>2. tab' = tab /\ call'[t] = ds /\ \A u \in Tab \ {t} : call'[u] = call[u]
      BY <1>0, <2>3 DEF AnswerStep, CallsFiled
    <3> HIDE DEF ds
    <3>3. TabFact(t, tab[t], ds)
      BY <2>0, <3>1, SameFacts
    <3>4. QED
      BY <1>1, <3>2, <3>3
  <2>4. ASSUME NEW st \in TabState, NEW c \in GoodCall, StoreStep(t, s, st, c) PROVE TabFacts'
    <3>1. /\ tab'[t] = Overtaken(st) /\ \A u \in Tab \ {t} : tab'[u] = Overtaken(tab[u])
          /\ call'[t] = [call[t] EXCEPT ![s] = c] /\ \A u \in Tab \ {t} : call'[u] = call[u]
      BY <1>0, <2>4 DEF StoreStep, CallsFiled
    <3>2. TabFact(t, tab'[t], call'[t])
      BY <2>0, <2>4, <3>1, StoreFacts
    <3>3. ASSUME NEW u \in Tab \ {t} PROVE TabFact(u, tab'[u], call'[u])
      BY <1>0, <3>1, OvertakenIs, SameFacts DEF TabFacts
    <3>4. QED
      BY <3>2, <3>3 DEF TabFacts, TabFact, PageFacts, PartnerFacts
  <2>5. ASSUME NEW st \in TabState, SettleStep(t, s, st) \/ MeStep(t, s, st) \/ NameStep(t, s, st)
        PROVE  TabFacts'
    <3>1. Put(t, s, st, Idle)
      BY <2>5 DEF SettleStep, MeStep, NameStep
    <3>2. TabFact(t, st, [call[t] EXCEPT ![s] = Idle])
      BY <2>0, <2>5, SettleFacts, MeFacts, NameFacts
    <3>3. QED
      BY <1>2, <3>1, <3>2, IdleGood
  <2>6. ASSUME NEW st \in TabState, NEW f \in [Slot -> GoodCall], LogoutStep(t, s, st, f) PROVE TabFacts'
    <3>1. /\ tab'[t] = st /\ call'[t] = f
          /\ \A u \in Tab \ {t} : tab'[u] = tab[u] /\ call'[u] = call[u]
      BY <1>0, <2>6, PutTab, PutCalls DEF LogoutStep
    <3>2. QED
      BY <1>1, <2>0, <2>6, <3>1, LogoutFacts
  <2>7. QED
    BY <1>3, <2>1, <2>2, <2>3, <2>4, <2>5, <2>6 DEF RequestStep, GrantStep, LinkStep, RevokeStep
<1>4. ASSUME NEW t \in Tab, TabStep(t) PROVE TabFacts'
  <2>0. TabFact(t, tab[t], call[t])
    BY DEF TabFacts
  <2>1. ASSUME NEW st \in TabState, BackStep(t, st) PROVE TabFacts'
    <3>1. tab'[t] = st /\ call' = call /\ \A u \in Tab \ {t} : tab'[u] = tab[u]
      BY <1>0, <2>1, PutTab DEF BackStep
    <3>2. TabFact(t, st, call[t])
      BY <2>0, <2>1, SameFacts DEF BackStep, Kept
    <3>3. QED
      BY <1>1, <3>1, <3>2
  <2>2. ASSUME NEW st \in TabState, NEW f \in [Slot -> GoodCall], MoveStep(t, st, f) PROVE TabFacts'
    <3>1. /\ tab'[t] = st /\ call'[t] = f
          /\ \A u \in Tab \ {t} : tab'[u] = tab[u] /\ call'[u] = call[u]
      BY <1>0, <2>2, PutTab, PutCalls DEF MoveStep
    <3>2. QED
      BY <1>1, <2>0, <2>2, <3>1, MoveFacts
  <2>3. QED
    BY <1>4, <2>1, <2>2 DEF TabStep
<1>5. UNCHANGED <<tab, call>> => TabFacts'
  BY DEF TabFacts, TabFact, PageFacts, PartnerFacts
<1>6. QED
  BY <1>3, <1>4, <1>5, StepKinds DEF LinkExpires, AccessExpires, vars

-----------------------------------------------------------------------------
(* The name that is shown, or on its way, is the one of the cookies, until *)
(* somebody signs in.                                                      *)

NameFact(st, cs, access) ==
    /\ st.shown # Nobody /\ ~st.stale => access \in {st.shown, Nobody}
    /\ \A s \in Slot : Loading(cs[s]) /\ ~st.stale => access \in {cs[s].cookies.access, Nobody}
Names == \A t \in Tab : NameFact(tab[t], call[t], jar.access)

LEMMA InitNames == Init => Names
  BY DEF Init, Names, NameFact, Blank, Idle, Loading

LEMMA NextNames ==
    ASSUME Typed, TabFacts, TabFacts', Names, [Next]_vars
    PROVE  Names'
<1>0. tab \in [Tab -> TabState] /\ CallsFiled /\ \A u \in Tab : NameFact(tab[u], call[u], jar.access)
  BY DEF Typed, TypeOK, Names
<1>1. ASSUME NEW t \in Tab, jar'.access \in {jar.access, Nobody}, NameFact(tab'[t], call'[t], jar'.access),
             \A u \in Tab \ {t} : tab'[u] = tab[u] /\ call'[u] = call[u]
      PROVE  Names'
  <2>1. \A u \in Tab \ {t} : NameFact(tab'[u], call'[u], jar'.access)
    BY <1>0, <1>1 DEF NameFact
  <2>2. QED
    BY <1>1, <2>1 DEF Names
<1>2. ASSUME jar'.access \in {jar.access, Nobody}, UNCHANGED <<tab, call>> PROVE Names'
  BY <1>0, <1>2 DEF Names, NameFact
<1>3. ASSUME NEW t \in Tab, NEW s \in Slot, NEW st \in TabState, NEW c \in GoodCall, Put(t, s, st, c),
             jar' = jar
      PROVE  /\ tab'[t] = st /\ call'[t] = [call[t] EXCEPT ![s] = c]
             /\ call'[t][s] = c /\ \A r \in Slot \ {s} : call'[t][r] = call[t][r]
             /\ NameFact(st, [call[t] EXCEPT ![s] = c], jar.access) => Names'
  <2>1. /\ tab'[t] = st /\ \A u \in Tab \ {t} : tab'[u] = tab[u]
        /\ call'[t] = [call[t] EXCEPT ![s] = c] /\ \A u \in Tab \ {t} : call'[u] = call[u]
    BY <1>0, <1>3 DEF Put, CallsFiled
  <2>2. call'[t][s] = c /\ \A r \in Slot \ {s} : call'[t][r] = call[t][r]
    BY <1>0, <2>1 DEF CallsFiled
  <2>3. QED
    BY <1>1, <1>3, <2>1, <2>2
<1>4. ASSUME NEW t \in Tab, NEW s \in Slot, RequestStep(t, s) PROVE Names'
  <2>0. NameFact(tab[t], call[t], jar.access) /\ tab[t] \in TabState
    BY <1>0
  <2>1. ASSUME NEW st \in TabState, NEW c \in GoodCall, Put(t, s, st, c), jar' = jar, ~Loading(c),
               st.shown = tab[t].shown, st.stale = tab[t].stale
        PROVE  Names'
    <3> DEFINE ds == [call[t] EXCEPT ![s] = c]
    <3>1. ds[s] = c /\ \A r \in Slot \ {s} : ds[r] = call[t][r]
      BY <1>0 DEF CallsFiled
    <3> HIDE DEF ds
    <3>2. NameFact(st, ds, jar.access)
      BY <2>0, <2>1, <3>1 DEF NameFact
    <3>3. QED
      BY <1>3, <2>1, <3>2 DEF ds
  <2>2. ASSUME NEW fn \in Fn, NEW l \in MaybeLink, NEW st \in TabState, AskStep(t, s, fn, l, st)
        PROVE  Names'
    <3>1. Put(t, s, st, Sent(fn, l)) /\ Sent(fn, l) \in GoodCall
      BY <2>2 DEF AskStep, Put
    <3>2. ~Loading(Sent(fn, l))
      BY <2>2 DEF AskStep, Asked, Sent, Idle, Loading
    <3>3. QED
      BY <2>1, <2>2, <3>1, <3>2 DEF AskStep, Kept
  <2>3. ASSUME NEW l \in MaybeLink, NEW st \in TabState, EffectStep(t, s, EffectFn(t), l, st)
        PROVE  Names'
    <3> DEFINE c == Sent(EffectFn(t), l)
    <3>1. Put(t, s, st, c) /\ c \in GoodCall /\ jar' = jar
      BY <2>3 DEF EffectStep, Put
    <3>2. st.shown = Nobody /\ \A r \in Slot : ~Loading(call[t][r])
      BY <2>3 DEF EffectStep, TabFacts, TabFact, PageFacts
    <3>3. Loading(c) => c.cookies.access = jar.access
      BY DEF Sent, Idle, Loading, Carried
    <3> HIDE DEF c
    <3> DEFINE ds == [call[t] EXCEPT ![s] = c]
    <3>4. ds[s] = c /\ \A r \in Slot \ {s} : ds[r] = call[t][r]
      BY <1>0 DEF CallsFiled
    <3> HIDE DEF ds
    <3>5. NameFact(st, ds, jar.access)
      BY <3>2, <3>3, <3>4 DEF NameFact
    <3>6. QED
      BY <1>3, <3>1, <3>5 DEF ds
  <2>4. ASSUME NEW c \in GoodCall, AnswerStep(t, s, c), c.fn # "load" PROVE Names'
    <3>1. tab = [tab EXCEPT ![t] = tab[t]]
      BY <1>0
    <3>2. Put(t, s, tab[t], c) /\ jar' = jar
      BY <2>0, <2>4, <3>1 DEF AnswerStep, Put
    <3>3. QED
      BY <2>0, <2>1, <2>4, <3>2 DEF Loading
  <2>5. ASSUME NEW st \in TabState, NEW c \in GoodCall, StoreStep(t, s, st, c) PROVE Names'
    <3>1. \A u \in Tab : tab'[u].stale
      BY <1>0, <2>5, OvertakenIs DEF StoreStep
    <3>2. QED
      BY <3>1 DEF Names, NameFact
  <2>6. ASSUME NEW st \in TabState, SettleStep(t, s, st) PROVE Names'
    BY <2>1, <2>6, IdleGood DEF SettleStep, Loading, Idle
  <2>7. ASSUME NEW st \in TabState, MeStep(t, s, st) PROVE Names'
    <3>1. Put(t, s, st, Idle) /\ jar' = jar
      BY <2>7 DEF MeStep
    <3>2. CASE st = tab[t]
      BY <2>1, <3>1, <3>2, IdleGood DEF Loading, Idle
    <3>3. ASSUME NEW page \in {"inside", "login"}, st = At(tab[t], page) PROVE Names'
      <4>1. st.shown = Nobody /\ st.page = page /\ (st.due <=> page = "inside")
        BY <2>0, <3>3, AtIs DEF Page
      <4>2. tab'[t] = st /\ call'[t] = [call[t] EXCEPT ![s] = Idle]
        BY <1>3, <3>1, IdleGood
      <4>3. TabFact(t, st, call'[t])
        BY <4>2 DEF TabFacts, TabFact, PageFacts, PartnerFacts
      <4>4. \A r \in Slot : ~Loading(call'[t][r])
        BY <4>1, <4>3 DEF TabFact, PageFacts
      <4>5. NameFact(st, [call[t] EXCEPT ![s] = Idle], jar.access)
        BY <4>1, <4>2, <4>4 DEF NameFact
      <4>6. QED
        BY <1>3, <3>1, <4>5, IdleGood
    <3>4. QED
      BY <2>7, <3>2, <3>3 DEF MeStep
  <2>8. ASSUME NEW st \in TabState, NameStep(t, s, st) PROVE Names'
    <3>1. Put(t, s, st, Idle) /\ jar' = jar
      BY <2>8 DEF NameStep
    <3>2. CASE st = tab[t]
      BY <2>1, <3>1, <3>2, IdleGood DEF Loading, Idle
    <3>3. CASE /\ call[t][s].mine /\ st.stale = tab[t].stale
               /\ st.shown \in {call[t][s].cookies.access, Nobody}
      <4>1. ~st.stale => jar.access \in {call[t][s].cookies.access, Nobody}
        BY <2>0, <2>8, <3>3 DEF NameFact, NameStep, Loading
      <4> DEFINE ds == [call[t] EXCEPT ![s] = Idle]
      <4>2. ds[s] = Idle /\ \A r \in Slot \ {s} : ds[r] = call[t][r]
        BY <1>0 DEF CallsFiled
      <4> HIDE DEF ds
      <4>3. NameFact(st, ds, jar.access)
        BY <2>0, <3>3, <4>1, <4>2 DEF NameFact, Loading, Idle
      <4>4. QED
        BY <1>3, <3>1, <4>3, IdleGood DEF ds
    <3>4. QED
      BY <2>8, <3>2, <3>3 DEF NameStep
  <2>9. ASSUME NEW st \in TabState, NEW f \in [Slot -> GoodCall], LogoutStep(t, s, st, f) PROVE Names'
    <3>1. /\ tab'[t] = st /\ call'[t] = f
          /\ \A u \in Tab \ {t} : tab'[u] = tab[u] /\ call'[u] = call[u]
      BY <1>0, <2>9, PutTab, PutCalls DEF LogoutStep
    <3>2. st.shown = Nobody /\ \A r \in Slot : ~Loading(f[r])
      BY <2>9 DEF LogoutStep, Fresh, SameRequest, Loading, Idle
    <3>3. jar'.access \in {jar.access, Nobody}
      BY <2>9 DEF LogoutStep, NoCookies
    <3>4. QED
      BY <1>1, <3>1, <3>2, <3>3 DEF NameFact
  <2>10. QED
    BY <1>4, <2>2, <2>3, <2>4, <2>5, <2>6, <2>7, <2>8, <2>9
       DEF RequestStep, GrantStep, LinkStep, RevokeStep, SignInFn
<1>5. ASSUME NEW t \in Tab, TabStep(t) PROVE Names'
  <2>1. ASSUME NEW st \in TabState, BackStep(t, st) PROVE Names'
    <3>1. tab'[t] = st /\ call' = call /\ jar' = jar /\ \A u \in Tab \ {t} : tab'[u] = tab[u]
      BY <1>0, <2>1, PutTab DEF BackStep
    <3>2. NameFact(st, call[t], jar.access)
      BY <1>0, <2>1 DEF BackStep, Kept, NameFact
    <3>3. QED
      BY <1>1, <3>1, <3>2
  <2>2. ASSUME NEW st \in TabState, NEW f \in [Slot -> GoodCall], MoveStep(t, st, f) PROVE Names'
    <3>1. /\ tab'[t] = st /\ call'[t] = f /\ jar' = jar
          /\ \A u \in Tab \ {t} : tab'[u] = tab[u] /\ call'[u] = call[u]
      BY <1>0, <2>2, PutTab, PutCalls DEF MoveStep
    <3>2. st.shown = Nobody /\ \A r \in Slot : ~Loading(f[r])
      BY <2>2 DEF MoveStep, Fresh, SameRequest, Loading
    <3>3. QED
      BY <1>1, <3>1, <3>2 DEF NameFact
  <2>3. QED
    BY <1>5, <2>1, <2>2 DEF TabStep
<1>6. ASSUME AccessExpires PROVE Names'
  BY <1>2, <1>6 DEF AccessExpires, Typed, TypeOK, Jar
<1>7. QED
  BY <1>2, <1>4, <1>5, <1>6, StepKinds DEF LinkExpires, vars

-----------------------------------------------------------------------------
(* Without a mishap one request at a time signs in or out, and it accounts *)
(* for every token that is live.                                           *)

OneChange ==
    \A t, u \in Tab : \A s, r \in Slot :
       Changes(call[t][s].fn) /\ Changes(call[u][r].fn) => t = u /\ s = r
SignsInOverNothing == \A t \in Tab, s \in Slot : call[t][s].fn \in SignInFn => jar.refresh = NoToken
LogoutShows ==
    \A t \in Tab, s \in Slot : call[t][s].fn = "logout" =>
       /\ call[t][s].at = "sent" => call[t][s].cookies.refresh = jar.refresh
       /\ call[t][s].at = "answered" => jar.refresh \notin live
Accounted == \A k \in live : k = jar.refresh \/ \E t \in Tab, s \in Slot : call[t][s].token = k
Orphans == ~mishap => OneChange /\ SignsInOverNothing /\ LogoutShows /\ Accounted

LEMMA InitOrphans == Init => Orphans
  BY DEF Init, Orphans, OneChange, SignsInOverNothing, LogoutShows, Accounted, Idle, Changes, SignInFn

Alike(c, d) == c.at = d.at /\ c.fn = d.fn /\ c.token = d.token /\ c.cookies = d.cookies
OthersAlike(t, s) == \A u \in Tab, r \in Slot : (u = t /\ r = s) \/ Alike(call'[u][r], call[u][r])

LEMMA PutOthers ==
    ASSUME CallsFiled, NEW t \in Tab, NEW s \in Slot, NEW c \in GoodCall,
           call' = [call EXCEPT ![t] = [call[t] EXCEPT ![s] = c]]
    PROVE  call'[t][s] = c /\ OthersAlike(t, s)
  BY DEF CallsFiled, OthersAlike, Alike

\* A request that brings no token is over, or goes on.
LEMMA ClosedOrphans ==
    ASSUME Typed, ~mishap => Orphans, NEW t \in Tab, NEW s \in Slot, OthersAlike(t, s),
           ~Changes(call'[t][s].fn), ~mishap' => ~mishap /\ call[t][s].token = NoToken,
           jar'.refresh = jar.refresh, live' = live
    PROVE  Orphans'
<1> SUFFICES ASSUME ~mishap' PROVE (OneChange /\ SignsInOverNothing /\ LogoutShows /\ Accounted)'
  BY DEF Orphans
<1>1. OneChange /\ SignsInOverNothing /\ LogoutShows /\ Accounted /\ call[t][s].token = NoToken
  BY DEF Orphans
<1>2. ASSUME NEW u \in Tab, NEW r \in Slot, Changes(call'[u][r].fn)
      PROVE  Alike(call'[u][r], call[u][r]) /\ ~(u = t /\ r = s)
  BY <1>2 DEF OthersAlike
<1>3. OneChange'
  BY <1>1, <1>2 DEF OneChange, Alike
<1>4. SignsInOverNothing'
  BY <1>1, <1>2 DEF SignsInOverNothing, Alike, Changes
<1>5. LogoutShows'
  BY <1>1, <1>2 DEF LogoutShows, Alike, Changes
<1>6. live \subseteq Token
  BY DEF Typed, TypeOK
<1>7. Accounted'
  BY <1>1, <1>6 DEF Accounted, OthersAlike, Alike
<1>8. QED
  BY <1>3, <1>4, <1>5, <1>7

LEMMA SendOrphans ==
    ASSUME Typed, Orphans, NEW t \in Tab, NEW s \in Slot, NEW fn \in Fn, NEW l \in MaybeLink,
           Send(t, s, fn, l), Sent(fn, l) \in GoodCall,
           call' = [call EXCEPT ![t] = [call[t] EXCEPT ![s] = Sent(fn, l)]],
           UNCHANGED <<jar, server>>
    PROVE  Orphans'
<1> SUFFICES ASSUME ~mishap' PROVE (OneChange /\ SignsInOverNothing /\ LogoutShows /\ Accounted)'
  BY DEF Orphans
<1>1. ~mishap /\ (Changes(fn) => Changing = {}) /\ (fn \in SignInFn => jar.refresh = NoToken)
  BY DEF Send
<1>2. OneChange /\ SignsInOverNothing /\ LogoutShows /\ Accounted
  BY <1>1 DEF Orphans
<1>3. Changes(fn) => \A u \in Tab, r \in Slot : ~Changes(call[u][r].fn)
  <2>1. ASSUME NEW u \in Tab, NEW r \in Slot, Changes(call[u][r].fn) PROVE <<u, r>> \in Changing
    BY <2>1 DEF Changing
  <2>2. QED
    BY <1>1, <2>1
<1>4. OthersAlike(t, s) /\ call'[t][s] = Sent(fn, l)
  BY PutOthers DEF Typed
<1>5. /\ call'[t][s].fn = fn /\ call'[t][s].at = "sent"
      /\ fn = "logout" => call'[t][s].cookies.refresh = jar.refresh
  <2>1. Sent(fn, l).fn = fn /\ Sent(fn, l).at = "sent" /\ Sent(fn, l).cookies = Carried(fn)
    BY DEF Sent, Idle
  <2>2. fn = "logout" => Carried(fn).refresh = jar.refresh
    BY DEF Carried
  <2>3. QED
    BY <1>4, <2>1, <2>2
<1>6. OneChange'
  BY <1>2, <1>3, <1>4, <1>5 DEF OneChange, OthersAlike, Alike
<1>7. SignsInOverNothing'
  BY <1>1, <1>2, <1>4, <1>5 DEF SignsInOverNothing, OthersAlike, Alike
<1>8. LogoutShows'
  BY <1>2, <1>4, <1>5 DEF LogoutShows, OthersAlike, Alike, server
<1>9. call[t][s].token = NoToken /\ live \subseteq Token
  BY DEF Send, Typed, CallsFiled, GoodCall, Filed, TypeOK
<1>10. Accounted'
  BY <1>2, <1>4, <1>9 DEF Accounted, OthersAlike, Alike, server
<1>11. QED
  BY <1>6, <1>7, <1>8, <1>10

LEMMA AnswerOrphans ==
    ASSUME Typed, Orphans, NEW t \in Tab, NEW s \in Slot, NEW c \in GoodCall,
           AnswerStep(t, s, c), c.fn # "link",
           \/ c.fn \in SignInFn /\ live' = live \cup {c.token}
           \/ c.fn = "logout" /\ live' = live \ {call[t][s].cookies.refresh}
    PROVE  Orphans'
<1> SUFFICES ASSUME ~mishap' PROVE (OneChange /\ SignsInOverNothing /\ LogoutShows /\ Accounted)'
  BY DEF Orphans
<1>1. OneChange /\ SignsInOverNothing /\ LogoutShows /\ Accounted
  BY DEF Orphans, AnswerStep
<1>2. call'[t][s] = c /\ OthersAlike(t, s) /\ jar' = jar /\ c.fn = call[t][s].fn
         /\ call[t][s].at = "sent" /\ c.at = "answered"
  BY PutOthers DEF AnswerStep, Typed
<1>3. Changes(call[t][s].fn)
  BY <1>2 DEF Changes
<1>4. \A u \in Tab, r \in Slot : Changes(call'[u][r].fn) => u = t /\ r = s
  BY <1>1, <1>2, <1>3 DEF OneChange, OthersAlike, Alike
<1>5. OneChange'
  BY <1>4 DEF OneChange
<1>6. SignsInOverNothing'
  BY <1>1, <1>2 DEF SignsInOverNothing, OthersAlike, Alike
<1>7. call[t][s].token = NoToken /\ live \subseteq Token
  BY <1>2 DEF Typed, CallsFiled, GoodCall, Filed, TypeOK
<1>8. LogoutShows'
  <2>1. SUFFICES ASSUME c.fn = "logout" PROVE jar.refresh \notin live'
    BY <1>2, <1>4 DEF LogoutShows, Changes
  <2>2. call[t][s].cookies.refresh = jar.refresh
    BY <1>1, <1>2, <2>1 DEF LogoutShows
  <2>3. QED
    BY <2>1, <2>2 DEF SignInFn
<1>9. Accounted'
  BY <1>1, <1>2, <1>7 DEF Accounted, OthersAlike, Alike
<1>10. QED
  BY <1>5, <1>6, <1>8, <1>9

\* Only a sign-in has a token; if it is the only change, what else is live is the one of
\* the cookies.
LEMMA StoreOrphans ==
    ASSUME Typed, Orphans, NEW t \in Tab, NEW s \in Slot, NEW st \in TabState, NEW c \in GoodCall,
           StoreStep(t, s, st, c)
    PROVE  Orphans'
<1> SUFFICES ASSUME ~mishap' PROVE (OneChange /\ SignsInOverNothing /\ LogoutShows /\ Accounted)'
  BY DEF Orphans
<1>1. OneChange /\ SignsInOverNothing /\ LogoutShows /\ Accounted /\ c = Idle
  BY DEF Orphans, StoreStep
<1>2. /\ call'[t][s] = Idle /\ OthersAlike(t, s)
      /\ call[t][s].fn \in SignInFn /\ jar'.refresh = call[t][s].token
  BY <1>1, PutOthers DEF StoreStep, Typed
<1>3. Changes(call[t][s].fn) /\ jar.refresh = NoToken
  BY <1>1, <1>2 DEF Changes, SignsInOverNothing
<1>4. \A u \in Tab, r \in Slot : ~Changes(call'[u][r].fn)
  BY <1>1, <1>2, <1>3 DEF OneChange, OthersAlike, Alike, Idle, Changes, SignInFn
<1>5. OneChange' /\ SignsInOverNothing' /\ LogoutShows'
  BY <1>4 DEF OneChange, SignsInOverNothing, LogoutShows, Changes
<1>6. ASSUME NEW k \in live PROVE k = call[t][s].token
  <2>1. k \in Token
    BY DEF Typed, TypeOK
  <2>2. PICK u \in Tab, r \in Slot : call[u][r].token = k
    BY <1>1, <1>3, <2>1 DEF Accounted
  <2>3. Changes(call[u][r].fn)
    BY <2>1, <2>2 DEF Typed, CallsFiled, GoodCall, Filed, Changes
  <2>4. QED
    BY <1>1, <1>3, <2>2, <2>3 DEF OneChange
<1>7. Accounted'
  BY <1>2, <1>6 DEF Accounted, StoreStep, server
<1>8. QED
  BY <1>5, <1>7

LEMMA LogoutOrphans ==
    ASSUME Typed, Orphans, NEW t \in Tab, NEW s \in Slot, NEW st \in TabState,
           NEW f \in [Slot -> GoodCall], LogoutStep(t, s, st, f)
    PROVE  Orphans'
<1>1. call'[t] = f /\ \A u \in Tab \ {t} : call'[u] = call[u]
  BY PutCalls DEF LogoutStep, Typed
<1>2. OthersAlike(t, s) /\ call'[t][s] = Idle
  BY <1>1 DEF LogoutStep, OthersAlike, SameRequest, Alike
<1>3. ~Changes(call'[t][s].fn) /\ call[t][s].token = NoToken /\ Changes(call[t][s].fn)
  BY <1>2 DEF Idle, Changes, SignInFn, LogoutStep, Typed, CallsFiled, GoodCall, Filed
<1>4. CASE jar' = jar
  BY <1>2, <1>3, <1>4, ClosedOrphans DEF LogoutStep, server
<1>5. CASE jar' = NoCookies /\ call[t][s].at = "answered"
  <2> SUFFICES ASSUME ~mishap' PROVE (OneChange /\ SignsInOverNothing /\ LogoutShows /\ Accounted)'
    BY DEF Orphans
  <2>1. OneChange /\ LogoutShows /\ Accounted
    BY DEF Orphans, LogoutStep
  <2>2. \A u \in Tab, r \in Slot : ~Changes(call'[u][r].fn)
    BY <1>2, <1>3, <2>1 DEF OneChange, OthersAlike, Alike
  <2>3. OneChange' /\ SignsInOverNothing' /\ LogoutShows'
    BY <2>2 DEF OneChange, SignsInOverNothing, LogoutShows, Changes
  <2>4. ASSUME NEW k \in live PROVE FALSE
    <3>1. k \in Token /\ jar.refresh \notin live
      BY <1>5, <2>1 DEF Typed, TypeOK, LogoutShows, LogoutStep
    <3>2. PICK u \in Tab, r \in Slot : call[u][r].token = k
      BY <2>1, <3>1 DEF Accounted
    <3>3. Changes(call[u][r].fn)
      BY <3>1, <3>2 DEF Typed, CallsFiled, GoodCall, Filed, Changes
    <3>4. QED
      BY <1>3, <2>1, <3>1, <3>2, <3>3 DEF OneChange
  <2>5. Accounted'
    BY <2>4 DEF Accounted, LogoutStep, server
  <2>6. QED
    BY <2>3, <2>5
<1>6. QED
  BY <1>4, <1>5 DEF LogoutStep

LEMMA NextOrphans ==
    ASSUME Typed, Orphans, [Next]_vars
    PROVE  Orphans'
<1>0. TypeOK /\ CallsFiled
  BY DEF Typed
<1>1. ASSUME UNCHANGED <<jar, live, mishap>>,
             \A u \in Tab, r \in Slot : Alike(call'[u][r], call[u][r])
      PROVE  Orphans'
  BY <1>1 DEF Orphans, OneChange, SignsInOverNothing, LogoutShows, Accounted, Alike
<1>2. UNCHANGED <<call, jar, live, mishap>> => Orphans'
  BY <1>1 DEF Alike
<1>3. ASSUME NEW t \in Tab, NEW s \in Slot, RequestStep(t, s) PROVE Orphans'
  <2>1. ASSUME NEW fn \in Fn, NEW l \in MaybeLink, NEW st \in TabState, AskStep(t, s, fn, l, st)
        PROVE  Orphans'
    BY <2>1, SendOrphans DEF AskStep, Put
  <2>2. ASSUME NEW l \in MaybeLink, NEW st \in TabState, EffectStep(t, s, EffectFn(t), l, st)
        PROVE  Orphans'
    <3>1. tab[t].page \in {"verify", "guard", "inside"}
      BY <2>2 DEF EffectStep, Typed, DuePage
    <3>2. EffectFn(t) \in Fn
      BY <3>1 DEF EffectFn, Fn, SignInFn
    <3>3. QED
      BY <2>2, <3>2, SendOrphans DEF EffectStep, Put
  <2>3. ASSUME NEW c \in GoodCall, NEW user \in User, NEW l \in MaybeLink, GrantStep(t, s, c, user, l)
        PROVE  Orphans'
    BY <2>3, AnswerOrphans DEF GrantStep, SignInFn
  <2>4. ASSUME NEW c \in GoodCall, NEW l \in Link, LinkStep(t, s, c, l) PROVE Orphans'
    <3>1. call'[t][s] = c /\ OthersAlike(t, s)
      BY <1>0, <2>4, PutOthers DEF LinkStep, AnswerStep
    <3>2. ~Changes(call'[t][s].fn) /\ call[t][s].token = NoToken
      BY <1>0, <2>4, <3>1
         DEF LinkStep, AnswerStep, Changes, SignInFn, CallsFiled, GoodCall, Filed
    <3>3. QED
      BY <2>4, <3>1, <3>2, ClosedOrphans DEF LinkStep, AnswerStep
  <2>5. ASSUME NEW c \in GoodCall, RevokeStep(t, s, c) PROVE Orphans'
    BY <2>5, AnswerOrphans DEF RevokeStep
  <2>6. ASSUME NEW st \in TabState, NEW c \in GoodCall, StoreStep(t, s, st, c) PROVE Orphans'
    BY <2>6, StoreOrphans
  <2>7. ASSUME NEW st \in TabState, Put(t, s, st, Idle),
               ~mishap' => ~mishap /\ call[t][s].token = NoToken, UNCHANGED <<jar, server>>
        PROVE  Orphans'
    <3>1. call'[t][s] = Idle /\ OthersAlike(t, s)
      BY <1>0, <2>7, PutOthers DEF Put
    <3>2. ~Changes(call'[t][s].fn)
      BY <3>1 DEF Idle, Changes, SignInFn
    <3>3. QED
      BY <2>7, <3>1, <3>2, ClosedOrphans DEF server
  <2>8. ASSUME NEW st \in TabState, SettleStep(t, s, st) PROVE Orphans'
    BY <2>7, <2>8 DEF SettleStep
  <2>9. ASSUME NEW st \in TabState, MeStep(t, s, st) \/ NameStep(t, s, st) PROVE Orphans'
    <3>1. call[t][s].token = NoToken
      BY <1>0, <2>9 DEF MeStep, NameStep, CallsFiled, GoodCall, Filed
    <3>2. QED
      BY <2>7, <2>9, <3>1 DEF MeStep, NameStep
  <2>10. ASSUME NEW st \in TabState, NEW f \in [Slot -> GoodCall], LogoutStep(t, s, st, f)
         PROVE  Orphans'
    BY <2>10, LogoutOrphans
  <2>11. QED
    BY <1>3, <2>1, <2>2, <2>3, <2>4, <2>5, <2>6, <2>8, <2>9, <2>10 DEF RequestStep
<1>4. ASSUME NEW t \in Tab, TabStep(t) PROVE Orphans'
  <2>1. ASSUME NEW st \in TabState, BackStep(t, st) PROVE Orphans'
    BY <1>2, <2>1 DEF BackStep, server
  <2>2. ASSUME NEW st \in TabState, NEW f \in [Slot -> GoodCall], MoveStep(t, st, f) PROVE Orphans'
    <3>1. call'[t] = f /\ \A u \in Tab \ {t} : call'[u] = call[u]
      BY <1>0, <2>2, PutCalls DEF MoveStep
    <3>2. \A u \in Tab, r \in Slot : Alike(call'[u][r], call[u][r])
      BY <2>2, <3>1 DEF MoveStep, SameRequest, Alike
    <3>3. QED
      BY <1>1, <2>2, <3>2 DEF MoveStep, server
  <2>3. QED
    BY <1>4, <2>1, <2>2 DEF TabStep
<1>5. ASSUME AccessExpires PROVE Orphans'
  <2>1. jar'.refresh = jar.refresh /\ UNCHANGED <<call, live, mishap>>
    BY <1>0, <1>5 DEF AccessExpires, TypeOK, Jar, server
  <2>2. QED
    BY <2>1 DEF Orphans, OneChange, SignsInOverNothing, LogoutShows, Accounted
<1>6. QED
  BY <1>2, <1>3, <1>4, <1>5, StepKinds DEF LinkExpires, vars, server

-----------------------------------------------------------------------------
(* A page that waits has something to wait for.                            *)

\* The answer that enables the button or takes the tab elsewhere.
Freeing(c) == c.mine /\ c.fn \in SignInFn \cup {"link", "logout"}

WaitFact(st, cs) ==
    /\ st.busy => st.push # {} \/ \E s \in Slot : Freeing(cs[s])
    /\ st.page = "guard" => st.due \/ \E s \in Slot : Guarding(cs[s])

\* A tab with a disabled button has a timer that runs, or a request of its own whose
\* answer ends the wait; one that is being guarded has asked, or is about to.
NeverStuck == \A t \in Tab : WaitFact(tab[t], call[t])

LEMMA InitNeverStuck == Init => NeverStuck
  BY DEF Init, NeverStuck, WaitFact, Blank

\* One request that is closed or new: it is what is waited for, or was not.
LEMMA WaitKept ==
    ASSUME NEW old, NEW st, NEW cs \in [Slot -> GoodCall], NEW s \in Slot, NEW c,
           WaitFact(old, cs),
           st.busy => \/ st.push # {}
                      \/ Freeing(c)
                      \/ old.busy /\ old.push = {} /\ ~Freeing(cs[s]),
           st.page = "guard" => \/ st.due
                                \/ Guarding(c)
                                \/ old.page = "guard" /\ ~old.due /\ ~Guarding(cs[s])
    PROVE  WaitFact(st, [cs EXCEPT ![s] = c])
<1> DEFINE ds == [cs EXCEPT ![s] = c]
<1>1. ds[s] = c /\ \A r \in Slot \ {s} : ds[r] = cs[r]
  OBVIOUS
<1> HIDE DEF ds
<1>2. (\E r \in Slot \ {s} : Freeing(cs[r])) => \E r \in Slot : Freeing(ds[r])
  BY <1>1
<1>3. (\E r \in Slot \ {s} : Guarding(cs[r])) => \E r \in Slot : Guarding(ds[r])
  BY <1>1
<1>4. st.busy => st.push # {} \/ \E r \in Slot : Freeing(ds[r])
  BY <1>1, <1>2 DEF WaitFact
<1>5. st.page = "guard" => st.due \/ \E r \in Slot : Guarding(ds[r])
  BY <1>1, <1>3 DEF WaitFact
<1>6. QED
  BY <1>4, <1>5 DEF WaitFact, ds

\* A request that is sent takes the place of none.
LEMMA SendsWait ==
    ASSUME Typed, NEW t \in Tab, NEW s \in Slot, NEW st \in TabState, WaitFact(tab[t], call[t]),
           NEW fn \in Fn, NEW l \in MaybeLink,
           AskStep(t, s, fn, l, st) \/ (EffectStep(t, s, fn, l, st) /\ fn = EffectFn(t))
    PROVE  WaitFact(st, [call[t] EXCEPT ![s] = Sent(fn, l)])
<1>1. call[t] \in [Slot -> GoodCall] /\ Filed(call[t][s])
  BY DEF Typed, CallsFiled, GoodCall
<1>2. call[t][s].at = "idle"
  BY DEF AskStep, EffectStep, Send
<1>3. ~Freeing(call[t][s]) /\ ~Guarding(call[t][s])
  BY <1>1, <1>2 DEF Filed, Freeing, Guarding, SignInFn
<1>4. Sent(fn, l).mine /\ Sent(fn, l).fn = fn
  BY DEF Sent, Idle
<1>5. CASE AskStep(t, s, fn, l, st)
  <2>1. Freeing(Sent(fn, l))
    BY <1>4, <1>5 DEF AskStep, Asked, Freeing, SignInFn
  <2>2. st.page = tab[t].page /\ st.due = tab[t].due
    BY <1>5 DEF AskStep, Kept
  <2>3. QED
    BY <1>1, <1>3, <2>1, <2>2, WaitKept
<1>6. CASE EffectStep(t, s, fn, l, st) /\ fn = EffectFn(t)
  <2>1. st.page = tab[t].page /\ st.busy = tab[t].busy /\ st.push = tab[t].push
    BY <1>6 DEF EffectStep
  <2>2. st.page = "guard" => Guarding(Sent(fn, l))
    BY <1>4, <1>6, <2>1 DEF EffectFn, Guarding
  <2>3. QED
    BY <1>1, <1>3, <2>1, <2>2, WaitKept
<1>7. QED
  BY <1>5, <1>6

\* An answer ends the wait of its page, and of no other.
LEMMA AnswersWait ==
    ASSUME Typed, NEW t \in Tab, NEW s \in Slot, NEW st \in TabState, WaitFact(tab[t], call[t]),
           SettleStep(t, s, st) \/ MeStep(t, s, st) \/ NameStep(t, s, st)
    PROVE  WaitFact(st, [call[t] EXCEPT ![s] = Idle])
<1>1. call[t] \in [Slot -> GoodCall] /\ tab[t] \in TabState
  BY DEF Typed, CallsFiled, TypeOK
<1>2. CASE SettleStep(t, s, st)
  <2>1. /\ st.page = tab[t].page /\ st.due = tab[t].due
        /\ st.busy => tab[t].busy /\ (call[t][s].mine => st.push # {})
        /\ tab[t].push \subseteq st.push
    BY <1>2 DEF SettleStep
  <2>2. ~Guarding(call[t][s])
    BY <1>2 DEF SettleStep, Guarding, SignInFn
  <2>3. QED
    BY <1>1, <2>1, <2>2, WaitKept DEF Freeing
<1>3. CASE MeStep(t, s, st) /\ st = tab[t] /\ ~call[t][s].mine
  BY <1>1, <1>3, WaitKept DEF Freeing, Guarding
<1>4. ASSUME NEW page \in {"inside", "login"}, st = At(tab[t], page)
      PROVE  WaitFact(st, [call[t] EXCEPT ![s] = Idle])
  <2>1. ~st.busy /\ st.page # "guard"
    BY <1>1, <1>4, AtIs DEF Page
  <2>2. QED
    BY <2>1 DEF WaitFact
<1>5. CASE NameStep(t, s, st)
  <2>1. /\ st.page = tab[t].page /\ st.due = tab[t].due
        /\ st.busy = tab[t].busy /\ st.push = tab[t].push
    BY <1>5 DEF NameStep
  <2>2. ~Guarding(call[t][s]) /\ ~Freeing(call[t][s])
    BY <1>5 DEF NameStep, Guarding, Freeing, SignInFn
  <2>3. QED
    BY <1>1, <2>1, <2>2, WaitKept
<1>6. QED
  BY <1>2, <1>3, <1>4, <1>5 DEF MeStep

LEMMA StoreWaits ==
    ASSUME Typed, NEW t \in Tab, NEW s \in Slot, NEW st \in TabState, NEW c \in GoodCall,
           StoreStep(t, s, st, c), WaitFact(tab[t], call[t])
    PROVE  WaitFact(Overtaken(st), [call[t] EXCEPT ![s] = c])
<1> DEFINE next == Overtaken(st)
<1>1. call[t] \in [Slot -> GoodCall] /\ tab[t] \in TabState
  BY DEF Typed, CallsFiled, TypeOK
<1>2. next.page = st.page /\ next.due = st.due /\ next.push = st.push /\ next.busy = st.busy
  BY OvertakenIs
<1> HIDE DEF next
<1>3. CASE st = At(tab[t], "guard")
  <2>1. ~next.busy /\ next.due
    BY <1>1, <1>2, <1>3, AtIs DEF Page
  <2>2. QED
    BY <2>1 DEF WaitFact, next
<1>4. CASE /\ st.page = tab[t].page /\ st.due = tab[t].due /\ st.busy = tab[t].busy
           /\ tab[t].push \subseteq st.push
           /\ call[t][s].fn # "register" => st.push # {}
  <2>1. ~Guarding(call[t][s])
    BY DEF StoreStep, Guarding, SignInFn
  <2>2. call[t][s].fn = "register" => Freeing(c) \/ ~Freeing(call[t][s])
    BY DEF StoreStep, Freeing, SignInFn
  <2>3. next.busy => \/ next.push # {}
                     \/ Freeing(c)
                     \/ tab[t].busy /\ tab[t].push = {} /\ ~Freeing(call[t][s])
    BY <1>2, <1>4, <2>2
  <2>4. QED
    BY <1>1, <1>2, <1>4, <2>1, <2>3, WaitKept DEF next
<1>5. QED
  BY <1>3, <1>4 DEF StoreStep

LEMMA NextNeverStuck ==
    ASSUME Typed, NeverStuck, [Next]_vars
    PROVE  NeverStuck'
<1>0. tab \in [Tab -> TabState] /\ CallsFiled
  BY DEF Typed, TypeOK
<1>1. ASSUME NEW t \in Tab, WaitFact(tab'[t], call'[t]),
             \A u \in Tab \ {t} : tab'[u] = tab[u] /\ call'[u] = call[u]
      PROVE  NeverStuck'
  BY <1>1 DEF NeverStuck, WaitFact
<1>2. ASSUME NEW t \in Tab, NEW s \in Slot, NEW st \in TabState, NEW c \in GoodCall, Put(t, s, st, c),
             WaitFact(st, [call[t] EXCEPT ![s] = c])
      PROVE  NeverStuck'
  <2>1. tab'[t] = st /\ call'[t] = [call[t] EXCEPT ![s] = c]
    BY <1>0, <1>2 DEF Put, CallsFiled
  <2>2. \A u \in Tab \ {t} : tab'[u] = tab[u] /\ call'[u] = call[u]
    BY <1>0, <1>2 DEF Put, CallsFiled
  <2>3. QED
    BY <1>1, <1>2, <2>1, <2>2
<1>3. ASSUME NEW t \in Tab, NEW st \in TabState, NEW f \in [Slot -> GoodCall], Fresh(t, st),
             tab' = [tab EXCEPT ![t] = st], call' = [call EXCEPT ![t] = f]
      PROVE  NeverStuck'
  <2>1. /\ tab'[t] = st /\ call'[t] = f
        /\ \A u \in Tab \ {t} : tab'[u] = tab[u] /\ call'[u] = call[u]
    BY <1>0, <1>3, PutTab, PutCalls
  <2>2. WaitFact(st, f)
    BY <1>3 DEF Fresh, WaitFact
  <2>3. QED
    BY <1>1, <2>1, <2>2
<1>4. ASSUME NEW t \in Tab, NEW s \in Slot, RequestStep(t, s) PROVE NeverStuck'
  <2>0. WaitFact(tab[t], call[t])
    BY DEF NeverStuck
  <2>1. ASSUME NEW fn \in Fn, NEW l \in MaybeLink, NEW st \in TabState,
               AskStep(t, s, fn, l, st) \/ (EffectStep(t, s, fn, l, st) /\ fn = EffectFn(t))
        PROVE  NeverStuck'
    <3>1. Put(t, s, st, Sent(fn, l)) /\ Sent(fn, l) \in GoodCall
      BY <2>1 DEF AskStep, EffectStep, Put
    <3>2. QED
      BY <1>2, <2>0, <2>1, <3>1, SendsWait
  <2>2. ASSUME NEW l \in MaybeLink, NEW st \in TabState, EffectStep(t, s, EffectFn(t), l, st)
        PROVE  EffectFn(t) \in Fn
    <3>1. tab[t].page \in {"verify", "guard", "inside"}
      BY <2>2 DEF EffectStep, Typed, DuePage
    <3>2. QED
      BY <3>1 DEF EffectFn, Fn, SignInFn
  <2>3. ASSUME NEW c \in GoodCall, AnswerStep(t, s, c) PROVE NeverStuck'
    <3> DEFINE ds == [call[t] EXCEPT ![s] = c]
    <3>1. \A r \in Slot : ds[r].fn = call[t][r].fn /\ ds[r].mine = call[t][r].mine
      BY <1>0, <2>3 DEF AnswerStep, CallsFiled
    <3>2. tab' = tab /\ call'[t] = ds /\ \A u \in Tab \ {t} : call'[u] = call[u]
      BY <1>0, <2>3 DEF AnswerStep, CallsFiled
    <3> HIDE DEF ds
    <3>3. WaitFact(tab[t], ds)
      BY <2>0, <3>1 DEF WaitFact, Freeing, Guarding
    <3>4. QED
      BY <1>1, <3>2, <3>3
  <2>4. ASSUME NEW st \in TabState, NEW c \in GoodCall, StoreStep(t, s, st, c) PROVE NeverStuck'
    <3>1. /\ tab'[t] = Overtaken(st) /\ \A u \in Tab \ {t} : tab'[u] = Overtaken(tab[u])
          /\ call'[t] = [call[t] EXCEPT ![s] = c] /\ \A u \in Tab \ {t} : call'[u] = call[u]
      BY <1>0, <2>4 DEF StoreStep, CallsFiled
    <3>2. WaitFact(tab'[t], call'[t])
      BY <2>0, <2>4, <3>1, StoreWaits
    <3>3. ASSUME NEW u \in Tab \ {t} PROVE WaitFact(tab'[u], call'[u])
      BY <1>0, <3>1, OvertakenIs DEF NeverStuck, WaitFact
    <3>4. QED
      BY <3>2, <3>3 DEF NeverStuck, WaitFact
  <2>5. ASSUME NEW st \in TabState, SettleStep(t, s, st) \/ MeStep(t, s, st) \/ NameStep(t, s, st)
        PROVE  NeverStuck'
    <3>1. Put(t, s, st, Idle)
      BY <2>5 DEF SettleStep, MeStep, NameStep
    <3>2. QED
      BY <1>2, <2>0, <2>5, <3>1, AnswersWait, IdleGood
  <2>6. ASSUME NEW st \in TabState, NEW f \in [Slot -> GoodCall], LogoutStep(t, s, st, f) PROVE NeverStuck'
    BY <1>3, <2>6 DEF LogoutStep
  <2>7. QED
    BY <1>4, <2>1, <2>2, <2>3, <2>4, <2>5, <2>6 DEF RequestStep, GrantStep, LinkStep, RevokeStep
<1>5. ASSUME NEW t \in Tab, TabStep(t) PROVE NeverStuck'
  <2>1. ASSUME NEW st \in TabState, BackStep(t, st) PROVE NeverStuck'
    <3>1. tab'[t] = st /\ call' = call /\ \A u \in Tab \ {t} : tab'[u] = tab[u]
      BY <1>0, <2>1, PutTab DEF BackStep
    <3>2. WaitFact(st, call[t])
      BY <2>1 DEF BackStep, Kept, NeverStuck, WaitFact
    <3>3. QED
      BY <1>1, <3>1, <3>2
  <2>2. ASSUME NEW st \in TabState, NEW f \in [Slot -> GoodCall], MoveStep(t, st, f) PROVE NeverStuck'
    BY <1>3, <2>2 DEF MoveStep
  <2>3. QED
    BY <1>5, <2>1, <2>2 DEF TabStep
<1>6. UNCHANGED <<tab, call>> => NeverStuck'
  BY DEF NeverStuck, WaitFact
<1>7. QED
  BY <1>4, <1>5, <1>6, StepKinds DEF LinkExpires, AccessExpires, vars

-----------------------------------------------------------------------------
(* The tokens, as the server files them.  A sign-in here has one token,    *)
(* which nothing rotates: it is its own family.                            *)

FamilyOf(k) == IF owner[k] = Nobody THEN "unborn" ELSE IF k \in live THEN "open" ELSE "closed"
StatusOf(k) == IF owner[k] = Nobody THEN "none" ELSE IF k \in live THEN "live" ELSE "revoked"

Ledger == INSTANCE SignInLedger WITH
              Session <- Token,
              NoFamily <- NoToken,
              family <- [k \in Token |-> FamilyOf(k)],
              status <- [k \in Token |-> StatusOf(k)],
              home <- [k \in Token |-> IF owner[k] = Nobody THEN NoToken ELSE k]
LedgerSpec == Ledger!Spec

LiveIsOwned == \A k \in live : owner[k] # Nobody

LEMMA LedgerInit == Init => LiveIsOwned /\ Ledger!Init
<1> SUFFICES ASSUME Init PROVE LiveIsOwned /\ Ledger!Init
  OBVIOUS
<1>1. live = {} /\ \A k \in Token : owner[k] = Nobody
  BY DEF Init
<1>2. QED
  BY <1>1 DEF LiveIsOwned, Ledger!Init, FamilyOf, StatusOf

\* A token is granted: a family opens, with its first token.
LEMMA GrantOpens ==
    ASSUME Typed, LiveIsOwned, NEW k \in Token, NEW user \in User,
           owner[k] = Nobody, owner' = [owner EXCEPT ![k] = user], live' = live \cup {k}
    PROVE  LiveIsOwned' /\ Ledger!Next
<1>1. /\ owner'[k] # Nobody /\ k \in live' /\ k \notin live
      /\ \A m \in Token \ {k} : owner'[m] = owner[m] /\ (m \in live' <=> m \in live)
  BY DEF Typed, TypeOK, LiveIsOwned, User
<1>2. LiveIsOwned'
  BY <1>1 DEF LiveIsOwned, Typed, TypeOK
<1>3. /\ FamilyOf(k) = "unborn" /\ FamilyOf(k)' = "open"
      /\ StatusOf(k) = "none" /\ StatusOf(k)' = "live"
      /\ \A m \in Token \ {k} : FamilyOf(m)' = FamilyOf(m) /\ StatusOf(m)' = StatusOf(m)
  BY <1>1 DEF FamilyOf, StatusOf
<1>4. Ledger!Joins(k, k)
  BY <1>1, <1>3 DEF Ledger!Joins
<1>5. Ledger!Open(k)
  BY <1>3, <1>4 DEF Ledger!Open
<1>6. QED
  BY <1>2, <1>5 DEF Ledger!Next

\* A log-out withdraws the token it was shown and closes its family, if it is live still.
LEMMA RevokingCloses ==
    ASSUME Typed, LiveIsOwned, NEW k, owner' = owner, live' = live \ {k}
    PROVE  LiveIsOwned' /\ [Ledger!Next]_(Ledger!vars)
<1>1. LiveIsOwned'
  BY DEF LiveIsOwned
<1>2. CASE k \notin live
  <2>1. live' = live
    BY <1>2
  <2>2. QED
    BY <1>1, <2>1 DEF Ledger!vars, FamilyOf, StatusOf
<1>3. CASE k \in live
  <2>1. k \in Token /\ owner[k] # Nobody /\ k \notin live'
    BY <1>3 DEF LiveIsOwned, Typed, TypeOK
  <2>2. \A m \in Token \ {k} : m \in live' <=> m \in live
    OBVIOUS
  <2>3. /\ FamilyOf(k) = "open" /\ FamilyOf(k)' = "closed"
        /\ StatusOf(k) = "live" /\ StatusOf(k)' = "revoked"
        /\ \A m \in Token \ {k} : FamilyOf(m)' = FamilyOf(m) /\ StatusOf(m)' = StatusOf(m)
    BY <1>3, <2>1, <2>2 DEF FamilyOf, StatusOf
  <2>4. Ledger!Withdraw({k}, {k})
    BY <2>1, <2>3 DEF Ledger!Withdraw
  <2>5. {k} \in SUBSET Token
    BY <2>1
  <2>6. QED
    BY <1>1, <2>4, <2>5, Zenon DEF Ledger!Next
<1>4. QED
  BY <1>2, <1>3

LEMMA LedgerStep ==
    ASSUME Typed, LiveIsOwned, [Next]_vars
    PROVE  LiveIsOwned' /\ [Ledger!Next]_(Ledger!vars)
<1> DEFINE Goal == LiveIsOwned' /\ [Ledger!Next]_(Ledger!vars)
<1>1. UNCHANGED <<owner, live>> => Goal
  BY DEF LiveIsOwned, Ledger!vars, FamilyOf, StatusOf
<1>2. UNCHANGED server => Goal
  BY <1>1 DEF server
<1>3. ASSUME NEW t \in Tab, NEW s \in Slot, NEW c \in GoodCall, NEW user \in User, NEW l \in MaybeLink,
             GrantStep(t, s, c, user, l)
      PROVE  Goal
  <2>1. /\ c.token \in Token /\ owner[c.token] = Nobody
        /\ owner' = [owner EXCEPT ![c.token] = user] /\ live' = live \cup {c.token}
    BY <1>3 DEF GrantStep, AnswerStep, GoodCall, Filed
  <2>2. QED
    BY <2>1, GrantOpens
<1>4. ASSUME NEW t \in Tab, NEW s \in Slot, NEW c \in GoodCall, RevokeStep(t, s, c)
      PROVE  Goal
  BY <1>4, RevokingCloses DEF RevokeStep
<1> HIDE DEF Goal
<1>5. ASSUME NEW t \in Tab, NEW s \in Slot, RequestStep(t, s) PROVE Goal
  BY <1>1, <1>2, <1>3, <1>4, <1>5
     DEF RequestStep, AskStep, EffectStep, LinkStep, StoreStep, SettleStep, MeStep, NameStep, LogoutStep
<1>6. ASSUME NEW t \in Tab, TabStep(t) PROVE Goal
  BY <1>2, <1>6 DEF TabStep, BackStep, MoveStep
<1>7. Goal
  BY <1>1, <1>2, <1>5, <1>6, StepKinds DEF LinkExpires, AccessExpires, vars
<1>8. QED
  BY <1>7 DEF Goal

-----------------------------------------------------------------------------
(* The invariant, and what follows from it.                                *)

SignInInvariant == Typed /\ Links /\ OutIsOut /\ TabFacts /\ Names /\ Orphans

LEMMA InitSignIn == Init => SignInInvariant
  BY InitTyped, InitLinks, InitOut, InitTabFacts, InitNames, InitOrphans DEF SignInInvariant

LEMMA NextSignIn == SignInInvariant /\ [Next]_vars => SignInInvariant'
<1> SUFFICES ASSUME SignInInvariant, [Next]_vars PROVE SignInInvariant'
  OBVIOUS
<1>1. Typed /\ Links /\ OutIsOut /\ TabFacts /\ Names /\ Orphans
  BY DEF SignInInvariant
<1>2. Typed' /\ Links' /\ OutIsOut'
  BY <1>1, NextTyped, NextLinks, NextOut
<1>3. TabFacts'
  BY <1>1, NextTabFacts
<1>4. Names' /\ Orphans'
  BY <1>1, <1>3, NextNames, NextOrphans
<1>5. QED
  BY <1>2, <1>3, <1>4 DEF SignInInvariant

LEMMA SignInHolds == Spec => []SignInInvariant
  BY InitSignIn, NextSignIn, PTL DEF Spec

\* Cookies, the two tables of tokens, the tabs and their requests keep their types.
THEOREM TypeCorrect == Spec => []TypeOK
<1>1. SignInInvariant => TypeOK
  BY DEF SignInInvariant, Typed
<1>2. QED
  BY <1>1, SignInHolds, PTL

\* One link signs in once (VerifyMagicLink), whatever tabs and reloads confirm it.
THEOREM LinkIsSpentOnce == Spec => []LinkSpentOnce
<1>1. SignInInvariant => LinkSpentOnce
  BY DEF SignInInvariant, Links
<1>2. QED
  BY <1>1, SignInHolds, PTL

\* After an answered log-out the browser has no cookies until somebody signs in: what
\* arrives later can only take cookies away, or is a sign-in.
THEOREM LogoutClears == Spec => []OutIsOut
<1>1. SignInInvariant => OutIsOut
  BY DEF SignInInvariant
<1>2. QED
  BY <1>1, SignInHolds, PTL

\* The name a tab shows is the user its next request acts for, or nobody, until somebody
\* signs in in the browser.
THEOREM TabActsAsShown == Spec => []ActsAsShown
<1>1. SignInInvariant => ActsAsShown
  BY DEF SignInInvariant, Names, NameFact, ActsAsShown
<1>2. QED
  BY <1>1, SignInHolds, PTL

\* Log-out leaves no live token, unless an answer was lost, two requests overlapped or
\* somebody signed in over a session.
THEOREM NoTokenLeft == Spec => []NoOrphanToken
<1>1. SignInInvariant => NoOrphanToken
  BY DEF SignInInvariant, Orphans, Accounted, NoOrphanToken
<1>2. QED
  BY <1>1, SignInHolds, PTL

\* The safety half of NoEndlessWait: whatever is lost or refused, a page with a disabled
\* button has a timer or an answer to wait for that ends it, and so has one that is guarded.
THEOREM WaitingHasAWayOut == Spec => []NeverStuck
<1>1. Init => Typed /\ NeverStuck
  BY InitTyped, InitNeverStuck
<1>2. Typed /\ NeverStuck /\ [Next]_vars => Typed' /\ NeverStuck'
  BY NextTyped, NextNeverStuck
<1>3. QED
  BY <1>1, <1>2, PTL DEF Spec

\* What the pages make the server do, however requests overlap, are repeated or lost, is
\* what the ledger of sign-ins allows: the ledger that the handlers behind them implement
\* statement by statement (SessionsKeepLedger in SessionsProofs).
THEOREM PagesKeepLedger == Spec => LedgerSpec
<1>1. Init => Typed /\ LiveIsOwned /\ Ledger!Init
  BY InitTyped, LedgerInit
<1>2. Typed /\ LiveIsOwned /\ [Next]_vars => Typed' /\ LiveIsOwned' /\ [Ledger!Next]_(Ledger!vars)
  BY NextTyped, LedgerStep
<1>3. QED
  BY <1>1, <1>2, PTL DEF Spec, LedgerSpec, Ledger!Spec
=============================================================================
