-------------------------------- MODULE SignIn --------------------------------
(***************************************************************************)
(* How a browser gets in and out of the two applications: /login and       *)
(* /register of the dashboard, /login and /verify of the partner, the      *)
(* guard in front of their pages, and log-out.  The pages talk to one API, *)
(* whose cookies are those of the browser: its tabs share them, and so do  *)
(* the two applications.  Nothing refreshes an access token: when it       *)
(* expires its cookie is gone.                                             *)
(*                                                                         *)
(* A request carries the cookies of the moment it is sent; the cookies its *)
(* answer sets are stored when it arrives, also if the page that sent it   *)
(* has been left.  A refusal changes nothing on the server, nor does a     *)
(* question, so they are one step with the page that learns of them; what  *)
(* is granted is a step before it arrives, or is lost.  The server sends   *)
(* no e-mail: a magic link is what it answers outside production.          *)
(*                                                                         *)
(* A definition whose name ends in Fault is a plausible mistake in the     *)
(* definition that follows it; no specification uses one.                  *)
(***************************************************************************)
EXTENDS Integers, FiniteSets

CONSTANTS Dashboard, Partner, \* tabs of the two applications
          Token,              \* bound: sign-ins of one run, each with a refresh token
          Link,               \* bound: magic links
          Slot,               \* bound: requests of one tab under way
          Nobody, NoToken, NoLink

ASSUME SignInAssumption ==
    /\ Dashboard \cap Partner = {}
    /\ NoToken \notin Token
    /\ NoLink \notin Link
    /\ Nobody \notin {"operator", "partner"}

VARIABLES jar,      \* the cookies: whose access token, and which refresh token
          account,  \* the operator is registered
          owner,    \* refresh_tokens: whose, Nobody if unused
          origin,   \* the link a token was given for
          live,     \* those that are not revoked
          link,     \* magic_link_tokens
          tab,      \* the tabs
          call,     \* their requests under way
          mishap    \* history: why a token may be left behind

server == <<account, owner, origin, live, link>>
vars == <<jar, server, tab, call, mishap>>

Tab == Dashboard \cup Partner
User == {"operator", "partner"}
Jar == [access: User \cup {Nobody}, refresh: Token \cup {NoToken}]
NoCookies == [access |-> Nobody, refresh |-> NoToken]
Page == {"login", "register", "verify", "guard", "inside"}

\* due: the effect of the page has not run; busy: isLoading or loggingOut; dev: the link
\* of the page; shown: whose name it shows; stale: somebody has signed in since it asked;
\* push: the timers running; out: the last thing the tab did was to log out, with an answer.
TabState == [page: Page, due: BOOLEAN, busy: BOOLEAN, dev: Link \cup {NoLink},
             shown: User \cup {Nobody}, stale: BOOLEAN, push: SUBSET {"login", "guard"}, out: BOOLEAN]
Blank == [page |-> "login", due |-> FALSE, busy |-> FALSE, dev |-> NoLink, shown |-> Nobody,
          stale |-> FALSE, push |-> {}, out |-> FALSE]

SignInFn == {"login", "again", "register", "verify"}
CallState == [at: {"idle", "sent", "answered"}, fn: SignInFn \cup {"none", "link", "me", "load", "logout"},
              mine: BOOLEAN, cookies: Jar, link: Link \cup {NoLink},
              token: Token \cup {NoToken}]
Idle == [at |-> "idle", fn |-> "none", mine |-> FALSE, cookies |-> NoCookies, link |-> NoLink,
         token |-> NoToken]

TypeOK ==
    /\ jar \in Jar
    /\ account \in BOOLEAN
    /\ owner \in [Token -> User \cup {Nobody}]
    /\ origin \in [Token -> Link \cup {NoLink}]
    /\ live \subseteq Token
    /\ link \in [Link -> {"unused", "issued", "spent"}]
    /\ tab \in [Tab -> TabState]
    /\ call \in [Tab -> [Slot -> CallState]]
    /\ mishap \in BOOLEAN

Init ==
    /\ jar = NoCookies
    /\ account \in BOOLEAN
    /\ owner = [k \in Token |-> Nobody]
    /\ origin = [k \in Token |-> NoLink]
    /\ live = {}
    /\ link = [l \in Link |-> "unused"]
    /\ tab = [t \in Tab |-> Blank]
    /\ call = [t \in Tab |-> [s \in Slot |-> Idle]]
    /\ mishap = FALSE

Changes(fn) == fn \in SignInFn \cup {"logout"}
Changing == {ts \in Tab \X Slot : Changes(call[ts[1]][ts[2]].fn)}

-----------------------------------------------------------------------------
(* Tabs.                                                                   *)

\* fetch of lib/api.ts or of the page, with credentials: "include"; of the cookies, those
\* the handler looks at.
Carried(fn) == [access |-> IF fn \in {"me", "load"} THEN jar.access ELSE Nobody,
                refresh |-> IF fn = "logout" THEN jar.refresh ELSE NoToken]
Send(t, s, fn, l) ==
    /\ call[t][s].at = "idle"
    /\ call' = [call EXCEPT ![t][s] = [Idle EXCEPT !.at = "sent", !.fn = fn, !.mine = TRUE,
                                          !.cookies = Carried(fn), !.link = l]]
    /\ mishap' = (mishap \/ (Changes(fn) /\ Changing # {}) \/ (fn \in SignInFn /\ jar.refresh # NoToken))

\* The forms of /login, of /register, and of the partner's /login, before and after a
\* link is shown there; and the button in the sidebar.  Each can be used unless it is busy.
LoginForm(t) == t \in Dashboard /\ tab[t].page = "login" /\ ~tab[t].busy
RegisterForm(t) == t \in Dashboard /\ tab[t].page = "register" /\ ~tab[t].busy
EmailForm(t) == t \in Partner /\ tab[t].page = "login" /\ tab[t].dev = NoLink /\ ~tab[t].busy
LinkForm(t) == t \in Partner /\ tab[t].page = "login" /\ tab[t].dev # NoLink /\ ~tab[t].busy
LogoutOffered(t) == tab[t].page = "inside" /\ ~tab[t].due /\ ~tab[t].busy

SubmitLogin(t, s) ==
    /\ LoginForm(t)
    /\ tab' = [tab EXCEPT ![t].busy = TRUE, ![t].out = FALSE]
    /\ Send(t, s, "login", NoLink)
    /\ UNCHANGED <<jar, server>>

SubmitRegister(t, s) ==
    /\ RegisterForm(t)
    /\ tab' = [tab EXCEPT ![t].busy = TRUE, ![t].out = FALSE]
    /\ Send(t, s, "register", NoLink)
    /\ UNCHANGED <<jar, server>>

\* handleSubmit of the partner's login, until the link is shown.
SubmitEmail(t, s) ==
    /\ EmailForm(t)
    /\ tab' = [tab EXCEPT ![t].busy = TRUE, ![t].out = FALSE]
    /\ Send(t, s, "link", NoLink)
    /\ UNCHANGED <<jar, server>>

HandleDevConfirm(t, s) ==
    /\ LinkForm(t)
    /\ tab' = [tab EXCEPT ![t].busy = TRUE]
    /\ Send(t, s, "verify", tab[t].dev)
    /\ UNCHANGED <<jar, server>>

\* "Voltar" can be pressed while the link is being confirmed.
Back(t) ==
    /\ tab[t].page = "login"
    /\ tab[t].dev # NoLink
    /\ tab' = [tab EXCEPT ![t].dev = NoLink]
    /\ UNCHANGED <<jar, server, call, mishap>>

\* The effects of /verify, of AuthGuard, and of what loads the user's name inside.
RunEffect(t, s) ==
    /\ tab[t].due
    /\ tab' = [tab EXCEPT ![t].due = FALSE, ![t].stale = (tab[t].page # "inside" /\ tab[t].stale)]
    /\ Send(t, s, CASE tab[t].page = "verify" -> "verify"
                    [] tab[t].page = "guard"  -> "me"
                    [] tab[t].page = "inside" -> "load", tab[t].dev)
    /\ UNCHANGED <<jar, server>>

HandleLogout(t, s) ==
    /\ LogoutOffered(t)
    /\ tab' = [tab EXCEPT ![t].busy = TRUE]
    /\ Send(t, s, "logout", NoLink)
    /\ UNCHANGED <<jar, server>>

\* The name that was shown is kept.
AtFault(st, page) == [Blank EXCEPT !.page = page, !.due = (page \in {"guard", "inside"}),
                                   !.shown = st.shown, !.push = st.push, !.out = st.out]

\* The page of a tab is another: its state starts over, its timers run on.
At(st, page) == [Blank EXCEPT !.page = page, !.due = (page \in {"guard", "inside"}),
                              !.push = st.push, !.out = st.out]
Left(t) == [s \in Slot |-> [call[t][s] EXCEPT !.mine = FALSE]]

\* The links between /login and /register.
Switch(t) ==
    /\ t \in Dashboard
    /\ tab[t].page \in {"login", "register"}
    /\ tab' = [tab EXCEPT ![t] = At(@, IF @.page = "login" THEN "register" ELSE "login")]
    /\ call' = [call EXCEPT ![t] = Left(t)]
    /\ UNCHANGED <<jar, server, mishap>>

\* setTimeout(() => router.push(...), 600).
TimerFires(t) ==
    \E page \in tab[t].push :
       /\ tab' = [tab EXCEPT ![t] = [At(@, page) EXCEPT !.push = tab[t].push \ {page}]]
       /\ call' = [call EXCEPT ![t] = Left(t)]
       /\ UNCHANGED <<jar, server, mishap>>

\* A URL is typed, or the link to /verify opened.  Nothing of the tab is under way: a
\* request that is left so is one whose answer is lost.
Load(t, page, l) ==
    /\ page \in (IF t \in Dashboard THEN {"login", "register", "guard"} ELSE {"login", "verify", "guard"})
    /\ IF page = "verify" THEN l \in Link /\ link[l] # "unused" ELSE l = NoLink
    /\ \A s \in Slot : call[t][s].at = "idle"
    /\ tab' = [tab EXCEPT ![t] = [Blank EXCEPT !.page = page, !.due = (page # "login" /\ page # "register"),
                                     !.dev = l]]
    /\ UNCHANGED <<jar, server, call, mishap>>

\* The access token expires, and its cookie with it.
AccessExpires ==
    /\ jar.access # Nobody
    /\ jar' = [jar EXCEPT !.access = Nobody]
    /\ UNCHANGED <<server, tab, call, mishap>>

-----------------------------------------------------------------------------
(* The server.                                                             *)

\* The server has done what was asked: k is the token it grants.  What the request said
\* is not needed any more.
Answer(t, s, k) == call' = [call EXCEPT ![t][s].at = "answered", ![t][s].token = k,
                                        ![t][s].cookies = NoCookies, ![t][s].link = NoLink]

\* A session and a refresh token are stored, and the two cookies are set.
Grant(t, s, user, l) ==
    \E k \in Token :
       /\ owner[k] = Nobody
       /\ owner' = [owner EXCEPT ![k] = user]
       /\ origin' = [origin EXCEPT ![k] = l]
       /\ live' = live \cup {k}
       /\ Answer(t, s, k)

ServeLogin(t, s) ==
    /\ call[t][s].at = "sent" /\ call[t][s].fn \in {"login", "again"}
    /\ account
    /\ Grant(t, s, "operator", NoLink)
    /\ UNCHANGED <<jar, account, link, tab, mishap>>

ServeRegister(t, s) ==
    /\ call[t][s].at = "sent" /\ call[t][s].fn = "register"
    /\ ~account
    /\ account' = TRUE
    /\ Grant(t, s, "operator", NoLink)
    /\ UNCHANGED <<jar, link, tab, mishap>>

\* RequestMagicLink.
ServeLink(t, s) ==
    /\ call[t][s].at = "sent" /\ call[t][s].fn = "link"
    /\ \E l \in Link :
          /\ link[l] = "unused"
          /\ link' = [link EXCEPT ![l] = "issued"]
          /\ call' = [call EXCEPT ![t][s].at = "answered", ![t][s].link = l]
    /\ UNCHANGED <<jar, account, owner, origin, live, tab, mishap>>

\* The link is not marked as used.
ServeVerifyFault(t, s) ==
    /\ call[t][s].at = "sent" /\ call[t][s].fn = "verify"
    /\ link[call[t][s].link] = "issued"
    /\ Grant(t, s, "partner", call[t][s].link)
    /\ UNCHANGED <<jar, account, link, tab, mishap>>

\* VerifyMagicLink: one UPDATE tests and marks the link.
ServeVerify(t, s) ==
    /\ call[t][s].at = "sent" /\ call[t][s].fn = "verify"
    /\ link[call[t][s].link] = "issued"
    /\ link' = [link EXCEPT ![call[t][s].link] = "spent"]
    /\ Grant(t, s, "partner", call[t][s].link)
    /\ UNCHANGED <<jar, account, tab, mishap>>

\* fifteen minutes have passed.
LinkExpires(l) ==
    /\ link[l] = "issued"
    /\ link' = [link EXCEPT ![l] = "spent"]
    /\ UNCHANGED <<jar, account, owner, origin, live, tab, call, mishap>>

\* The token of the cookie stays valid.
ServeLogoutFault(t, s) ==
    /\ call[t][s].at = "sent" /\ call[t][s].fn = "logout"
    /\ Answer(t, s, NoToken)
    /\ UNCHANGED <<jar, server, tab, mishap>>

\* Logout revokes the token it is shown, that one only.
ServeLogout(t, s) ==
    /\ call[t][s].at = "sent" /\ call[t][s].fn = "logout"
    /\ live' = live \ {call[t][s].cookies.refresh}
    /\ Answer(t, s, NoToken)
    /\ UNCHANGED <<jar, account, owner, origin, link, tab, mishap>>

-----------------------------------------------------------------------------
(* Answers.                                                                *)

Under(t, s, fns, at) == call[t][s].fn \in fns /\ call[t][s].at \in at
Arrived(t, s, fns) == Under(t, s, fns, {"answered"})
Close(t, s) == call' = [call EXCEPT ![t][s] = Idle]

\* The cookies of a sign-in reach the browser: every tab has them, st being the state of
\* the one that asked.
StoreCookies(t, s, st) ==
    LET k == call[t][s].token IN
    /\ jar' = [access |-> owner[k], refresh |-> k]
    /\ tab' = [u \in Tab |-> [(IF u = t THEN st ELSE tab[u]) EXCEPT !.stale = TRUE, !.out = FALSE]]

LoginArrives(t, s) ==
    /\ Arrived(t, s, {"login", "again"})
    /\ StoreCookies(t, s, [tab[t] EXCEPT !.push = @ \cup {"guard"}])
    /\ Close(t, s)
    /\ UNCHANGED <<server, mishap>>

\* The account is there: its cookies are set, and the page logs in once more.
RegisterArrives(t, s) ==
    /\ Arrived(t, s, {"register"})
    /\ StoreCookies(t, s, tab[t])
    /\ call' = [call EXCEPT ![t][s] = [Idle EXCEPT !.at = "sent", !.fn = "again",
                                          !.mine = call[t][s].mine]]
    /\ mishap' = TRUE
    /\ UNCHANGED server

\* That log-in is refused: the page asks for another, with the button still disabled.
AgainRefused(t, s) ==
    /\ Under(t, s, {"again"}, {"sent"})
    /\ tab' = [tab EXCEPT ![t].push = @ \cup {"login"}]
    /\ Close(t, s)
    /\ UNCHANGED <<jar, server, mishap>>

\* The button stays disabled after a failure.
SubmitFailsFault(t, s) ==
    /\ Under(t, s, SignInFn \cup {"link"}, {"sent", "answered"})
    /\ Close(t, s)
    /\ UNCHANGED <<jar, server, tab, mishap>>

\* The request is refused (wrong credentials, an e-mail that is taken, a link that is
\* spent, a rate limit), or it is lost, or its answer: a toast, or an error on /verify.
\* The button is enabled again.
SubmitFails(t, s) ==
    /\ Under(t, s, SignInFn \cup {"link"}, {"sent", "answered"})
    /\ tab' = IF call[t][s].mine THEN [tab EXCEPT ![t].busy = FALSE] ELSE tab
    /\ mishap' = (mishap \/ call[t][s].token # NoToken)
    /\ Close(t, s)
    /\ UNCHANGED <<jar, server>>

\* The wrong field of the answer is read.
LinkArrivesFault(t, s) ==
    /\ Arrived(t, s, {"link"})
    /\ tab' = IF call[t][s].mine
              THEN [tab EXCEPT ![t].busy = FALSE, ![t].dev = call[t][s].token] ELSE tab
    /\ Close(t, s)
    /\ UNCHANGED <<jar, server, mishap>>

LinkArrives(t, s) ==
    /\ Arrived(t, s, {"link"})
    /\ tab' = IF call[t][s].mine
              THEN [tab EXCEPT ![t].busy = FALSE, ![t].dev = call[t][s].link] ELSE tab
    /\ Close(t, s)
    /\ UNCHANGED <<jar, server, mishap>>

\* handleDevConfirm, and the effect of /verify.
VerifyArrives(t, s) ==
    /\ Arrived(t, s, {"verify"})
    /\ StoreCookies(t, s, At(tab[t], "guard"))
    /\ Close(t, s)
    /\ UNCHANGED <<server, mishap>>

\* Me, behind AuthJWT, which looks at the access token alone.  A guard that is not
\* refused lets in: if its question is lost, the pages will show why.
MeArrives(t, s) ==
    /\ Under(t, s, {"me"}, {"sent"})
    /\ tab' \in {[tab EXCEPT ![t] = IF call[t][s].mine THEN At(@, page) ELSE @] :
                    page \in {"inside"} \cup (IF call[t][s].cookies.access = Nobody THEN {"login"} ELSE {})}
    /\ Close(t, s)
    /\ UNCHANGED <<jar, server, mishap>>

LoadArrives(t, s) ==
    /\ Under(t, s, {"load"}, {"sent"})
    /\ tab' \in {[tab EXCEPT ![t].shown = IF call[t][s].mine THEN user ELSE @] :
                    user \in {call[t][s].cookies.access, Nobody}}
    /\ Close(t, s)
    /\ UNCHANGED <<jar, server, mishap>>

\* Only the access token is removed.
LogoutArrivesFault(t, s) ==
    /\ Arrived(t, s, {"logout"})
    /\ jar' = [jar EXCEPT !.access = Nobody]
    /\ tab' = [tab EXCEPT ![t] = [At(@, "login") EXCEPT !.out = TRUE]]
    /\ call' = [call EXCEPT ![t] = [Left(t) EXCEPT ![s] = Idle]]
    /\ UNCHANGED <<server, mishap>>

\* The cookies are removed, whosever they are by now.
LogoutArrives(t, s) ==
    /\ Arrived(t, s, {"logout"})
    /\ jar' = NoCookies
    /\ tab' = [tab EXCEPT ![t] = [At(@, "login") EXCEPT !.out = TRUE]]
    /\ call' = [call EXCEPT ![t] = [Left(t) EXCEPT ![s] = Idle]]
    /\ UNCHANGED <<server, mishap>>

\* The request or its answer is lost: ignored, the tab goes to /login all the same.
LogoutFails(t, s) ==
    /\ Under(t, s, {"logout"}, {"sent", "answered"})
    /\ tab' = [tab EXCEPT ![t] = [At(@, "login") EXCEPT !.out = FALSE]]
    /\ call' = [call EXCEPT ![t] = [Left(t) EXCEPT ![s] = Idle]]
    /\ UNCHANGED <<jar, server, mishap>>

-----------------------------------------------------------------------------
Ask(t, s) == SubmitLogin(t, s) \/ SubmitRegister(t, s) \/ SubmitEmail(t, s)
                \/ HandleDevConfirm(t, s) \/ HandleLogout(t, s)
Serve(t, s) == ServeLogin(t, s) \/ ServeRegister(t, s) \/ ServeLink(t, s) \/ ServeVerify(t, s)
                  \/ ServeLogout(t, s)
Arrive(t, s) == LoginArrives(t, s) \/ RegisterArrives(t, s) \/ AgainRefused(t, s)
                   \/ SubmitFails(t, s) \/ LinkArrives(t, s) \/ VerifyArrives(t, s)
                   \/ MeArrives(t, s) \/ LoadArrives(t, s) \/ LogoutArrives(t, s) \/ LogoutFails(t, s)

Next ==
    \/ \E t \in Tab, s \in Slot : Ask(t, s) \/ RunEffect(t, s) \/ Serve(t, s) \/ Arrive(t, s)
    \/ \E t \in Tab : Back(t) \/ Switch(t) \/ TimerFires(t)
    \/ \E t \in Tab, page \in Page, l \in Link \cup {NoLink} : Load(t, page, l)
    \/ \E l \in Link : LinkExpires(l)
    \/ AccessExpires

\* A fetch settles, with an answer or without one; what is due is run, and timers fire.
Fairness ==
    \A t \in Tab :
       /\ \A s \in Slot :
             WF_vars(Arrive(t, s))
       /\ WF_vars(\E s \in Slot : RunEffect(t, s))
       /\ WF_vars(TimerFires(t))

Spec == Init /\ [][Next]_vars /\ Fairness

-----------------------------------------------------------------------------
(* Properties.                                                             *)

\* Two sign-ins are never granted for one link, however many tabs open it, reload it or
\* confirm it at once.
LinkSpentOnce ==
    \A k, m \in Token : origin[k] # NoLink /\ origin[k] = origin[m] => k = m

\* Unless an answer was lost, two requests were under way at once, or somebody signed in
\* over another session (which registering always does), the only token that is live on
\* the server is the one of the browser, or on its way to it: log-out leaves none.
NoOrphanToken ==
    ~mishap =>
        \A k \in live : k = jar.refresh \/ \E t \in Tab, s \in Slot : call[t][s].token = k

\* Once a tab has logged out the browser has no cookies left, until somebody signs in
\* again, in whatever order answers come.  (If the answer is lost the page says the same,
\* and the cookies are still there.)
OutIsOut == (\E t \in Tab : tab[t].out) => jar = NoCookies

\* A tab that shows the name of a user acts for that user or for nobody, until somebody
\* signs in in this browser: the tab is not told, and what it does next is done by the
\* other.
ActsAsShown ==
    \A t \in Tab : tab[t].shown # Nobody /\ ~tab[t].stale => jar.access \in {tab[t].shown, Nobody}

\* No spinner lasts: a page that is being guarded is shown or left, and a button that is
\* disabled is enabled again or its page left, whatever is lost.
NoEndlessWait ==
    \A t \in Tab : tab[t].page = "guard" \/ tab[t].busy
                      ~> tab[t].page # "guard" /\ ~tab[t].busy
=============================================================================
