# IndicaAI: specifications and proofs

IndicaAI runs referral programs. A tenant (a company) opens a program, partners
refer leads, closed sales earn rewards, and rewards are paid out by Pix. This
directory holds TLA+ models of the parts of the program where the order of steps
matters, the TLC configurations that check them, and TLAPS proofs of what holds
for every instance. Line numbers are those of `src/`.

Run from this directory:

    tlc -config PayoutsRace.cfg MCPayouts        # one configuration
    tlapm PayoutsProofs.tla                      # the proofs of one module

## 1. The system

Two Go processes share one Postgres database. `cmd/api` serves HTTP; it may run
in several instances. `cmd/worker` runs the payout creation job every day
at 03:00 UTC (`--run-once-payouts` runs it once). Redis holds the rate limiter.
There is no message queue in service: `platform/queue` is a stub, so the attribution,
Pix and webhook workers exist as code that nothing calls. Almost every handler talks to
the database one statement at a time, outside any transaction, and many ignore the errors of
their writes: between two statements of a handler anything else may happen, and the
process may stop.

Two Next.js applications talk to the API, one for the operators of a tenant (`web/apps/dashboard`),
one for partners (`web/apps/partner`). Their pages hold copies of server rows in React state. An
async handler of a page runs to its `await`, and goes on when the answer comes: other clicks,
other answers, a page that is left, and other users come in between. Requests and answers get lost.

| Component | State | Operations | Talks to | What is hard | What makes it correct |
|---|---|---|---|---|---|
| Rewards and payouts (`handlers/rewards`, `handlers/payouts`, `workers/payouts/create_payouts_job.go`) | `rewards`, `payouts`, `partners.pix_key` | approve, reject; the creation job (worker and HTTP variants); confirm, paid, cancel | erasure and partners write `pix_key`; rewards come from attribution | check and INSERT not atomic; job overlapping itself; payouts sharing rewards; one NULL key stopping a run | holds respected, pending payouts bounded, no reward paid twice, statuses agree, every eligible reward served |
| Sign-in and refresh tokens (`handlers/auth`, `platform/auth`) | `users`, `sessions`, `refresh_tokens`, `magic_link_tokens` | register, login, magic link, refresh, logout | sessions, both applications | two refreshes with one cookie; lost responses; rotation racing a revocation; ignored errors | one live token per sign-in; a stolen family stays dead |
| Sessions (`handlers/sessions`) | `sessions`, `refresh_tokens` | revoke, revoke all | auth | sign-ins and refreshes under way | a revoked session lets nobody back in |
| LGPD (`handlers/lgpd`, `workers/lgpd`) | `lgpd_requests`, `consents`, personal data in `users`, `partners`, `leads` | request export or erasure, grant and revoke consent | payouts (keys), leads, sessions | the job is a goroutine: lost at a restart; errors ignored; order of the statements | an erasure that completes has erased; requests do not pile up |
| List screens (`/saques`, `/comissoes`, `/indicacoes`, `/auditoria`, `/programas`, overview; partner's home, statement, leads) | the list, its cards, spinner, error, busy row, open sheet; requests under way | load, act on a row, reload, leave | payout, reward and lead handlers; the other readers of the API | answers out of order; rows that moved on; a sheet unmounted while it saves; swallowed errors | never ahead of the server, right when quiet, no control stuck, "nothing yet" only when so |
| Forms (partner's new lead, `/parceiros`, Pix key, publishing) | fields, disabled button, timers; submissions under way | open, edit, submit, leave | partners, programs handlers | presses again after a lost or late answer; redirect timers; effects that fill in the split | one thing per opening, the share that was shown, the key that was announced |
| Program wizard (`/programas/novo`, `tier-builder.tsx`, `domain/rules`) | the draft and its lines | edit lines, publish | rules engine | values typed for another type, ranges edited in any order, limits | what is accepted and paid is what the preview shows, with named exceptions |
| Web sign-in and sign-out (`/login`, `/register`, `/verify`, guards, sidebar) | cookies, tabs, timers; requests under way | log in, register, ask for and confirm a link, log out | auth handlers | answers that set or clear cookies after the page was left; two applications, one set of cookies | a link signs in once, log-out leaves nothing, a tab acts for the user it shows |
| Lead intake (`handlers/partners`, `handlers/leads`) | `leads`, `referrals` | create a lead, change its status | fraud, attribution | fraud check and dedup outside the transaction; a second partner refers the same lead | one lead per phone and program, every referral belongs to a lead |
| Rules engine (`domain/rules`) | none | `Evaluate`, parse and validate rules | wizard, attribution | tiers, caps and splits at their limits | shares add up, nothing above a cap |
| Fraud scoring (`domain/fraud`) | none; reads leads and clicks | `Check` | lead intake | counts read before the write they guard | blocked above the threshold |
| Attribution worker, Pix worker (`workers/attribution`, `workers/payouts/worker.go`) | `attributions`, `rewards`, `payouts` | attribute a referral, process a payout | rules, Pix provider | redelivery; a crash after the transfer; a lock outside a transaction | one reward per sale, one transfer per payout |
| Rate limiter (`platform/cache`, `api/middleware`) | a token bucket per key in Redis | take a token | every route | clocks of several processes, rounding | at most the limit per window, refilled in time |
| Programs, tracking, webhooks, audit, platform | one row per request, or read-only | create, update, list | | see section 8 | |

## 2. Modules

| Module | What it is |
|---|---|
| `PayoutLedger` | abstract specification: what a payout promises, without handlers or jobs |
| `Payouts` | rewards, payouts and both variants of the creation job |
| `SignInLedger` | abstract specification: what signing in and out promises, without requests or statements |
| `Sessions` | sign-in, token rotation, theft detection, logout, revocation on the server |
| `Erasure` | LGPD requests, their jobs, consents and the rows they reach |
| `Screens` | what the list screens share: a tab, its copy of the rows, loads, actions and reloads |
| `SaquesPage`, `ComissoesPage`, `IndicacoesPage`, `ReadPages` | each screen with the handlers of the API behind it |
| `Dashboard` | the composition of the four: `Next`, `Spec` and the properties |
| `Forms` | what the forms share: openings, submissions, timers, what the server keeps |
| `LeadForm`, `PartnerForm`, `PixForm` | each form with the handler of the API behind it |
| `WebForms` | their composition, with publishing a program |
| `ProgramWizard` | the draft of a program, what is sent for it, accepted and paid |
| `SignIn` | tabs of both applications, the cookies they share, sign-in, magic links, guards, log-out |
| `PayoutsProofs`, `SessionsProofs`, `ErasureProofs`, `DashboardProofs`, `WebFormsProofs`, `ProgramWizardProofs`, `SignInProofs` | theorems |
| `PayoutsOnceProofs` | theorems about `Payouts` under precautions the code does not take |
| `MC...` | the instances TLC checks, with symmetry where it is sound |

On the server one statement, or one transaction, is executed at a
time. A handler that is one statement or one transaction is one action; in the models of the
server a handler with several statements takes one action for each and keeps what it holds
in memory between them (`run` in `Payouts`, `req` in `Sessions`, `call` and
`job` in `Erasure`). A statement that returns an error is an action of its own that does
what the code does with the error, usually nothing. A process that stops loses
its memory and no row. In the models of the applications a handler of the API is one step between
the sending of a request and its answer: the races inside handlers are those of the
server's modules. The models assume that the database role of the program is
not subject to row-level security, as the statements of the jobs, which set no tenant, need.
Several statements of one handler without effect on the modelled state are merged
with a neighbour. A definition whose name ends in `Fault` is a
plausible mistake in the definition that follows it: substituted, it must make a property
fail, which shows that the property can.

### Payouts

`rewardStatus`, `approvedAt`, `pixKey` and `payout` are columns; `today` is the clock the
hold is measured on. `Approve`, `Reject`, `UpdatePixKey` and `EraseData` are one UPDATE each.
`RunCreatePayoutsJob` is the worker's query for eligible rewards, which reads the keys and
fails as a whole on a NULL one; `CreatePayoutsJob` is the handler's, which leaves out
partners without a key and reads each key again (`ReadPixKey`). Per partner, `SkipPartner`
or `CheckPendingPayout` is the query for a pending payout, and `InsertPayout` the INSERT, which leaves the
reward rows alone. `StatementFails` and `Crash` are the error paths. `Confirm`,
`Paid` and `Cancel` move a payout; the last two write the status of every reward it lists.
Amounts are left out: the amount is the sum over the rewards listed, so two payouts pay
twice exactly when they list the same reward.

`PayoutLedger` says: a payout claims, once, a non-empty set of matured rewards of one partner,
to one key; the claim never changes; the payout goes pending, processing, paid, or is cancelled
before it is paid. The refinement maps the matured rewards to those whose hold has elapsed,
and the claim to the row without its status.

### Sessions

The rows of one user. A sign-in names the session and the family of tokens it starts. `Register`,
`Revoke` and `RevokeAll` are transactions. `SignIn` and `StoreFirst` are the two INSERTs of Login and
VerifyMagicLink. A refresh reads the token (`RefreshToken`), and then either revokes the
family (`RevokeFamily`) or runs `RevokeOld`, `StoreNew` and `SetReplacedBy`. A
response may be lost (`Respond`), a statement may fail (`StatementFails`), a request may
vanish (`Lost`). `issued` is what clients can present. Two history variables
qualify the properties: `overlapped` marks families on which two requests got in each other's
way or a revocation failed, `stolen` those revoked for theft when nothing else was under way.

`SignInLedger` says: a sign-in opens a family; tokens join it while it is open and are withdrawn for good; a family is closed
only without a token that is accepted, and stays closed. The refinement maps a family to "closed" when it has no live token and
no request that may store one. What becomes of a family whose session is revoked is not in it, as the code does not promise it.

### Erasure

The requests of one user, the consents and the leads with the user's address. `CreateRequest` is the look-up,
`Dispatch` the INSERT with the goroutine it starts. `Follows` is the order of the statements of both
jobs; each has its action. `AnonymiseLeads` finds leads by the hash the users row holds at that moment.
`failed` is never reached: the job ignores every error and returns nil.

### The list screens

`screen` is fixed for a run of the model: the rows of two screens are not related, and visiting another
screen is leaving this one. `db` is the status of each row on the server; `rows`, `cards` and `more` are what the
page read of it; `loading`, `error`, `busy` and `sheet` are its React state. A `call` is one async handler: first the
request that changes a row (`act`), then the GETs of the reload it starts (`read`), which nobody awaits. `Mount` and
`Unmount` are the first effect and leaving the page; `AnswerRead`, `LoseRead`, `ReadArrives` and `ReadFails` are
a load; `Send`, `Answered`, `LoseAct` and `Resume` an action. Each page module adds the handlers with their
guards (`HandleConfirm`, `HandleApprove`, `HandleStatusChange`, `HandleSave`, ...), what the server does
(`ServeConfirm` with its idempotency keys, `ServeReject`, `ServeStatus`, ...), and what others do meanwhile
(`...Elsewhere`). `ReadPages` has the six screens that only read, with the errors the overview and the list of programs swallow.
`blemish` is history: why the page may lawfully show old rows (others moved a row, a request was
lost, two reloads met, an error was swallowed).

### The forms

`form` is fixed for a run. `visit` counts openings of it, `submitting` is the disabled button, `leave` the timers that will
redirect the tab, `call` the submissions. `Send` is the request; `ServeLead`,
`ServePartner`, `ServeProgram` and `UpdatePixKey` are the handlers of the API; a request may be lost or refused, and an answer may
come after the form was left, when it does nothing but start a timer. `LeadForm` has the split: `me` arrives and an effect
fills it in; `PartnerForm` has the table that is mounted again after each creation; `PixForm` the key.
`made` is what exists on the server, `said` what was announced; `lostIn`, `overlap` and `leftBusy` are history that qualifies the properties.

### The wizard

`preset`, `trigger`, `flexMax` and the lines (`tiers`) as `TierBuilder` edits them, one action for each handler; `Publish` builds the rules from them
(`BuildBackendRules`), sends them, and the server accepts or refuses them (`Validate`); `Evaluate` is what the evaluators pay for a sale.
Numbers are integers: percentages in points, amounts in reais.

### Sign-in

`jar` is the browser's cookies; tabs of both applications share it. `tab` is the React state of a tab that
matters: which page, whether its effect has run, the disabled button, the link shown, the name shown, the timers. `call` is
the requests of a tab. A request carries the cookies of the moment it is sent; the cookies of an answer are stored when it
arrives, also for a page that was left. `owner`, `origin`, `live` and `link` are the server's tables; `Sessions` has the rotation
and revocation behind them, which the pages never use. `mishap` is history: an answer that granted a token was lost,
two requests that sign in or out overlapped, or somebody signed in over a session.

## 3. What the runs check

| Run | Result | States | What it asks |
|---|---|---|---|
| `payouts_race` | holds | 458,746 | a payout lists only rewards whose hold elapsed, although they may be rejected or reverted while a run holds them (`HeldLongEnough`); reward and payout statuses agree, and the one way they come apart (`PaidRewardBacked`, `SettledUnlessOverlap`); pending payouts of a partner never outnumber the overlapping runs (`PendingBoundedByRunners`); refinement of `PayoutLedger` (`LedgerSpec`) |
| `payouts_live` | holds | 11,424 | every eligible reward is eventually in a payout, as long as partners with eligible rewards have keys |
| `payouts_paid_twice` | violated | | a reward is paid by one payout |
| `payouts_no_key_blocks` | violated | | a partner without a key is only skipped |
| `sessions_rotation` | holds | 309,601 | `OneLiveToken`, `BoundTokenFollowsSession`, `StolenIsDead`, `NoResurrection`: only a sign-in revives a family; refinement of `SignInLedger` (`LedgerSpec`) |
| `sessions_revoked` | violated | | revoking a session ends the tokens that descend from it |
| `erasure_jobs` | holds | 1,701,819 | open requests of a kind never outnumber the calls served at once (`OpenBoundedByCalls`); a completed erasure without a failed statement anonymised the user and revoked the consents in force (`ErasureReachesUser`) |
| `erasure_leads` | violated | | such an erasure reached the user's leads |
| `dashboard_screens` | holds | 2,923,678 | nine screens: never ahead of the server (`NeverAhead`), back only when reloads overlap (`BackOnlyOnOverlap`), right when at rest (`QuietShowsTruth`), every spinner and disabled control has a request that ends it (`NoStuckControls`), "nothing yet" only when so (`NothingMeansNothing`), a click on an old row is refused (`AppliedAsShown`) |
| `web_forms` | holds | 210,890 | one opening makes one thing (`NoSilentTwin`), the share shown is the share stored (`ShareAsPromised`), a created partner is listed (`CreatedIsListed`), the key announced stands (`AnnouncedKeyStands`), a form that was not left is not taken away (`TakenAwayOnlyAfterLeaving`), every submission ends (`SubmissionEnds`) |
| `program_wizard` | holds | 1,313,532 | values fit their type after any edits (`ValueFitsType`, in `TypeOK`), the sale pays the first line (`PaysFirstLine`), the goal is a line of the preview (`GoalIsPromised`), which drafts are accepted (`AcceptedIffPublishable`) |
| `sign_in` | holds | 388,372 | a link signs in once (`LinkSpentOnce`), log-out leaves no token (`NoOrphanToken`) and no cookie (`OutIsOut`), a tab acts for the user it shows (`ActsAsShown`), no page waits for ever (`NoEndlessWait`) |

Every `TypeOK` is checked with its run.

### Bounds

* `PayoutsRace.cfg`: one partner, two rewards, three payouts, two overlapping runs, one of each
  variant, three days with a hold of one day. Two rewards are needed for payouts that share one
  reward and not the other, three payouts for a third claim after two overlap, two runs for the race.
  A reward approved on day 1 matures on day 2. Partners do not interact except through
  a failed run, which `PayoutsLive.cfg` and `PayoutsNoKeyBlocks.cfg` cover with two.
  `MaxDay` bounds the clock; the identifiers bound the number of payouts.
* `PayoutsLive.cfg`: two partners, a reward each, two payouts, the worker alone. `Served` counts a
  reward as served when the identifiers are used up, an artefact of the bound. No symmetry.
* `SessionsRotation.cfg`: two sign-ins, four tokens (one sign-in and three rotations, or two and two), two
  requests. One more request adds no new pair of conflicting statements.
* `ErasureJobs.cfg`: three requests, so that two calls can open one more than they should; two calls, one
  consent, one lead. Deadlock is not checked: the identifiers run out and all is done.
* `DashboardScreens.cfg`: two rows and two handlers, so that an action on a row meets the reload of another; two statuses of
  a lead; `MaxMoves` = 1 move of a row by somebody else. Handlers are bounded, not the length of a run: a tab may be opened, used and left
  for ever. Deadlock is not checked: the page may be left with nothing to read.
* `WebForms.cfg`: two visits and two submissions, the least for a late answer of one to meet another; two people to invite, one without a
  contact; two keys; percentages in halves (`MaxPct` = 2). Deadlock is not checked: visits and submissions run out.
* `ProgramWizard.cfg`: two lines; numbers below 0, between and above 100; ranges from 0 and 5; sales of 0, 1 and 200.
* `SignIn.cfg`: one tab of each application, one request of each under way, two tokens (a session and the one over it), one link. No symmetry,
  for the liveness property.
* The violations use the smallest instance on which they happen; it is given in each file.

Model checking finds an error only within these bounds; all safety properties of the passing runs are also proved without them (section 5).

### Fairness

* `payouts_live`, `payouts_no_key_blocks`: `WorkerFairness` says that the worker runs the job
  again whenever it stays possible (it is scheduled every day, create_payouts_job.go:202-225, and a crash only ends the current run),
  that a run goes on from one partner to the next, and that a statement retried day after day does
  not fail for ever (strong fairness of the check of each partner and of the INSERT). Nothing is assumed
  of the tenant, of the partners or of the HTTP variant.
* `web_forms`, `sign_in`: a `fetch` settles, with an answer or without one (weak fairness of the step with which it does, which includes the failure);
  in `SignIn` React runs an effect that is due and a `setTimeout` fires. Nothing is assumed of the user or of the server: the
  request may always fail instead.

## 4. Disagreements between the code and what it says

With a run that finds the statement violated; `PROJECT.json` quotes both sides:

1. Rewards stay approved when a payout claims them. Once it is confirmed, the next run claims them again,
   without any race, and both payouts can be paid (`payouts_paid_twice`).
2. One eligible partner without a key stops the worker's job for every tenant (`payouts_no_key_blocks`).
3. A rotated refresh token has no session, so revoking the session does not end it (`sessions_revoked`).
4. The erasure replaces the e-mail hash and then looks leads up by it: none is anonymised (`erasure_leads`).

Met while modelling and built into the models, without a run of their own:

* Payouts. Two overlapping runs create two pending payouts for one partner, which docs/payments-compliance.md:155 rules out
  (`SerialOnePending` proves that overlap is the only cause). Cancel and Paid write the status of the rewards whatever it is
  (handlers/payouts/handler.go:297, 224). The worker's payout carries the key read with the batch
  (create_payouts_job.go:99), not the key at creation (docs/payments-compliance.md:631). Paying a payout's reward overwrites a rejection.
* Reads. The wallet query writes `COALESCE(SUM(..),0) FILTER (..)`, which PostgreSQL rejects, so `/parceiro/extrato` always shows
  its error (`WalletRefused`). The overview ignores every query error (dashboard/handler.go:57-173). The list of programs ignores the scan error of
  a timestamp read into a string (programs/handler.go:172). Four pages say "Nenhum ... ainda" beneath the error of a failed load.
  `/api/rewards/summary` counts rewards per status (rewards/handler.go:91-118); comissoes/page.tsx:124-142 shows the counts as money.
* Leads. A status may follow any other and the last write wins (leads/handler.go:125).
* Forms. The redirect of a form that was left takes away what the tab shows next; the Pix form blanks a key typed while another is saved;
  every press after a lost answer makes another lead, partner or program.
* Wizard. The toast says the program is active and its status is `draft`; the "manual" trigger is offered and refused;
  lines after the first are shown and never paid; points and recurring fixed amounts are published as percentages;
  cents are cut off (evaluators.go:13).
* Sign-in. No magic link is ever sent by e-mail (`dev_token` outside production only); a log-out that is lost looks like one that worked; registering
  leaves two live tokens; signing in over a session leaves the old one live; the two applications share cookies; the guard asks once; an expired
  access token is never refreshed; the terms box of /register is neither required nor recorded.

## 5. What is proved

Every theorem holds for every value of the constants under the assumptions named in the modules
(`ConstantsAssumption`, `SessionAssumption`, `ErasureAssumption`, `ScreensAssumption` and `AnswerAssumption`,
`FormsAssumption`, `WizardAssumption`, `SignInAssumption`). They fix the types of the parameters and keep the values that stand
for NULL or for "nothing" apart from the others. Finiteness is assumed in two places, where sets are counted: the executions of the job
(`PendingBounded`) and the calls (`OpenBounded`).

Every safety property of a passing run is a theorem. The runs found out what holds; the proofs show that the bounds of
section 3 hide nothing. In each module the argument is an inductive invariant: the property itself is too weak to survive a
step, because what a request in flight will do is not in it.

`PayoutsProofs`:

* `TypeCorrect`, `HoldRespected` (`HeldLongEnough`). The invariant `IInv` adds what a run holds in memory: its batch has
  matured and stays so (`BatchHeld`, because `approved_at` is written once, which needs `PendingUnstamped`), and a run
  about to insert knows a key and a partner that owns a reward of its batch (`KeysRead`).
* `LedgerImplemented`: `Spec => LedgerSpec`, step by step: `InsertPayout` opens, `Confirm`, `Paid` and `Cancel` move,
  a day that passes or an approval matures, the rest stutters.
* `PaidIsBacked`, `PaidIsSettled`: from the fact that what a payout claims never changes.
* `SerialOnePending`: with one runner, a partner never has two pending payouts. The invariant is
  `CommittedAlone`: while the run is past the check there is none. So overlap is the only cause of two.
* `PendingBounded`: with any number of runners, the pending payouts of a partner and the runners past the check are
  together at most the runners (`Counted`): a runner passes the check only where nothing is pending, and an INSERT turns
  one that is past the check into a payout.

`PayoutsOnceProofs` asks what it would take for disagreement 1 of section 4 not to happen. `CarefulSpec` is `Spec` with three precautions
the code does not take: executions never hold the same reward (`RunsApart`), none reads a reward of a payout that is being
processed (`RunsAfterPaying`), and no payout is confirmed while an execution holds one of its rewards (`ConfirmsApart`). Nothing else is
constrained: statements fail, processes crash, payouts are cancelled.

* `CarefulClaimsOnce`, `CarefulPaysOnce`, `CarefulStaysPaid`: under the three, payouts that are not cancelled claim different rewards,
  none is paid twice, and what was paid stays paid. The invariant `OnceInv` adds what executions hold (`HandsApart`, `InHandUnpaid`,
  `CommittedFree`). None can be dropped: TLC finds a reward paid twice under any two of them.
* `RewardsStayWithOwner`: with or without them, a payout lists rewards of its own partner only.

`SessionsProofs`, all from one invariant:

* `SessionTypes`, `RotationLeavesOne` (`OneLiveToken`), `RevocationReachesBound`, `TheftEndsFamily`,
  `DeadStaysDead` (`NoResurrection`).
* The invariant is `OneHolder`: in a family that is not marked there is one request that may
  store a token, or one live token, and the token a request is about to revoke counts with the
  request. `TokensFiled` and `RequestsFiled` say that tokens and requests belong to sign-ins
  that happened; `LateSignIn` covers sign-ins whose session was revoked under way. Most steps only retire tokens and
  requests, and one lemma, `RetiringStep`, deals with all of them; `TokenStored` deals with
  the three that store a row.
* `SessionsKeepLedger`: `Spec => LedgerSpec`. Every step but four only ages the families: it retires tokens and requests, so it withdraws
  tokens and closes families, or stutters. `Register` and `SignIn` open a family; `StoreFirst` and `StoreNew` issue a token, in a
  family that is open because their own request is under way.
* `DeadForever`: a dead family stays dead. `SigningOutEnds`, an action property: with nothing under way on it, a sign-in
  ends with `RevokeAll`; with `Revoke`, if every live token still carries its session; with `Logout` of the live token, if no two requests overlapped on it.
* `RevokeMissesRotated`: what outlives a revoked session was stored by a rotation, or by a sign-in that overlapped the revocation. It says how far
  disagreement 3 of section 4 goes.

`ErasureProofs`:

* `TypeCorrect`, `UserIsErased` (`ErasureReachesUser`). The invariant says what a job without an error has left behind at each
  of its statements (`UserDone`, `ConsentsDone`).
* `LeadsReachedByFaultOnly`: a lead is anonymised only if a statement of some erasure failed. Disagreement 4 of section 4 is no accident of the
  small instance: the job that works never reaches a lead, because when it gets to the leads the lookup hash has been replaced (`UserDone`).
* `OpenBounded`: the open requests of a kind and the calls about to insert one are at most the calls (`Counted`).

`DashboardProofs`. Every step of the composition is one of a dozen kinds (`StepKinds`: mounting, an answer of a GET, its arrival or
failure, what the server does, a lost request, a click, the end of a handler with or without a reload, the sheet, a move by others,
leaving); the invariants are proved over the kinds, not over the actions of four modules.

* `TypeCorrect`: `Typed` says what a call may be at, and that a page that is not mounted has nothing.
* `TableIsNeverAhead`, `BackIsOverlap`: lists and answers under way are older than the rows of the server (`Dated`); without an overlap
  one GET is under way, and its answer is no older than the table (`Order`).
* `RestIsTrue`: while nothing has disturbed the page, a request was accepted whose handler will reload, or one reload is under way, or
  the page is true (`Quiet`).
* `ControlsAreCleared`: who waits for what (`Spinning`, `Waiting`, `Saving`). The row that is disabled must not depend on the
  save of the sheet, which does not clear it.
* `EmptyIsEmpty`: an empty answer came from an empty table, and outside `/saques` no request adds a row (`Told`).
* `ClicksApplyAsShown`: the status a row had when it was clicked is no further than its status now (`Dated`).

`WebFormsProofs`, from `FormsInvariant`:

* `TypeCorrect`, `NoTwin` (a form with a submission of its visit pending is disabled, or an answer of that visit was lost: `OneAtATime`), `PromisedShare`
  (the chosen split is that of the card, and what was sent is what was shown: `PromiseKept`), `Listed` (`ListedOrReloading`), `KeyAsAnnounced` (`KeyIsLast`),
  `OnlyAfterLeaving` (what is under way belongs to the form that is open: `Attended`).
* `SubmittingHasAWayOut`: a form that is submitting has a submission of its own under way or a timer that runs. With the fairness
  of section 3 that is why `SubmissionEnds`; the rest of that argument is TLC's.

`ProgramWizardProofs`:

* `TypeCorrect`, `ValuesFit`, `FirstLineIsPaid`, `GoalHonest`, `AcceptanceCharacterised`: for any number of lines, any bounds
  and any sale. `Draft` is kept by every edit of a sequence of lines; the rest is what `BuildReward` and `Evaluate` do with such a draft.
* `CostsAreBounded`: a percentage the server accepted never costs more than the sale (`PercentBounded`); fixed amounts and recurring
  programs have no such limit in the code, and a goal publishes a number of sales as its value.

`SignInProofs`, from `SignInInvariant`, for any number of tabs of each application and of requests of a tab:

* `TypeCorrect`, `LinkIsSpentOnce` (`Links`), `LogoutClears`, `TabActsAsShown` and `NoTokenLeft`. A tab of the partner's application has one request that decides where it goes,
  and waits for it (`TabFacts`); the name shown is that of the access token, or somebody has signed in (`Names`); without a mishap each live token is in the jar
  or in the answer of the one request that changes who is signed in (`Orphans`).
* `WaitingHasAWayOut`: a disabled button has a timer or a request of its own page to wait for (also between the two requests of
  registering, and after a log-in whose refusal leaves it disabled), a guarded page its question. With the fairness of section 3 that is why
  `NoEndlessWait`.
* `PagesKeepLedger`: the tokens, each its own family, follow `SignInLedger`, the specification that the handlers of `Sessions`
  implement. So the two models, one of the pages over whole requests and one of the handlers over statements, agree on what signing
  in and out does to a token.

## 6. What is only model-checked

The three liveness properties, because liveness under fairness is out of the prover's reach: `EligibleServedIfEarnersKeyed`, `SubmissionEnds`
and `NoEndlessWait`. Of the last two the safety half is proved: whoever waits has something to wait for. That it comes is fairness, and that
it ends the wait rather than start another is what TLC adds.

The violations are counterexamples and need no proof; section 5 says of three of them how far they go: which precautions
exclude a reward paid twice (`CarefulPaysOnce`), which tokens outlive a session (`RevokeMissesRotated`), and that the leads are missed
in every instance (`LeadsReachedByFaultOnly`).

## 7. Plan

Next, about the modules that are there: an abstract specification of a privacy request that `Erasure` implements, and the rest of what
the disagreements of section 4 leave true. Then more modules:

1. `LeadIntake`: CreateLead statement by statement (fraud check, transaction, unique index), two partners with one phone. One lead per phone
   and program; a lead never changes its referral; the fraud threshold under concurrent requests.
2. `PayoutConfirm`: Confirm, Paid and Cancel with the expiry of idempotency keys, retries and audit entries; abstract specification: one effect per key.
3. `PixWorker`: ProcessPayout composed with the handlers of `Payouts`, once something runs it: transfers per payout under crashes.
4. `Attribution`: both jobs under redelivery: rewards per sale, composed with `Payouts` through the rewards it creates.
5. `RateLimit`: the bucket with several clocks; refill and rounding. `FraudScore`: scores against a reference definition.
6. `Erasure` composed with `Sessions` and `SignIn`: who can sign in after an erasure.

## 8. What is not modelled, and why

* The public site, the pages for the platform's administrators and `/programas/[id]` show fixed data; the embeddable widget has no state; settings pages
  whose buttons only show a toast (among them the LGPD buttons of the partner's settings) send nothing.
* Searching, filters and sorting of lists, the fields of forms that only travel to the server, texts, formats and layout.
* The attribution, Pix and webhook workers and the retention sweep: code that nothing schedules, over stubs.
* Tracking links, updates of programs: one row written per request. `hold_days` enters `Payouts` as a constant because no endpoint
  changes it. Figures of the overview and of the audit screen: only when they are read is modelled.
* The rate limiter and the fraud scores: planned.
* Access tokens on the server: 15 minutes, never looked up; they outlive every revocation by that much, by design.
* Passwords, Pix key formats, HTTP and JSON: data and wording, no control.
* Amounts and notifications: a payout is the rewards it lists.
* A request that the browser gave up and that reaches the server later.
