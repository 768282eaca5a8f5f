# RENKOO: models, checks and proofs

RENKOO is a growth platform for websites: a NestJS backend over PostgreSQL
(`backend/`, about 145,000 lines of TypeScript) and a Next.js frontend. The
backend crawls websites, asks AI assistants about them on a schedule, sells
subscriptions, and derives scores, reports and proposed actions from what it
stored. This directory models the parts of the backend in which several things
happen at once, checks them with TLC and proves the main results with TLAPS.

## 1. Inventory

The deployment is one or more Node processes behind HTTP. A request handler runs
to its next `await` without interruption; between two awaits any other request,
in this process or another, may run. All shared state is in PostgreSQL; there is
no job queue and no timer inside the process. An external cron service calls the
three scheduler endpoints. Transactions are rare: most handlers read a row,
decide, and write it in a second statement. That is where the hazards are.

| Component | State it keeps | Operations | What is hard | What makes it correct |
|---|---|---|---|---|
| AI monitoring (`ai-visibility/ai-monitoring.service.ts`, `ai-monitoring.ts`, `ai-monitoring-ops.ts`) | `AiMonitorSchedule`, `AiMonitorRun`, `AiVisibilityCheck` (unique key per unit of work), `UsageCounter` | ticks `due`, `execute-next`, `recover`; Run now; cancel; schedule updates; execution of a run's units with retries | overlapping ticks, two workers, crashes between two writes, retries, stale recovery, a limit reached in the middle | one run per schedule and window; one executor; each observation charged at most once; the report agrees with the rows; every run comes to rest |
| Website crawl (`crawl/crawl.service.ts`) | `Crawl`, `CrawlPage`, `CrawlIssue`; in memory: queue, discovered, processed, counters | `crawlWebsite`: launch, sitemap, worker pool, completion | a pool over a shared queue, a cap, a deadline, pages that fail or hang, a browser that dies | the cap holds; COMPLETED means exhausted; FAILED has a cause; the pool ends |
| Razorpay billing (`billing/razorpay.service.ts`, `billing.service.ts`, `billing-state.ts`) | `Subscription` (one row per workspace), `Payment`, `BillingEvent` | checkout, verification, sync, cancel, reactivate, plan change, refund; webhook | events late, repeated and out of order, racing with the user's requests | an event applies once; ACTIVE means paid; a live subscription stays live; one checkout at a time |
| Stripe, trials, usage (`billing/stripe.service.ts`, `billing.service.ts`) | the same rows | Stripe webhook, `createTrial`, `checkUsage`, `consumeUsage` | the same | the same |
| Actions (`actions/*`) | `Action`; proposals, decisions and an execution log in its metadata document | create (behind a monthly allowance), convert a recommendation, set a status, delete; propose, approve, reject, execute | the whole document is read and written back; count then insert; look then insert; two statements for one status | a person approves what was shown; nothing is executed that nobody approved, nor twice; the allowance and the one action per recommendation are exceeded at most by the requests that race |
| Agents (`agents/*`) | `AgentRun` with proposed and executed actions and an approval status | `runAgent`, `approveAndExecute` | side effects one by one, the mark at the end, two executions of one run | an executed run carried out one approved selection |
| Alerts (`monitoring/*`) | `MonitoringAlert`, unique on key and active flag | raise, refresh, resolve the stale ones after a crawl; acknowledge, resolve, dismiss by users | two detections at once, a unique key that also holds inactive rows, a user in between | one open alert per key, with evidence; a detection nobody disturbed leaves what its crawl says |
| Accounts (`auth/*`) | `User`, `AuthToken` | ask for a link, verify, reset, change the password | delete then create; read, hash, then write | a retired link is dead; one link of a kind is active and takes effect once, unless requests overlap |
| Team (`team/*`, registration) | `OrganizationInvite`, `OrganizationMember`, `User` | invite, accept, register (with an invitation), change role, remove | two counts, a check and an insert; read then transaction | seats are exceeded, and a person readmitted, only by a request that another one overlapped |
| Public snapshot (`snapshot/*`) | in memory: cache, builds in flight, limiters, monthly budget | `runSnapshot`, `readCached`, `buildFresh` | shared builds, slow and late providers, entries that expire, a month that ends | one build per domain; budget kept; answers fresh and built; every request ends |
| Keywords, content, growth plan, recommendations, backlinks, competitors, AEO, GEO, local SEO, revenue, ROI, proof, reports, leads, dashboard, websites, Google, integrations | tables of their own | reads of providers, scoring, create/read/update/delete | little: pure functions over rows | agreement with their definitions |
| Frontend, email, health, infrastructure | - | - | - | - |

Interactions: a tick of the scheduler creates and executes monitoring runs; a
run's execution charges `UsageCounter` through billing; starting a crawl or
creating an action asks billing for an allowance; the end of a crawl feeds the
audit, the alerts and the recommendations; a recommendation or an agent's
proposal becomes an action; the subscription's state decides every allowance.
Providers (AI services, Razorpay, the browser) are called and may fail, answer
late or never.

`PROJECT.json` lists every component with its status, and every hazard with the
line where it bites and the property that covers it, or why none does.

## 2. Plan

Done, in this order:

1. `ChargeLedger` (abstract) and `AiMonitoring`, which implements it; runs and
   proofs. It is the only subsystem with a scheduler, recovery and money in it.
2. `SiteCrawl`, the worker pool.
3. `RazorpayBilling`, the webhook and the requests racing with it, and the proofs
   of its type correctness and three safety invariants.
4. The work inside a workspace: `ActionProposals`, `GrowthActions` (actions and
   agents), `WebsiteAlerts`, `TeamSeats`, run together with the subscription.
5. What faces the visitor: `AccountTokens` and `PublicSnapshot`, run together.
6. Proofs for `SiteCrawl`, `AccountTokens` and `ActionProposals`.
7. Proofs for `GrowthActions`, `WebsiteAlerts`, `TeamSeats` and `PublicSnapshot`, for
   the two modules that put them together, and for the books of a monitoring run. With
   them every safety property of a passing run has a theorem.

Next:

8. An abstract specification of `RazorpayBilling`: an entitlement that is granted
   only after a payment; the refinement follows from the invariant already proved.
9. Plan changes, refunds and the Stripe webhook in `RazorpayBilling`, once the sizes
   allow; the allowance of a crawl and the charge after it.

Bounds are two actors of each kind wherever two race, one fault of each kind, two
windows or events; theorems are for every value of the constants.

## 3. Modules

| Module | Models | Run through |
|---|---|---|
| `ChargeLedger` | the abstract promise about money: observe, then charge once, within the limit | `AiMonitoring` |
| `AiMonitoring` | the monitoring loop | `MCAiMonitoring` |
| `AiMonitoring_proofs` | the theorems about it | TLAPS |
| `SiteCrawl` | one crawl | `MCSiteCrawl` |
| `SiteCrawl_proofs` | the theorems about it | TLAPS |
| `RazorpayBilling` | one workspace's subscription | `MCWorkspaceWork`, `MCRazorpayBilling` |
| `RazorpayBilling_proofs` | the theorems about it | TLAPS |
| `ActionProposals` | the governed execution of one action | `MCWorkspaceWork` |
| `ActionProposals_proofs` | the theorems about it | TLAPS |
| `GrowthActions` | actions, recommendations and agent runs of one website | `MCWorkspaceWork` |
| `GrowthActions_proofs` | the theorems about it | TLAPS |
| `WebsiteAlerts` | technical SEO alerts of one website | `MCWorkspaceWork` |
| `TeamSeats` | the people of one workspace | `MCWorkspaceWork` |
| `Workspace_proofs` | the theorems about the alerts, the team and `MCWorkspaceWork` | TLAPS |
| `AccountTokens` | the email links of one account | `MCFrontDoor` |
| `AccountTokens_proofs` | the theorems about it | TLAPS |
| `PublicSnapshot` | one process of the public snapshot | `MCFrontDoor` |
| `FrontDoor_proofs` | the theorems about it and about `MCFrontDoor` | TLAPS |

The `MC` modules hold only concrete constants, symmetry sets, a choice of what runs
together for `MCAiMonitoring` and, for billing, a second initial state. `MCWorkspaceWork` and `MCFrontDoor` check several modules in
one run. Their parts share no row in the code, so they are put side by side: an
initial choice, `focus`, says which part moves in a behaviour, and the reachable
states are the sum of those of the parts instead of their product. Nothing is lost
by it, because a property of one part is untouched by the steps of another; and nothing
is gained, since a behaviour of the whole is one of each part (`WorkspaceImplementsParts`
and `FrontDoorImplementsParts`, proved; the subscription is not in the first, because its
part may also start from a paid workspace). What does connect them is inside a module: actions, recommendations and agents in
`GrowthActions`; team, registration and billing's seats in `TeamSeats`. Operators whose comment begins with `Fault:` are not part of
any `Next`: each is a plausible bug of the definition that follows it, and shows
that a property would notice it.

### 3.1 AiMonitoring

State: `schedules`, `runs`, `completed` and `failed` (the check rows, as pairs of
idempotency key and run), `used` (the counter) and `charged` (the keys behind it);
per tick the due schedules it still holds; per worker its step, its run, the
stages of its units and its local counts (`tally`).

- Ticks: `TickScan`, `TickDeactivate`, `TickCreate`, `TickAdvance` are the four
  round trips of `claimDueRuns`; the unique index on schedule and window refuses
  the second creation, and the schedule is moved on in the `finally` block. Ticks
  overlap: each has its own list of due schedules.
- Workers: `PickNext` and `ClaimRun` are the read and the conditional update of
  `executeNextRun`; `RequestRun` and `StartManual` are `requestRun`, which updates
  without a condition. `CancelOrphan`, `LoadScope`, `StartUnits`, the unit steps
  (`BeginUnit`, `RecordSuccess`, `RecordFailure`, `ChargeUnit`, ...), the retry
  rounds and `Decide`/`WriteResult` are the execution. `Concurrency` units or fewer (the
  last of a batch) are in flight together, each with steps of its own.
- Recovery: `RecoverScan` reads the RUNNING runs whose start and heartbeat are
  older than the stale timeout, `RecoverRun` fails one of them. Time is a flag:
  a run is `fresh` until `GoSilent`, which a live worker prevents as long as it
  beats (`SlowWorkers = FALSE`).
- Faults: `Crash` loses a worker, `CrashTick` a tick, between any two steps.

Abstractions: one website and one cadence, any of the schedules exist at first and none is
created later; a window is a number (`AdvanceWindow`);
the stamp a manual run adds to its window (`Date.now()`) is taken to be unique;
database errors other than a crash and the unique index are left out; a month is
longer than the windows of an instance; the limit of one batch of a tick is left
out (every order of the due schedules is explored); unconfigured surfaces make no
units; deleting the website, `detectAndBridge` and pruning of responses are not
modelled.

### 3.2 SiteCrawl

State: the row's `status`; `queue`, `discovered`, `processed`, `saved`, the
counters and flags of the pool under the code's names; each worker's step and URL;
the rows written. `Launch` or `LaunchFails`, `PrepareContext` or `ContextFails` and
`LoadSitemap` come before the pool, whose workers are `idle` until then. `Admit` is the cap, `Dispatch` takes a URL, `FetchPage`,
`SavePage`, `PageFails`, `PageHangs`, `BrowserLost` are the stages of a page,
`PageDone` and `Abort` its end, `FailureRecorded` the handled failure;
`PoolResolves`/`PoolRejects` are `Promise.all`; then `WriteCompleted`,
`Summarise`, `WriteFailed`, `CloseBrowser`.

Abstractions: the queue is a set (every order of dispatch, the code's FIFO among
them); what is extracted from a page, and its audit, are data; URLs are normalised
and of the site. A worker that waits 25 ms and looks again stutters. A crash is a
behaviour that stops. The site of the instances has five pages, of which one is
reached by a redirect, so that the cap, the redirect and the duplicates all occur.

### 3.3 RazorpayBilling

State: the provider's subscriptions (`prov`), payments (`pay`) and event log
(`events`), all external; the `Subscription` row, `Payment` rows and `BillingEvent`
rows; the steps of each webhook handler and of each user request. A handler looks
the event up (`Deliver`), inserts it (`RecordEvent`; the unique index decides a
race), finds the workspace (`LookupOrg`), applies it (`ApplyStatus`, `CheckPending`
then `WritePending`, `UpsertPayment`, `CheckPaid` then `Activate`) and marks it
(`MarkProcessed`). Requests: `Checkout`, `CreateAtProvider`, `SaveCheckout`;
`VerifyCheckout`, `VerifyFetch`, `VerifyRecord`, `VerifyGrant`; `Sync`,
`SyncFetch`, `ApplyState`, `ApplyPending`; `Reactivate`, `Resume`; `Cancel`,
`CancelFetch` and the immediate or the scheduled cancellation.

The provider does what the code relies on: a subscription becomes active only
after its payment was captured, an id is paid only after the checkout was saved,
it resumes only paused subscriptions and refuses to cancel ended ones. Its events
are delivered in any order, any number of times, or never. `applied` counts the
handlers that passed the insert; it is not in the code. `recent` says that a
PENDING row was written within `REUSE_WINDOW_MS`. The branch of
`createSubscription` that returns an existing checkout cannot be reached (finding
4) and writes nothing, so it has no action.

Abstractions: one payment per subscription; periods, amounts, customers and
signatures are left out (a request here has a valid signature); refunds, plan
changes, trials and Stripe are not modelled. `COMPLETED` is left out with the
billing periods; it is written as `EXPIRED` is.

### 3.4 ActionProposals

State: `meta`, the proposals and the log in `Action.metadata`; `held`, the copy each
request works on; `shown`, the version and content a page asks its reviewer to confirm.
`ReadAction` is `action()`, `SaveMeta` is `saveMeta`, which writes the whole document
whatever was written meanwhile; `Propose`, `Approve`, `Reject`, `Execute` are the decisions
between them, `AnswerOnly` every early return and refusal. An approval is two requests, as
in the code: `AskConfirmation` answers with the content of a version, and `Approve`
reads the document again and approves whatever carries that number then. Two histories are
not in the code: `approvals` records what was shown and what was approved, `given` which
contents each version number was given to.

A reviewer is a page of the frontend (`app/execution/page.tsx`), which asks, shows and
then confirms. A confirmation sent without a question before it has shown nothing, and is
not an approval this module speaks of. An action begins without proposals: `createAction`
stores the metadata it is given, and no caller in the repository gives it any
proposals.

Abstractions: a change stands for the content with its element (whose class may be
blocked) and its evidence (which may not support it); no integration writes to a
site, so an execution is a record. `MaxLog` is 50 in the code and smaller here.

### 3.5 GrowthActions

State: the `Action` rows, the status of each recommendation, the `AgentRun` rows,
and the step of each request in `ActionRequests`; one user may have several under way, and
nothing in the code limits them. `PostAction` and `ConvertRec` begin a creation,
`SeekAction` looks for the recommendation's action, `CheckAllowance` counts,
`CreateRow` inserts. `ReadForStatus`, `WriteStatus` and `WriteRecStatus` are
`updateStatus`. `StartRun`, `FinishRun`, `FailRun` are an agent's run;
`BeginExecution`, `TakeProposal`, `GenerateReport`, `FinishExecution`, `StopExecution`
are `approveAndExecute`, which creates actions through the same steps.
`DatabaseError` may end a request between any two. `carried` remembers what the
execution that marked a run was asked; it is not in the code.

Abstractions: a run proposes one of the sequences in `ProposalLists`; titles, evidence
and the report itself are data; one calendar month.

### 3.6 WebsiteAlerts

State: the pages of each completed crawl, the `MonitoringAlert` rows, the step of
each detection and of each user's request. `LookForAlert`, `UpdateAlert`,
`InsertAlert`, `InsertRefused`, `LookAgain` are `createAlert` with its handler of the
unique key; `ListStale` and `ResolveStale` the end of a detection; `MayClose` the
unique key for rows that become inactive. `alone` and `closed` are histories.

Abstractions: an issue is a code with a severity; texts and counts of an alert are
left out, the crawl they come from is kept. Only the detections of one source.

### 3.7 TeamSeats

State: `accounts`, each person's `seat`, `invites`, and the step and readings of each
request. An invitation is `BeginInvite`, `CountMembers`, `CountInvites`,
`EnforceSeats`, `FindOpenInvite`, `CreateInvite`, `SendInvite`; an acceptance is
`ReadInvite`, `FindMembership`, `Accepted` or, with a registration, `Admit`; role changes
and removals are `BeginManage` and `ManageMember`. `overlapped` holds the requests
during which another one changed seats or invitations, `admitted` counts what each
invitation led to; both are histories.

### 3.8 AccountTokens

State: the `AuthToken` rows, whether the address is verified, and which token set the
password (0: its owner). `RetirePrior` and `IssueToken` are the two statements behind
every link that is sent; `ReadToken` and then `VerifyEmail` or `ResetPassword` those of
its use, with the hashing of the password between them; `updatePassword` is
`ComparePassword` and `UpdatePassword`. `uses` is a history, and so is `overlapped`, the
requests under way when another one created or used a link.

### 3.9 PublicSnapshot

State: the memory of the process, with a clock in ticks. A request runs without an
`await` up to the build it joins or starts, so each of its outcomes is one action
(`VisitorLimited`, `ServeCached`, `DomainLimited`, `JoinBuild`, `StartBuild`). A build
waits for the homepage (`BrandFound` or `BudgetExhausted`), then for all its calls
(`CallAnswers`, `CallFails`, `CallTimesOut`); the last outcome settles the promise,
which clears the entry in flight and answers everybody who shares it. `Dripping` are the
domains whose homepage sends headers and then a body that may never end. `EvictEntry` and
`EvictHits` are the limits of the maps, reached by other traffic.

Abstractions: a call that is timed out is a failed call (its own answer is dropped by
the code); what the answers say is data. A restart empties all of it and begins a new
behaviour; each process has its own.

## 4. Runs

| Run | Instance | Shows |
|---|---|---|
| `monitor_runs` | two schedules sharing a unit, or one of them and a manual request; two workers, one tick, two windows, two retry rounds, deadlines, limit 2, a crash | `UsageIsCharged`, `ScheduledRunExclusive`, `NoScheduledRestart`, `VerdictHonest`, `AccountsMatch`, `RecoverySparesLive`, and the refinement of the ledger (`ImplementsLedger`) |
| `monitor_live` | two overlapping ticks, one slow worker, a crash, a cancel, a switched or deleted schedule, no allowance left, with fairness | `OneRunPerWindow`; `RunsSettle`, `DueIsServed` |
| `crawl_pool` | two workers, five pages, cap four, one hanging page, with fairness, deadlock checked | cap, exhaustion, causes of failure, the sums of the answer, `CompletedIsFrozen`, `PoolDrains`, `DeadlineEnds` |
| `workspace_work` | two reviewers, three contents, a log of four entries; two requests, one recommendation, one careful agent with two lists of proposals, allowance 2; two detections, two issue codes, two crawls, one user; two requests, three people, two seats; two webhook handlers, one billing request, two subscriptions, two events, one failure | `ExecutedWasApproved`, `ExecutionsOnRecord`; `ExecutedAsApproved`, `OvershootBounded`, `SeedsBounded`; `QuietDetectionAgrees`, `OpenAlertIsEvident`; `SeatsExceededOnlyByOverlap`, `ReadmittedOnlyByOverlap`; `AppliedOnce`, `ActiveIsPaid`, `CapturedIsCaptured` |
| `front_door` | two requests, four tokens; two visitors, two domains (one with a homepage that may not end), two calls per build, a budget of a build and a half, with fairness | `RetiredLinkIsDead`, `LinksOnlyByOverlap`; `OneBuildPerDomain`, `BudgetKept`, `ServedIsFresh`, `EveryRequestAnswered` |
| `monitor_provider_failure`, `monitor_fresh_run`, `crawl_stall`, `billing_out_of_order`, `billing_duplicate_checkout` | the smallest that shows it | findings 1 to 5 below |
| `proposal_shown`, `link_races` | the smallest that shows it | findings 6 and 7 below |

Why the bounds are enough. Every race of this code is between two actors at one row,
and the instances have two of the kind that races: two workers at a run, two
executions of one unit, two handlers of one event, two crawl workers at the cap. One
crash at any point, then recovery and a second attempt, is the longest chain the
recovery code distinguishes; a second crash meets the same states. Two windows let a
schedule be due, late and due again. `monitor_runs` never has two schedules and a
manual request at once (the action constraint `TwoAtATime`); a manual run has keys of
its own, so what it shares with the others are the workers, the counter and recovery,
which are all there. In the subscription's part of `workspace_work` two events are two
deliveries in either order, one of which may be the activation; so that the later part
of a subscription's life is reached with two events, it starts from an empty workspace
or from a paid one (which is reachable from the empty one, its events forgotten). What
it does not have is two user requests at a time, so the refused insert of
`SaveCheckout` is never taken there. In `workspace_work` two requests of each kind
race, and the bounds on what is begun (three detections or growth requests, four team
requests, five documents; one click of a user on an alert) leave one or more to come
after the two that raced, which is what a repeated execution, a resolution after a
late detection or a readmission needs. In `front_door` one tick expires an entry, a
limiter's window and the month, so that a build may end on either side of each. For
every property of a passing run `PROJECT.json` names the fault of the code that breaks
it.

Deadlock is not checked where the system may rightly stop: in the bounded
instances all windows, runs, events or requests are used up. In
`crawl_pool` it is checked, because a pool that stops short of its end is a bug.

### Fairness

`monitor_live`: the external cron service goes on calling the three endpoints, so
the ticks, the workers and recovery are weakly fair; time passes; users, crashes
and deadlines owe nothing. A worker is weakly fair because Node resumes an
awaiting function when its call settles, and each provider call has a timeout.
`CancelWrite` is the second half of a request in progress.
`crawl_pool`: the code after each `await` runs when the awaited call settles;
every browser call has a timeout except the ones `PageHangs` stands for, after which
the worker has no step at all. That the deadline passes or the browser dies is never
assumed: `PoolDrains` asks the pool to end by itself, `DeadlineEnds` asks for the end
once the deadline has passed.
`front_door`: the timer of `withTimeout` fires, and the homepage of a domain outside
`Dripping` is read or given up; providers and visitors owe nothing. No strong fairness is used.

### Findings

1. `monitor_provider_failure`: a unit that fails in the pass and again in the
   retry inserts the same FAILED row twice, the unique key makes the second insert
   throw, and the run stays RUNNING until recovery. The runbook
   (`infrastructure/production-runbook.md:270`) says it ends PARTIAL.
2. `monitor_fresh_run`: Run now after a recovery has a window suffix of its own,
   so its keys are new and the observed units are charged again; the comment in
   `ai-monitoring.service.ts` (1886-1891) says they are skipped.
3. `crawl_stall`: the deadline is only read at the top of the worker loop; with
   every worker in `page.content()`, which has no timeout, the row stays RUNNING.
4. `billing_duplicate_checkout`: a PENDING status counts as FREE, so it neither
   blocks nor reuses; each retry creates another provider subscription.
5. `billing_out_of_order`: only PENDING events look before they write; a late
   paused, halted or cancelled event overwrites ACTIVE.
6. `proposal_shown`: "You are approving this exact change for this exact URL"
   (`action-execution.ts:115`), but the confirmed request reads the document again and
   approves by version number. A page that had read before the shown version was stored
   writes another content under its number, and that one is approved.
7. `link_races`: "Single active reset token per user" and the same of verification
   (`auth.service.ts:680`, `:506`), and "Tokens are single-use" (`prisma/auth.prisma:6`). The
   old links are deleted in one statement and the new one is created in another, and a token
   is looked at when it is read and marked by its id later. `OneActiveOrSingleUse` asks for
   one of the two only, so its counterexample refutes both: two links are active, and one
   has taken effect twice. `LinksOnlyByOverlap` is what remains of them.

Met while modelling, stated nowhere, and therefore not run: a manual run can be
executed twice (it is visible as QUEUED between its creation and its unconditional
start); the final update of a run overwrites a cancellation, and a late worker
overwrites the reason recovery gave; with `MAX_RETRIES = 2` a failure that
succeeded in the first round can be subtracted again; a run whose units were all
skipped ends FAILED; a webhook event whose application failed is refused when it
is delivered again; a status can be written to a row that has meanwhile taken up
another subscription.

Met in the later modules, and allowed by them:

- Proposals: one of two concurrent decisions is lost; an executed proposal can be approved again, and only the log stops
  a second execution, as long as the entry is in it.
- Actions: the allowance is counted before the insert, so requests that count together
  exceed it, although a comment (`actions.service.ts:129`) says that every caller respects
  it; what is checked is that nobody else does. Those without a website escape it; a proposal that is selected
  twice, or an execution that is repeated, creates its plain actions again; an
  execution that is stopped sets a run that another one executed back to PENDING; an
  action and its recommendation disagree when two status changes cross.
- Alerts: the unique key holds the inactive rows too, so closing a key a second time
  fails, and a detection then resolves none of its stale alerts; the detection of an
  older crawl resolves alerts of a newer one; a dismissed alert can be resolved.
- Team: an acceptance between the two counts is in neither; an invitation may expire
  while it is being accepted.
- Accounts: a password change that began before a reset overwrites it.
- Snapshot: the abort timer of a homepage is cleared with its headers, although
  `snapshot-guards.ts:12` speaks of a short timeout; a body that never ends keeps
  everybody who waits for that domain.

## 5. Proofs

`AiMonitoring_proofs` proves, for any sets of schedules, units, workers and ticks
and any bounds allowed by the assumptions `Sizes` and `Shapes`:

| Theorem | Statement |
|---|---|
| `TypeCorrect` | `Spec => []TypeOK` |
| `ChargedOncePerObservation` | `Spec => []UsageIsCharged` |
| `WindowClaimedOnce` | `Spec => []OneRunPerWindow` |
| `ScheduledRunHasOneExecutor` | `Spec => []ScheduledRunExclusive` |
| `TerminalIsFinal` | `Spec => NoScheduledRestart` |
| `LedgerRefinement` | `Spec => ImplementsLedger` |
| `VerdictIsHonest` | `Spec => []VerdictHonest` |
| `AccountsAreTrue` | `Spec => []AccountsMatch` |
| `RecoveryIsSafe` | `Spec => RecoverySparesLive` |

The first six rest on one inductive invariant `IInv`, the conjunction of `TypeOK` and three
groups. *Control*: a worker has units in hand only during its passes; rows exist up to
`created`, and every run in somebody's hands is one of them; the final write carries
a terminal status; a scheduled run that is executed is no longer QUEUED. Without it
a step could act on a run that was never created, or start one a second time.
*Runs*: `OneRunPerWindow` and `ScheduledRunExclusive`; the second is inductive only
because a scheduled run is claimed by a conditional update and never becomes
QUEUED again. *Money*: the charges in progress (units between their observation and the
increment of the counter) are of distinct keys, observed and not yet charged. `UsageIsCharged` alone is not
inductive: two workers about to charge the same key would break it, and what
excludes them is that only the worker whose insert succeeded reaches the stage.
The set of charged keys is finite, so that adding a new key adds one to its size.

There is one lemma per action and group; the step of `Next` collects them. The
refinement follows because a step either leaves `<<Observed, charged, used>>`
alone, or adds one observation, or charges one observed key.

The last three are about what a scheduled run says of itself, and rest on `BInv`, which
is `IInv` with the group `Books`. A worker's counts are variables of its own while the
rows are in a table that everybody writes, so the first part is that nobody else writes
the rows of this run: `OneHandler` extends `ScheduledRunExclusive` to a worker that has
aborted and not yet let go, and `Rows` says that a row carries the key of its run, that
two observations never have the same key and that a run nobody has claimed has no rows.
Then `Accounts`, which is `AccountsMatch` at every moment and not only before the last
update, is kept by every step of a unit. `VerdictHonest` needs to know why a failure
count of zero means that nothing is missing, although a unit that another run observed
is skipped, a deadline drops units, and each retry takes a failure back before it
tries again. `Honest` says it for each phase of a run: in the pass every unit left
without an observation has been counted as a failure; in a retry round `Balance` adds
the failure that the retry in hand has taken back; and in a second round the count may
become negative, but then nothing is missing any more. The last is so because of
`RetryDiscipline`: a unit that fails again finds the key of its first failure taken, which
aborts the run (finding 1) before anything can be counted twice. `SparesLive` carries
`RecoverySparesLive` from the reading of the stale runs to the update.

`RazorpayBilling_proofs` proves, for any sets of users, deliveries and plans and any
bounds, under `BillingAssumption`:

| Theorem | Statement |
|---|---|
| `TypeCorrectBilling` | `SpecBilling => []BillingTypeOK` |
| `EventAppliedOnce` | `SpecBilling => []AppliedOnce` |
| `ActiveOnlyIfPaid` | `SpecBilling => []ActiveIsPaid` |
| `CapturedRecordedTruly` | `SpecBilling => []CapturedIsCaptured` |

The inductive invariant says what everybody knows when he writes. The provider serves
only what is paid (`ServedIsPaid`, assumed of it through its actions) and a
captured payment stays captured, so an event that says active or captured is true
whenever it arrives (`EventsTrue`). A handler about to activate has seen such an
event (`HooksKnow`); a request that holds the status ACTIVE, or holds a payment as
captured, fetched it from the provider (`ReqsKnow`), and only between the fetch
and the write, so the answer is about the subscription the request still names.
`AppliedOnce` needs that an event without a row was applied by nobody. `RowNamed`
keeps a resumption from acting on a row without a subscription. Refunds would end
the stability of captured payments; they are not modelled.

`SiteCrawl_proofs` proves, for any finite set of workers, any site and any cap,
under the assumptions of `SiteCrawl`:

| Theorem | Statement |
|---|---|
| `TypeCorrectCrawl` | `Spec => []TypeOK` |
| `CapIsRespected` | `Spec => []CapRespected` |
| `CompletedMeansExhausted` | `Spec => []CompletedIsExhausted` |
| `FailureNeedsCause` | `Spec => []FailureHasCause` |
| `NumbersAddUp` | `Spec => []AnswerAddsUp` |
| `CompletedStaysFrozen` | `Spec => CompletedIsFrozen` |

`ActiveCounted` says that the code's `activeWorkers` is the number of workers with a
page in hand, whichever way a page ends; it is why a worker that reads 0 knows that
nobody will add to the queue. `QueueHoldsRest` says that, unless the pool was
stopped, the queue is what was discovered and not dispatched. `EndsAgree` is their
consequence for the pool: a worker returned only from a pool that is stopped, or
has an empty queue and nobody at work, and since nobody at work can become busy
again this stays so until all have returned. `Tallied` counts what was dispatched: a
page without a row and without a worker has been counted as failed. `Capped` and
`Causes` carry the remaining two; a crawl that fails before its pool starts has all its
workers idle.

`AccountTokens_proofs` proves, for any finite set of overlapping requests and any
bounds, under `TokensAssumption`:

| Theorem | Statement |
|---|---|
| `TypeCorrectTokens` | `SpecTokens => []TokensTypeOK` |
| `LinksNeedOverlap` | `SpecTokens => LinksOnlyByOverlap` |
| `RetiredLinksStayDead` | `SpecTokens => RetiredLinkIsDead` |

The properties are about steps, so the invariant is about what a request knows when it
takes one. `Undisturbed` says that, unless another request created or used a link
meanwhile, a request about to create a link has left no unused one of its kind, and one
about to use a link holds one that never took effect; every step that changes either
marks all the requests under way. `UsesFit` says that a link that can still be read has
not been used, which is what makes it true when the request begins.

`ActionProposals_proofs` proves, for any set of reviewers, any changes, any length of
the log and any number of writes, under `ProposalsAssumption`:

| Theorem | Statement |
|---|---|
| `TypeCorrectProposals` | `SpecProposals => []ProposalsTypeOK` |
| `ExecutionNeedsApproval` | `SpecProposals => []ExecutedWasApproved` |
| `ExecutionRecordedOnce` | `SpecProposals => []ExecutionsOnRecord` |

A request may write back a document that is long out of date, so the invariant has to
hold of every document in anybody's hands and not only of the one in the database:
`DocSane` says of a document that whatever it calls approved or executed was
confirmed, that no version is executed twice and that an uncut log has the records. It
survives because approvals are never withdrawn (`SaneGrows`), and because each
decision turns a sane document into a sane one (`DecisionSane`, `ProposalSane`), for
which `LogSane` follows the entries through the cut of the log. What was shown is followed
by a second invariant: every document, every question to a reviewer and every approval
names contents that were `given` to their number (`DocGiven`), so where a number has only
one content, what was executed is what was shown.

`GrowthActions_proofs` proves, for any requests, recommendations and runs, any lists of
proposals and any allowance, under `GrowthAssumption`:

| Theorem | Statement |
|---|---|
| `GrowthTyped` | `SpecGrowth => []GrowthTypeOK` |
| `ExecutionAsApproved` | `SpecGrowth => []ExecutedAsApproved` |
| `OvershootIsBounded` | `SpecGrowth => []OvershootBounded` |
| `SeedsAreBounded` | `SpecGrowth => []SeedsBounded` |

An execution marks its run at the end only, so what it has done must be known on the
way: `RequestsFit` says that its remaining proposals are the tail of its selection and
that each proposal before them has its row, in order (`CarriedOut`, which survives
because a deleted row stays a row, and a row keeps its recommendation and its run).
`RunsFit` is the same of a marked run. Both bounds count, with the rows, the requests
that have looked and not yet written: `OvershootCounted` those past the check of the
allowance, `SeedsCounted` those that found no action of the recommendation. A check passes
only while the rows are fewer than the allowance, and afterwards at most every request under
way is past the check, hence the `- 1` of the overshoot; a row that is written moves a
request from one summand to the other.

`Workspace_proofs` proves, for any crawls, issues, detections and users under
`AlertsAssumption`, for any people and any plan under `TeamAssumption`, and of the
composition:

| Theorem | Statement |
|---|---|
| `AlertsTyped` | `SpecAlerts => []AlertsTypeOK` |
| `QuietDetection` | `SpecAlerts => []QuietDetectionAgrees` |
| `OpenAlerts` | `SpecAlerts => []OpenAlertIsEvident` |
| `TeamTyped` | `SpecTeam => []TeamTypeOK` |
| `SeatsExceeded` | `SpecTeam => SeatsExceededOnlyByOverlap` |
| `Readmitted` | `SpecTeam => ReadmittedOnlyByOverlap` |
| `WorkspaceImplementsParts` | `MCSpec => SpecProposals /\ SpecGrowth /\ SpecAlerts /\ SpecTeam` |
| `WorkspaceTyped` | `MCSpec => []WorkspaceTypeOK` |

Alerts: `TableSound` is what the table promises whatever runs at once (one active row
for a key, with evidence), and `HandsSound` is what lets a late write keep it: a detection
writes codes of its own crawl only, to rows of those codes. `AloneSound` follows a detection
that nobody overlaps: every code of its crawl is active, or still ahead of it, or
was closed by a user meanwhile, and when it resolves, every row that should go is in
its list. `NobodyElse` is why the steps of other detections cannot disturb it.
Team: the properties are about steps, so the invariant is about what a request knows when
it takes one. `ReadStillTrue` says that, unless another request overlapped it, its counts
are those of the tables, a free seat is still free and its invitation still open; every
step that changes a seat or an invitation marks all requests under way as overlapped.
`OpenIsUnused` says that an open invitation has admitted nobody.

`FrontDoor_proofs` proves, for any visitors, domains and calls, any limits, windows and
lifetimes, under `SnapshotAssumption` and `TokensAssumption`:

| Theorem | Statement |
|---|---|
| `SnapshotTyped` | `SpecSnapshot => []SnapshotTypeOK` |
| `SharedBuild` | `SpecSnapshot => []OneBuildPerDomain` |
| `BudgetHolds` | `SpecSnapshot => []BudgetKept` |
| `FreshAnswers` | `SpecSnapshot => []ServedIsFresh` |
| `FrontDoorImplementsParts` | `MCSpec => SpecTokens /\ SpecSnapshot` |
| `FrontDoorTyped` | `MCSpec => []FrontDoorTypeOK` |

`TableAgrees` ties the table in memory to the builds: its entry for a domain is the one
build of it in progress, and who waits, waits for such a build. `MoneyCounted` ties
the counter, which only knows the current month, to all the months: it covers the
builds charged to its month, no build is charged to a later one, and the months before
were within the budget when they ended. `AnswersFresh` says that a build called answered
has an answer, that only such builds enter the cache, and when each visitor was served.

Only model-checked: the five liveness properties (`RunsSettle`, `DueIsServed`,
`PoolDrains`, `DeadlineEnds`, `EveryRequestAnswered`), since the prover does not reason
about fairness here, and the properties of the runs that expect a violation. Every
invariant and every action property of a passing run is stated by a theorem. Each
inductive invariant was first checked by TLC on an instance of its run. No module
declares a recursive operator: none was needed.

## 6. Not modelled

Text analysis and scoring (keywords, content, AEO, GEO, ROI, proof, reports and
most of the growth plan) are functions over rows, without a protocol; email,
OAuth, cryptography and parsing of uploads are input and output; the frontend only
sends requests, and the models accept those in any order. Of the subsystems that are
modelled, these parts are left: in billing Stripe, trials, plan changes, refunds and the
charge of a crawl after its end; in monitoring the deletion of a website; the other alert
detectors, which raise through the same `createAlert`; the measurement and verification of
an executed action; password hashing, sessions and profiles. The `.bak` and `backup` files of the repository are not part of the
program.
