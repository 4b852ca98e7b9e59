# A TLA+ model of the review service

This directory specifies and verifies the pull-request reviewer of this repository: the
backend (`src/apps/backend`) and the parts of the web client (`src/apps/web`) that have
state of their own. A webhook, a poller or a user asks for a review of a commit; the review
spends a slot of a monthly quota, runs as a queue job that may be retried, timed out,
cancelled or recovered, scans the change, asks a model, and posts its comments to GitHub;
what it found becomes the repository's memory. None of these steps is atomic with the next.
Four stores have to agree - PostgreSQL, the BullMQ queue in Redis, GitHub and the payment
provider - every process may stop between two calls, and the browser shows answers that
overtake each other.

The README says what the parts are (1), which module models which and what it leaves out (2),
what TLC checks on which instances (3), the fairness (4), what is proved for all instances
and how (5), where code and documentation disagree (6), and what is left (7). `PROJECT.json`
holds the same for tools: components, runs, hazards at their lines, and for every definition
the lines it stands for.

## 1. Inventory

| Part | Where | State it keeps | Operations | Modelled by |
|---|---|---|---|---|
| Producers | `webhook.controller.ts`, `repository.controller.ts`, `repo-poller.ts` | row `analysis_jobs` (unique per commit), poller cache | preflight, insert, reserve, deny, enqueue | `ReviewIntake` (which reviews), `ReviewLifecycle` (what becomes of one) |
| Quota | `quota.service.ts`, `review-quota.ts` | monthly ledger; receipt and refund marker of a row | `reserveReview`, `refundReviewQuota` | `ReviewLifecycle`: private reviews, Free plan |
| Review states | `job-state.ts` | `status` | `advanceReview`, `persistState`, `markReviewTerminal`, `wasSuperseded` | `ReviewLifecycle` |
| Analysis worker | `analysis.worker.ts` | the attempt: phase, deadline flag, error | the pipeline, the guard, the catch clause, the heartbeat | `ReviewLifecycle` (control), `AiReview` (what an attempt does with the model) |
| Queue | `config/queue.ts`, BullMQ | wait, active, delayed, failed; lock, attempts, stalls | pick up, promote, stall check, retry, drop | `ReviewLifecycle`, as configured and used (external) |
| Recovery | `review-recovery.ts` | what a sweep has read | `recoverReviewsOnce`, `settleFailedQueueJob`, `cancelDisconnectedReviews` | `ReviewLifecycle` |
| Cancel, disconnect | `job.controller.ts`, `repository.controller.ts` | `isActive` | cancel; disconnect, reconnect | `ReviewLifecycle`, `CommentDelivery` |
| Comment delivery | `comment-delivery.service.ts` | plan, one row per comment: state, claim, lease, attempts, payload | `prepareReviewDelivery`, `reconcileReviewDelivery`, `deliverReviewPlan`, two purges | `CommentDelivery` |
| GitHub client | `github.service.ts` | - | create and list comments, `classifyCommentError` | as what a caller can learn |
| Accounts, installations | `auth.*`, `installation.*` | one-time states, installations, sessions, revoked tokens | begin, callback, link, uninstall; sign in, verify, sign out | `ReviewIntake`, `AccountAccess` |
| Live updates | `config/socket.ts` | rooms, expirations | handshake, join, emit, disconnect | `AccountAccess` |
| Billing | `billing.service.ts`, `entitlement.service.ts` | account, subscription, checkout | checkout under a lock, events, entitlement | `Billing` |
| Feedback, history | `services/historical/*` | occurrences, feedback and its events, patterns, revisions | record, save, rebuild, sweep, clear | `FindingHistory` |
| Rules, workflow, adaptation | `rules.service.ts`, `services/feedback-loop/*` | rules, workflow revision, setting and consent | CRUD, derive, transition, set | `RepositoryRules` |
| Behavioral runs | `services/behavioral/*` | runs, request keys, deadlines | dispatch, claim, complete, expire | `BehavioralRuns` |
| Context cache | `repository-context-cache.service.ts`, `repository-import-index.service.ts` | encrypted files and imports by blob | index, read, sealed write, purge, sweep | `ContextCache` |
| Context of a review | `context-builder.ts`, `context-retrieval.service.ts`, `import-graph.service.ts` | - | index, walk, rank, read | `ContextSelection` |
| AI review | `ai.service.ts`, `services/ai/*` | artifact of the attempt | ask, validate, retry or end | `AiReview` |
| Findings and risk | `finding-dedup.service.ts`, `risk-engine.ts` | - | merge, weigh | `FindingRisk` |
| Scanners | `services/security/*` | - | read, scan, bound, report | `SecurityScan`, `OsvLookup`, `DiffReading` |
| Test drafts | `test-draft.controller.ts`, `TestDraftFlow.tsx` | drafts | create, edit, discard, list | `TestDrafts` |
| Analytics | `services/analytics/*` | facts | publish, snapshot, tables, retention | `HealthPage` |
| Web client | `src/apps/web` | what each page shows | load, poll, choose, save | `HistoryPage`, `HealthPage`, `RepositoryRules`, `TestDrafts`, `FindingHistory`, `BehavioralRuns` |
| Key vault, marketing pages | see section 7 | | | no |

### How the parts interact

```
webhook / poller / user --insert, reserve--> analysis_jobs row + monthly ledger <-- billing events
        |                                        ^    ^    ^    ^
        +--enqueue--> BullMQ --pick up--> worker-+    |    |    +-- cancel request
                        ^  |              |   |       |    +-- disconnect request --> cache, history
            lock, stall |  +---- getJob --|---|-- recovery sweep
                        |                 |   v
                        +---- ack --------|-- comment delivery <--> GitHub
                                          v
                scanners, context, model -> findings -> history -> patterns -> later reviews
                                                           ^
                                             browser tabs: feedback, rules, drafts
```

The row is shared by all of them. Each write is a transaction of its own, guarded by
the status (`persistState`), by the status that was read (`advanceReview`), by the status
and `updatedAt` that were read (the sweep), or by nothing (a denied producer). The queue
is told only after the row was written, and a worker that lost its lock is not told
that it has. Around the reviews, transactions that must not interleave take the lock of the
repository's row (history, rules, feedback) or of the account's (billing); what a browser
knows is protected by a revision or a snapshot number that its write names.

### Which behaviours are hard

`PROJECT.json` lists every hazard at its line. In short:

- two attempts of the same job running side by side after a lost lock; a TIMEOUT write and a
  transaction of the delivery plan that nobody waits for any more; a producer that dies between
  insert, charge and enqueue; a cancel that dies between the queue and the row; a sweep that
  decides on stale reads; a refund in another month than the charge;
- a POST whose answer is lost; a claim that expires while its request is on the wire; a
  disconnect and a reconnect under way;
- deliveries that GitHub repeats while the poller and a user ask for the same commit; a poller
  that fails between "queued" and "remembered"; an installation state that another account replays;
- subscription events late, twice, out of order; a checkout created inside a transaction that
  rolls back;
- feedback of two tabs on a finding whose snapshot was superseded; a rebuild that races both; a
  disconnect that deletes half;
- late writes of an aborted index into a cache that was emptied;
- answers in the browser that are overtaken by the user's next click;
- every scanner, page and probe that may fail, stop short or be missing, and must say so.

### What correct means

- *Quota*: the ledger is the number of charged and unreturned reviews, and stays within the
  limit; a review is charged at most once and gets its slot back exactly when it ends
  without completing; nothing uncharged runs.
- *Review*: ends once, whoever ends it; shows no earlier phase after a later one; every
  opened review ends and every queue job drains.
- *Comments*: each is posted at most once; a receipt never says more or less than what GitHub
  has; the summary waits for the inline comments; every delivery ends.
- *Intake*: one review for a head; no head is skipped; connections, rows and installations
  stay with the account that made them.
- *Access*: what starts after a sign-out was answered is refused; nothing is pushed to it.
- *Billing*: one subscription is bought once; access is what the newest event says.
- *Knowledge*: patterns count what there is; what a tab was told is kept; nobody overwrites
  what he did not see; what was deleted stays deleted.
- *Computation*: an outage is said; what is called complete is complete; merging hides nothing;
  lines are where they are said to be.
- *Pages*: what is shown belongs to what is chosen, now.

## 2. Modules

| Module | Role |
|---|---|
| `ReviewContract` | what is promised of one review and its slot: opens, is charged and ends at most once; the charge goes back in the step that stops it |
| `ReviewLifecycle` | producers, row, quota, queue, attempts, cancel, disconnect, sweep; refines `ReviewContract` |
| `CommentContract` | what is promised of one comment: accepted once, receipts true and final |
| `CommentDelivery` | rows, executions of delivery and of the user's check, the wire, GitHub, purges; refines `CommentContract` |
| `ReviewIntake` | webhook, manual request and poller over one GitHub repository; connections, installations, accounts |
| `AccountAccess` | signing in and out beside requests and sockets |
| `Billing` | checkouts, events, entitlement of one account |
| `FindingHistory` | occurrences, feedback, patterns, sweeps and disconnect of one repository |
| `RepositoryRules` | rules, workflow of findings, adaptation setting; the cards, panels and pages that show them |
| `BehavioralRuns` | runs of a reviewed commit in the owner's CI |
| `ContextCache` | the index of a review within its budget, its late writes, retention, disconnect |
| `ContextSelection` | which files a review shows the model: index, walk, rank, read, and what is said of every loss |
| `DiffReading` | the diff printed by GitHub, cut, filtered, numbered, scanned, anchored |
| `SecurityScan`, `OsvLookup` | the scanners with every failure and what the report says; the paged advisory lookup |
| `AiReview` | the attempts of a review at the model |
| `FindingRisk` | merge and verdict |
| `TestDrafts` | drafted tests in the cards of several tabs |
| `HistoryPage`, `HealthPage` | the review history and the engineering health page in the browser |
| `Knowledge` | `FindingHistory` with `RepositoryRules` |
| `Services` | `Billing` with `BehavioralRuns` and `ContextCache` |
| `Surroundings` | `ReviewIntake` with `AccountAccess`, `HistoryPage`, `HealthPage`, `TestDrafts` |
| `Inspection` | `ReviewIntake` with `DiffReading`, `ContextSelection`, `AiReview`, `SecurityScan`, `OsvLookup`, `FindingRisk` |
| `MCReviewLifecycle`, `MCReviewScenarios`, `MCCommentDelivery`, `MCDeliveryScenarios`, `MCKnowledge`, `MCServices`, `MCSurroundings` | small instances |
| `ReviewLifecycleSafety`, `CommentDeliverySafety`, `ReviewIntakeSafety`, `BillingSafety`, `KnowledgeSafety`, `ServicesSafety`, `SurroundingsSafety`, `InspectionSafety` | theorems |

The four composing modules put parts that share no state beside each other, each part an instance of its module, and state
the parts' properties once more for the whole: a part that takes no part in a scenario has `None` for its state. A
run and the proofs about it use the same composing module, so that a theorem is about the very definition the run checks.

A variable is a column, a Redis structure, something at GitHub or the provider, or the local
state of one process or page. An action is one transaction, one Redis command, one request,
or one decision between two of them: what is read and later acted on is two actions. Names
are those of the source where TLA+ allows it; `map` in `PROJECT.json` gives the lines.

### ReviewLifecycle and the code

| Model | Code |
|---|---|
| `Receive` ... `Enqueue` | the preflight (webhook only), `analysisJob.create`, `reserveReview`, the update of a denied review, `enqueueAnalysis` |
| `Pickup`, `Ack`, `Promote`, `LockLost`, `Reclaim`, `DropFailed` | BullMQ: lock, completion or failure, backoff, lock expiry, stall check, `removeOnFail` |
| `Entry` ... `Record` | the steps of the processor at which it reads or writes shared state; `AdvanceRead` and `AdvanceWrite` are the two halves of `advanceReview` |
| `CallFails`, `Catch...`, `Delay` | each branch of the catch clause, and a failure of its own write |
| `Deadline`, `GiveUp`, `LateTimeout`, `LatePlan` | the deadline timer, the `guard` race, and the writes that nobody awaits (`loose`) |
| `CancelRead`, `CancelRemove`, `CancelMark` | the three calls of the cancel handler |
| `Deactivate`, `ListDisconnected`, `CancelDisconnected` | disconnect and `cancelDisconnectedReviews` |
| `SweepRow`, `SweepLookup`, `SweepState`, `SweepStop` | the row, `getJob`, `getState`, `markReviewTerminal` with the row that was read; `fresh` is "status and updatedAt are still those" |
| `Age`, `Wear`, `NextMonth` | time, seen through the comparisons the code makes |

Abstractions, each of which keeps the control:

- All jobs are reviews of *one private repository of a Free account*, where a slot is at stake.
  Public and paid reviews have no limit and no receipt.
- The analysis between two phases is one step that goes on, fails for now, fails for good, or
  is refused by the model (`AiReview` is that step in detail). The checks before and after
  one call that the review is still wanted are one.
- Time is a set of predicates. `aged` and `worn` may become true at any moment - more
  often than in reality, where a heartbeat makes a young row - so a safety property holds
  whatever the grace period is.
- `MaxWaits` stands for the 24 hours of the delivery window.
- Left out: the legacy status RUNNING and rows with numeric queue ids, adoption of a queue job by the
  sweep (it needs a row without a receipt), batches of 100 rows, backoff times, deletion of old
  rows by retention.

### CommentDelivery and the code

| Model | Code |
|---|---|
| `Start`, `StartSettled`, `Check` | an attempt with a saved plan; the user's "check existing comments" |
| `ExpireClaims`, `List`, `Confirm`, `Checked` | `reconcileReviewDelivery`: claims that ran out become UNKNOWN, GitHub is listed, each match is a receipt |
| `Screen`, `Snapshot` | a moved head or a closed window omits what was not sent; rows and payloads are read once |
| `Claim`, `Recheck`, `Post`, `Arrives`, `Reply`, `NoReply`, `Answer` | the transactions of `send` with the request between them; a request arrives, later or never, whether or not its sender still listens |
| `SendStops`, `SendTooLate`, `SendUnproven` | the early exits of the loop |
| `InlineDone`, `AddSummary`, `WriteSummary`, `ComposeStops`, `SendSummary`, `SummaryDone`, `Complete` | the summary, and the end of the review |
| `Deactivate`, `CancelDisconnected`, `Purge`, `ExpirePayloads` | the disconnect request and the two purges |

Abstractions: a claim token is the number of the claim, which is as fresh as a UUID; the bytes
of comments, hashes and the upgrade of an older rendering are left out; `List` finds any
subset of the matching comments, so a listing that GitHub delays, or one of the two that fails,
is a smaller set; rows are sent in any order; `nextAttemptAt` and the head of the pull request
are free at each read. `overlapped` is a history variable, written by `Remember` beside every step: two attempts have been
under way at once.

### ReviewIntake

`Commit`, `CommitHeadless` are GitHub's; `Deliver` the webhook's handler up to its first write; without a connection,
`Adopt` reads the installation and `Register` makes the connection, for a delivery without a head too, which `Decline` then refuses; `CheckQuota`, `Refuse`, `Insert`, `Reserve`, `Enqueue`,
`Fail` the steps all three producers share; `PollStart` ... `Remember`, `Forget` the poller;
`RequestReview` the manual request; `Connect`, `Disconnect`, `StartInstall`, `CheckCallback`, `Link`,
`Confirmed`, `Installed`, `Uninstalled`, `RepositoryAdded`, `RepositoryRemoved` the owners and the App's events.
A connection joins its installation in three ways: at the `Link`, if the list that was read at GitHub has the repository
(`listed`), by `RepositoryAdded`, and by `Register`; of two deliveries that both found none, the unique index lets one make it (`Free`).
One repository at GitHub, private reviews, one poller; a review rests once queued, and
`Disconnect` is one step (its interleavings are `ReviewLifecycle`'s); the webhook's event of an
installation concerns one installation. Left out: settings, registration of webhooks, ETags, the
paging of lists, the case that a repository is linked between the list that the webhook of a
removal reads and the deactivation (`webhook.controller.ts:317-336`), which leaves its cached code.

### AccountAccess

`CheckSignature` verifies the token by the clock, `CheckRow` looks for a revocation: two steps, as
in the middleware. `Handshake`, `Admit`, `Join` are the socket's; an update to a socket is a use
of its token like a request. `SignedOutStaysOut` excepts one moment: the token ends by the clock
between the two steps of a use and its revocation is deleted, so that the last use goes through.

### Billing

`List`, `ReadPending`, `GetCheckout`, `CreateCheckout`, `Store` are a request's steps under the lock of the
account, `TimeOut` and `Fail` what takes the lock from it while the provider goes on; `Deliver` is the whole event handler with `Newer`
and `Best`. `unpaid` and `incomplete_expired` are final as `canceled` is, and closed checkouts never open again
(the provider's rules, external). Of two events of one time that are no revocations the first is kept.

### FindingHistory

`Complete` is `recordJobFindings` in the completing transaction; `Load`, `Submit`, `Precheck`, `UpdateFeedback`, `Receive`, `Lose` a
tab and its save; `Ask`, `ReaderRebuilds` the readers; `SweepList`, `SweepDelete`, `SweepRebuild`, `Expire` the sweep; `Deactivate`, `ClearRepositoryHistory`,
`LeavingFails`, `Reconnect` the disconnect. A rebuild is one action because it runs under the lock. Revision counters
are the flag `dirty`; a disposition stands for reason and note; `maxJobs` (200) of an aggregation is not modelled.

### RepositoryRules

A write is one action under the lock, its sending and its answer are actions of their own. A page
keeps its lists under way with their sequence numbers and its epoch. The policy computed from
feedback is left out, as is the text of rules; `DiffReading!EvaluateRules` evaluates one.

### BehavioralRuns

`Look`, `Reserve`, `Dispatch`, `Record` are the request, `AskClaim`, `Claim`, `AskFinish`, `Finish` the CI's calls, `Deadline`, `Sweep`, `Disconnect` the
others. The transaction of a result is one step. Left out: the text of reasons (an unconditional DISPATCH_UNCONFIRMED
may overwrite the reason of a finished run), the tick of consent, the delete after seven days. The same tab that runs again
without an edit is given the prior run: its key is that of the content.

### ContextCache, ContextSelection

`ContextCache` is the index with its reservations of bytes and downloads, the reads, and the sealed
writes that go on when the review is aborted; each index is of a commit's files (`Listings`); one index and one disconnect at a time; writes of
identical content are merged. A sweep may delete a row that was rewritten after it was selected, as in the code. `ContextSelection`
walks the import graph (`WalkBfs`), ranks (`RankCandidates`) and reads, and each loss adds its reason.

### DiffReading, SecurityScan, OsvLookup, FindingRisk, AiReview

A line of `DiffReading` carries where it really is (`Emit`); the program does not see that and counts (`Number`).
Sections of manifests are "entry within a section" for `package.json` and lock files alike; RE2 and its deadline are "stops after
n lines"; lines of hunk headers that are blanked, and blank lines, are left out. `SecurityScan`: bounding is
idempotent and signalled by the worker's cut; caps of single rules are left out. `OsvLookup`: repeated references within a
page are left out; severities are rated or not; `batch` holds the packages of the answered batch, which are read one per step
while nothing else of the lookup happens (the code reads them in one synchronous loop). `Excused` in `SecurityScan` names what a scan may miss and still be called full. `FindingRisk`: rules that fail and behaviours without a gap are left out.
`AiReview`: `asked` is a history variable about the last attempt that asked the model, `Ended` writes how that one ended;
`ParseConfigYaml` and `FetchConfig` yield the policy or none, `Answers` is every shape of answer the SDK hands
over, `Met` what the validators accept; delivery of the result is `Complete` (`CommentDelivery` is that step in detail).

### TestDrafts, HistoryPage, HealthPage

A card or page is its state and its calls under way; every answer comes late, fails or is overtaken. React's rule for
effects is part of each step (`Render`). Left out: base branch and download of drafts, `createPr` (always refused); the list of repositories in
the pages' selects, sign-in; on the health page the period and the buckets of the trend (chosen like the repository, narrowing nothing), reviews
that share a pull request, metrics, trend and comparison.

## 3. Runs

Deadlock checking is off in all of them: the system really stops when its reviews have ended, its plan is
delivered, its lookup has returned. A run asks several questions of one module family: a *scenario*, chosen
once, says who takes part, and the others rest. The behaviours of a scenario are behaviours of the module's `Spec`; no
scenario relaxes anything.

| Run | Scenarios | What holds |
|---|---|---|
| `lifecycle_users` | `zombie` (two workers on one job after a lost lock), `cancel`, `disconnect`, `quota` (two reviews, one slot, a change of month, a cancel), `pair` (two reviews, a disconnect) | types, ledger, limit, only charged work, charge follows outcome, phases forward, `ReviewContract` |
| `lifecycle_live` | `free`: one review, one worker, one sweep, one fault | every review ends, every job drains |
| `delivery_sending` | `overlap` (two executions), `batch` (two comments), `crash`, `check` (the user's check), `disconnect` | posted once, sendable is unsent, the summary last (while attempts have not overlapped), `CommentContract` |
| `delivery_live` | one comment and the summary, one execution, one fault, disconnects | every delivery ends |
| `knowledge` | `feedback`, `readers`, `disconnect`, `reviews` of the history; `workflow`, `panels`, `derive`, `pages`, `repositories`, `modes` of the rules | patterns current, saves recorded, no blind write, no resurrection, rules sound, pages truthful, consent fresh; the history of a disconnected repository is erased in the end |
| `services` | `checkout`, `plans`, `events`, `second` of billing; `tabs`, `lost`, `again`, `settings` of behavioral runs; `budget`, `disconnect`, `reconnect`, `retention` of the cache | no double purchase, access as the events say; one result per request; no code after a disconnect, budget kept |
| `surroundings` | `webhook`, `manual`, `app`, `none`, `poller`, `owners`, `both` of the intake; `session`; `ask`; `merge`, `gap`; `scan`; `osv`; `browse`, `watch`; `tabs`, `card`; `walk`, `index`; `reading`; `health` | one review for a head, no gap, links and accounts; signed out stays out; paid answers count; merging hides nothing; outages are said; complete is whole; shown is chosen; discarded stays; selection and reading sound |
| `terminal_is_final`, `startup_protected`, `unconfirmed_stays`, `draft_grounded`, `introduced_checked` | the smallest instance that shows it | *violated*: the statements of section 6 |

### Why the bounds are enough

- *One review* for everything but the quota: rows, receipts, queue jobs and delivery plans of
  different reviews share only the ledger, the connection of the repository, and worker slots. `quota` and `pair` have
  the two reviews that compete for it, and the theorems hold for any number.
- *Two attempts* of a job instead of three: one retried and one final attempt exist. One stall, as configured by
  BullMQ's default, and one fault: a lost lock *or* a crash *or* one failed write. An attempt that lost its job needs
  one fault, and the second attempt then meets everything the first still writes. To keep the
  instance small, no attempt is retried in `cancel`, none fails in `quota` and `pair`, and months change only in `quota`; `zombie` has all of it.
- *One slot* (`Limit` 1 instead of 50) so that the second review meets the limit.
- *One or two inline comments*: one beside the summary for everything but the order of the
  summary, which needs two, so that one is settled and one pending.
- *Two claims* instead of three rate-limit answers: one that is retried and one that is final.
- The deadline, the heartbeat, requests that arrive late, leases that run out and errors of the
  analysis are *not* counted as faults: they may happen any number of times.
- *Two of whatever races*: tabs, pages, requests, checkouts, handlers, accounts. Three heads of a branch (the baseline,
  the one remembered and the one that comes under way), two rows, so that a repository is connected again; three reviews.
- *Events of billing*: up to four of two subscriptions with three times, so that each order, a repetition and two of
  one time occur.
- *Limits* of the code are set to the smallest number that is met and exceeded: `Concurrency`, `MaxDownloads`, `MaxBytes`,
  `MaxFiles`, `MaxHops`, `MaxBatch`, `PageSize`, `MaxBody` are 1 or 2.
- *Three attempts* at the model (`MaxAttempts`, as the queue allows): one that asked, one that failed before it asked again, one more.
- *Faults*: one, two where the second meets the handling of the first (`lost`).
- `Asking`, `Merging`, `Selecting`, `Healthy`, `Watching`, `Carding` and `Reading` in `MCSurroundings` bound what is odd at
  a time: in `ask` one thing about an answer, in `index` one reason for a loss (in `walk` every graph of four files, with
  nothing lost), in `reading` two files, two hunks and one mark, in `health` one repository and the last review stay.

## 4. Fairness

Liveness is claimed under these assumptions and no others:

- *A running process goes on* (`WF` of `Work`, `SweepGoesOn`, `Proceed`): each call returns or
  fails, because the worker races them against its deadline and the clients have timeouts.
- *The queue hands out its jobs* (`SF` of `Pickup`, `WF` of `Promote`, `Reclaim`): BullMQ workers poll
  and the stall check is periodic. Strong, because a job may move between waiting and being processed by
  others meanwhile.
- *The sweep visits every open row* (`SF` of `SweepRow`): it runs every minute and pages
  through all rows in progress; strong, because a review may move in and out of the statuses that a
  single visit finds it in, and the routine is busy with other rows in between.
- *The sweep of the history runs* (`WF` of `SweepList`, `SweepDelete`): a timer calls it, and it retries.
- *Time passes* (`Age`, `Wear`, `LeaseOver`, `CloseWindow`).

Nobody has to produce, cancel, connect, crash, save or fail. A crash or failing write
is bounded by `MaxFaults`: liveness says what follows the last of them. `lifecycle_live` uses the scenario `free`, which restricts nothing,
because fairness of an action that a scenario forbids would be a different assumption.

## 5. What the proofs show

Every theorem holds for any number of jobs, workers, tabs, requests, ... and for any
bound; the runs above check the same statements on small instances. The assumptions are few and named: `JobsAssumption` and
`BoundsAssumption` (finitely many jobs; the months and the limit are natural numbers), `LimitAssumption` (at
least one attempt), `IntakeAssumption`, `BillingAssumption`, `HistoryAssumption` (the constant that stands for "nothing" is
none of the values). The parts that are instances have their assumptions as operators, which are hypotheses of their theorems:
`RulesConstants` (the findings are of one of the repositories, the limit is a number, no finding is "nothing"), `RunsConstants`,
`CacheConstants` (finitely many blobs, sizes and limits are numbers), `DraftConstants`, `AskConstants` (`None` is no scenario, no answer), `RiskConstants` (lines and
weights are numbers), `LookupConstants` (the packages are a list, finitely many advisories, limits are numbers), `ContextConstants` (finitely many files, numbered by path; limits are numbers), `DiffConstants` (the kinds of files are files of the change; limits and the beginnings of hunks are numbers). TLC evaluates each of them in the runs
(`InstanceFits`, `InstancesFit`). `NoneIsNothing`, the hypothesis of the health page, says that `None` is no snapshot and no table; it quantifies over all values, so TLC
cannot evaluate it, but a model value is equal to nothing else.

Each argument is an inductive invariant, which TLC checked before it was proved, and one
lemma per action.

**`ReviewLifecycleSafety`** - `TypeCorrect` types 25 variables, among them
every program counter with the data that its steps read. `Linked` is the inductive invariant of the rest: where the
producer is (`Producing`), whether a receipt exists, whether it is charged, what the status says and whether a job
is queued agree with each other, and every phase write that is pending - of whatever attempt, alive or not -
goes forward from the row that it read. It is needed because the properties
alone say nothing of the steps under way: a write that was decided on earlier is harmless only because of what the
row may have become in the meantime. From it follow:

- `ChargeFollows`, `WorkIsCharged`: a slot is returned exactly when the review ends without completing;
- `PhasesGoForward`: no step shows an earlier phase after a later one;
- `RowKeepsContract`: the refinement of `ReviewContract`; every action maps to a step of the contract or a stutter (`...Effect` lemmas);
- `LedgerHolds`, `LimitHolds`: the ledger of a month is the *cardinality* of the set of its charged reviews, which a step changes by one review at most.

**`CommentDeliverySafety`** - `Safe == Sole /\ Held /\ Outstanding /\ Receipts /\ Matches`. A claim's token is
a capability: one row holds it (`Sole`, `Held`), a request that is under way has a row that is marked as outstanding
or was taken over as UNKNOWN (`Outstanding`), and what a listing may still find is what was posted
(`Matches`). So `NeverPostedTwice`, `SendableIsUnsent`, and the refinement `ReceiptsKeepContract`.

**`ReviewIntakeSafety`** - `HeadReviewedOnce` rests on the unique index and on what a declined row allows (`Unique`,
`Declines`); `InstallerLinks` on the chain from the one-time state to the callback that consumed it (`Made`);
`AccountsStayApart` on the owner being the maker (`Made`), on
the maker never changing and no installation coming back (`Settled`), and so on a delivery that read the owner still holding it when it makes the
connection, if the installation is there (`Registering`). `NoGap` relates the head
the poller remembers to the rows that exist, over every failure between its writes (`Polled`, `Quiet`); it speaks of the moments when no
delivery is under way, as the property does.

**`BillingSafety`** - `BuysOnce`: only the pending checkout of the account may still be alive, and only the holder of
the lock replaces it after it saw it over (`Locked`, `OneLive`, `Replacing`). `AccessFollows`: each row is the newest event processed, and what
is shown is the best of the rows (`Newest`, `Shown`).

**`KnowledgeSafety`** - `PatternsFollow`: what is counted and what was recorded agree unless the
repository is marked dirty (`Recorded`, `Counted`, `Whole`); `SavesKept`, `SavesSeen`, `GoneForGood`: revisions are the
lengths of a trail and a snapshot's number is never reused (`Numbered`, `Seen`, `Logged`, `Told`).
Of the decisions, with `DecisionsInv`: `RulesStaySound`: a finding is never current again, and while it is, the audit event of
its rule is kept (`Born`); the limit is a cardinality. `NothingIsBlind`, `ConsentStaysFresh`: what a card shows was so
at the revision it shows, and it waits for nothing else (`CardsSee`, `Asked`); equal revisions then mean equal status.
`PagesAreTruthful`: every list, form and request knows the repository it is from (`Known`).

**`ServicesSafety`** - `OneResult`: a key is of one run (`Keyed`) and one run is open at a time (`Single`);
only the call that reserved a run may dispatch it (`Calling`), a CI run works for a run there is (`Working`), an accepted result
closed its run (`Settled`), and the report shows the last result and the last assertion (`Reported`).
`CodeIsGone`: a transaction that found the repository active holds the lock of its row (`Guarded`), so what the
disconnect emptied stays empty (`Leaving`). `BudgetHolds`: the *sum* over the blobs of what each download brought or may
still bring is within what the index has reserved (`Before`, `Spent`), and no blob of a complete index is without its
imports (`Whole`). `FoldSet` is reasoned about through the number of a set's elements, with lemmas that say what a sum
becomes when one term changes.

**`SurroundingsSafety`** - `NobodyReturns`, with `AccessInv`: a token that is being signed out has its row or has ended
(`RowsKept`), and a use that began after the answer uses such a token (`LateIsOut`).
`ChosenIsShown`, `ChosenIsHealth`, with `PageInv` and `HealthInv`: of the requests under way whose answers the page still listens to
each asks for what the page says (`Asking`, `HeardAsk`), there is one at most (`Single`), and where nothing
is shown one is on its way (`Awaited`). So an answer that is heard is the right one, whenever it comes.
`ThrownStaysThrown`, with `DraftsInv`: rows keep their scenario, and every card and call is of the scenario of its draft
(`CardFits`, `CallsFit`); it is an action property, that discarded rows stay so and cards show drafts of their own.

**`InspectionSafety`** - `PaidCounts`, with `AskInv`: what is known of how the attempt ended that asked last agrees with the place of the queue's job
(`EndKnown`, `BeforeOk`), and what was accepted is held until it is written (`AnswerHeld`).
`OutagesAreSaid`, with `ScanInv` and `LostInv`: each row agrees with the number of its findings and with what the scan lost (`RowOk`),
and each scanner loses only what it can (`MayLose`), so that one that is full lost nothing but what is `Excused`.
`MergesHideNothing`, with `RiskInv`: each finding handed in has one in the list that stands for it: of its kind, no later, as severe,
naming its engine (`StandsFor`), and standing for is transitive; it bears the name of the most trusted of its engines (`Trusted`), so that
the label hides a critical defect from report one only behind a secret (`TakenForSecret`); the list is ordered by a recursion, of which only what is cited is used.
`LookupsAreWhole`, with `LookupInv`: of a package that is complete so far, all that was told is found, and while there is more to tell it is
pending or in the batch (`SoFarWhole`).
`SelectionsAreSound`, with `SelectInv`: the queue of the walk is in the order of distance, nothing found is further than one step from its
head, and what left the queue has its neighbours found (`WalkOk`), so that an empty queue leaves nothing within reach (`WalkEnds`); and while
no reason is given, everything was listed, indexed, reached, ranked and read (`AllThere`, `Covered`, `Ranked`, `AllRead`). Paths and the first n of a
set are argued about by numbers alone (`AllNumbers`, `FirstAre`).
`ReadingsAreSound`, with `ReadInv`: each line of a diff but the head of a file fits to the one before it, by its kind, its file and its
number (`Fits`), which printing keeps (`FormedGrows`); what is cut or picked of a diff keeps that, because a picked line that is no head is picked with the
one before it (`PickIs`, `PartIs`). Of such lines the chunk of a line is its file (`ChunkIs`, `NameIs`), and the number counted from the last hunk is
the one that was printed (`NumberIs`), by induction on the lines after the hunk. So a finding is where it says, and a check
that passes had all of the lines (`FilteredIs`, `PassOk`).

### What failing proofs found

TLC had found no error in the models; attempts to prove found five things that were wrong in them or could not be reasoned about:

- `AiReview` recorded how an attempt ended that had never asked as the end of the one that did, and with two attempts no run noticed. `Ended` now leaves
  it alone, and `MaxAttempts` is 3.
- `SecurityScan` chose a status by a `CASE` whose arms overlap, of which TLC takes the first and TLA+ any; it is
  `IF ... ELSE IF` now, as in the code.
- `ContextCache` had one fixed list of files for every index; each index has the list of its commit now, and a cached blob may be of another.
- `ContextSelection` defined what is within n imports by a recursion on n, and sorted by `CHOOSE`; it speaks of paths of n steps now, and
  of any order in which the earlier comes first.
- `OsvLookup` and `HealthPage` computed with folds and with `@@` what is now steps and records: reading a batch is one step per package; `DiffReading` picks
  the k-th line by the number of lines before it, not as the greatest of the first k.

### Only model-checked

- *Liveness*: `FulfilsContract`, `QueueDrains`, `DeliveryEnds`, `ErasedAfterDisconnect`. Fairness and ENABLED are
  beyond the prover.
- What a recursive definition of the library computes (`SelectSeq` in the bound of `PrintLine`, the sort of merged findings) is not reasoned about; the
  theorems hold whatever it is, or use what the definition says for one step. Where an argument needs only numbers and finite sets - the sums of
  `BudgetHolds`, the least element in `MergesHideNothing`, the paths in `SelectionsAreSound`, the numbers of lines in `ReadingsAreSound` - the
  induction is by `WFMin` on the numbers, and proved.
- `Spec` of a composing module is that of its first part; a theorem about another part has that part's `Spec` as
  its hypothesis.
## 6. Where code and documentation disagree

Five statements of the repository do not hold of the code; each has a run that ends in a
counterexample. None of them costs a slot or posts a comment twice - the properties that
say so hold in the passing runs.

- `TerminalIsFinal`: "States a review cannot leave" (`job-state.ts:40`). A producer whose
  reservation was denied writes SKIPPED without looking at the status
  (`webhook.controller.ts:241`, likewise in the poller and the manual request), so a review
  cancelled in between becomes SKIPPED.
- `StartupProtected`: the sweep's `processedOn` "protects that startup window"
  (`review-recovery.ts:75`). It comes from `getJob`, before `getState`: an attempt that is picked up
  between the two is timed out though it has just begun.
- `UnconfirmedStays`: claims that expire "become unconfirmed rather than sendable"
  (`docs/comment-delivery.md:86`). A late rate-limit answer makes an UNKNOWN row READY
  again (`comment-delivery.service.ts:240`). GitHub did refuse that request, so sending again is safe.
- `GroundedInReview`: a draft's ref is the SHA "whose contents the review saw". It is the pull request's head when the
  draft is asked for (`test-draft.controller.ts:164`).
- `IntroducedIsChecked`: the dependency probe "checks every package that was actually introduced" (`deps.ts:20`). An
  entry added in the midst of a section whose head no hunk shows is not looked at (`deps.ts:103`).

Met while reading, outside of what a run shows:

- Report one blocks on "any CRITICAL deterministic security finding" (`risk-engine.ts:15-17`), also "when the secret policy is
  disabled" (`risk-engine.test.ts:145`). It does not always. A merge names two reports of one defect after the more trusted engine, a
  secret before SAST and dependencies (`finding-dedup.service.ts:162-170`), and `assessRisk` asks that name alone (`risk-engine.ts:88-90`):
  with `block_on_critical_secret` off, a critical finding of SAST that was merged with the report of a secret does not block.
  Report two asks every source (`risk-engine.ts:229`) and blocks. It takes texts that are alike: those of the built-in rules are not;
  one of Semgrep, or of the model between them, may be. `MergeHidesNothing` excepts exactly this case (`TakenForSecret`), and without
  the exception TLC finds it.
- "PASS - the probe ran with full coverage and found nothing" (`probe-types.ts:15`), and "an unavailable scanner must never read
  as a clean, full-coverage scan" (`run-probes.ts:81`). Semgrep is run only if a changed file could be read
  (`analysis.worker.ts:333`): with every read failed, the static check is a PASS without detail. Likewise files that could
  not be read or are too large, errors in Semgrep's output, and a package whose version is `*` with OSV on.
  `OutageIsSaid` excepts exactly these (`Excused`), and without the exception TLC finds them.
- `diff-filter.service.ts:104-107`, "a model that invents a new level cannot silently remove findings": INFO is below the default
  `low` of `min_severity` and is removed.
- `config.service.ts:246-259`: a read of `.aipr.yml` that fails is taken as the default policy, unsaid.
- `history/page.tsx:174-177`, "Every filter change goes through here so the skeleton and the query agree": Clear, with the scope
  of a pull request on while a push is open, does not.
- `diff-lines.ts:61-64`: `splitDiffByFile` does not match a header that git printed in quotes (a name beyond ASCII) and gives its
  hunks to the file before.
- `context-prompt.ts:127-154` leaves out files after its `break` though its comment says never silently; `github.service.ts:361-382` answers
  null for every failure, so a lost `tsconfig` read loses the aliased edges without a reason while discovery may say COMPLETE
  (`NothingMissed` excepts it); the walk of `countChangedReach` is capped by nodes where its comment says depth.
- A crash lets the model be asked again, though an answer was paid for; check rows of a first attempt stay (`skipDuplicates`) where the
  artifact of the retry may differ.
- Two tabs that save the same test draft overwrite each other.
- The backend validates the untrimmed path of a draft.

`InlineFirstAlone` is claimed as long as attempts have not overlapped: with two, the late rate-limit answer of
the first can make an inline comment pending again after the second has written the summary.

## 7. Not modelled, and the plan

Not modelled: the key vault (encryption of stored keys: one read, one write), the rules of the scanners (a table of expressions), wording of
prompts, reports and comments, the taxonomy, metrics and trends, the marketing pages, pages that show once what they fetched, and what runs in the containers of the behavioral runner.
Pages with answers that could overtake each other and are left out: `repositories/page.tsx:95-104` (an unsequenced refresh, a skeleton
that may stay) and `RepositoryInsightsPanel.tsx:68-112`.

Next:

1. The retention of reviews as a component of its own, once more of it has state that races.
