# A verification project for the case-review platform

TLA+ models of the platform: the life of one case from upload to released report, the event spine that
tells the family about it, the record, the facts, the findings, the money, the accounts and keys, and
the way out to clinics and lawyers. TLC checks the models on small instances; TLAPS proves the safety of
most of them for every value of the constants.

Paths are relative to the repository root; `api/` stands for `apps/api/src/`, `web/` for `apps/web/app/`.

## 1. The system

| Component | State | Operations | Talks to |
|---|---|---|---|
| Case lifecycle machine (`packages/case-lifecycle/machine.ts`) | none (pure) | legal transitions, customer view | everybody |
| Event append (`packages/database/events.ts`) | `Case.status`, holds, `CaseEvent` rows | `appendCaseEvent` | every handler's transaction |
| Outbox, SSE stream, status page (`events.ts`, `api/routes/cases.ts`) | `publishedAt`, Redis channel, page state | claim, publish, stamp, abort; connect, poll | rows → Redis → browser |
| Pulses and feed (`api/services/progress-pulse.service.ts`, `web/.../status/page.tsx`, `lib/progress-feed.ts`) | open steps, a mirror key, the page's feed | begin, heartbeat, end; fold facts, pulses and polls | worker → Redis → browser |
| Job queue and worker (`api/services/queue.ts`, `api/workers/analysis.worker.ts`) | BullMQ job `analysis-<case>` | add, remove, retry, stall | Redis |
| Analysis (`api/services/analysis.service.ts`, `auto-qa.service.ts`) | runs, findings, reports | three transactions around model calls, merge, auto-approval | case, models |
| Intake, QA and ops routes (`api/routes/{intake,qa,ops}.ts`) | the case, findings, reports | records-complete, approve, correct, re-run, reject, resume, re-analyze, republish | case, queue |
| Case facts (`api/routes/{intake,matters}.ts`) | facts JSON, columns, checklist, counsel's matter | interview, PATCH facts, PATCH matter | analysis, deadlines |
| Deadlines (`packages/case-lifecycle/{deadlines,trap/*}.ts`) | none (pure over dates and today) | TRAP chain, AEDPA year | matter page, packet, report |
| Ingestion (`api/services/{digitize,zip-ingest,inventory,document-removal}.service.ts`, `api/routes/upload.ts`) | documents, pages, checklist, meter | upload, unpack, digitize, correct, remove, count | S3, OCR, case |
| Documents page (`web/(daybreak)/case/[caseId]/documents/page.tsx`) | uploads, failed files, zip wait, poll budget | choose, upload, cancel, retry, remove, start | ingestion's routes |
| Family purchase (`web/.../buy/page.tsx`, `api/routes/checkout.ts`, `promo.service.ts`) | acknowledgments, promo slots, sessions | acknowledge, apply a code, pay | Stripe, fulfilment |
| Checkout fulfilment (`api/services/payments.service.ts`, `api/routes/{checkout,stripe-webhooks}.ts`) | `Payment`, `PaymentEvent` | webhook, sweep, success page | Stripe, case |
| Refunds and disputes (`api/services/refunds.service.ts`) | `Refund`, `Payment.refundedCents` | console refund, Stripe refund, dispute | Stripe, case |
| Staff requests and deletion (`api/services/{staff-requests,deletion}.service.ts`) | `StaffRequest`, the customer's cases | ask, decide, refund, delete a case, erase an account | Stripe, case, account |
| Counsel commerce (`api/services/quote.service.ts` ...) | quotes, allowance, credits, free reviews | accept, buy, settle, start | case, queue, Stripe |
| Organisations and staff (`api/routes/{counsel-org,counsel,ops-professional,permissions}.ts`) | seats, invitations, bar numbers, roles, grants | invite, accept, remove, verify, change a role | accounts |
| Accounts (`api/routes/{me,auth-recovery}.ts`, `packages/auth/auth-options.ts`) | addresses, password, tokens in devices | change, confirm, recover, sign in, refresh | mail |
| Sharing (`api/routes/{next-steps,packets}.ts`) | consents, deliveries, links | grant, revoke, deliver, open, view | clinics, lawyers |
| Evaluation (`api/services/eval-*.service.ts`, `web/ops/eval/page.tsx`) | `EvalRun` rows and their drivers | start, drive, score, gate | the whole pipeline |
| Reports and packets, prompts, notifications, analytics, audit | rendered text; rows nothing decides by | | |

What makes it hard:

* Handlers run under READ COMMITTED, read first and write by id. Two of them interleave at every
  `await`, and what one read may be stale when it writes.
* The worker lives in the api process (`api/index.ts`): one crash kills handlers and analysis alike.
  BullMQ then hands the job out again.
* The queue, Stripe and the browser are not in any transaction. Calls to them fail, repeat, arrive late
  or out of order.
* The same money arrives over three paths (webhook, sweep, success page) and leaves over three
  (console, dashboard, dispute).
* One fact is kept in several places: dates and lane in five, a report's text in findings and snapshots,
  progress in rows, a channel and a key.

Correctness, per component: one run per case at a time and none that nobody asked for; nothing released
that was not completed, or that advises without a person; deletion and refund are final; no event
forgotten, no news older than its event, a page that ends up right; every file kept or named, every page
billed once; a paid session delivered once, and eventually; a refund ledger that agrees with Stripe; no
review without its cover; keys, consents and accounts with those they were given to; a green gate only
when it is earned. The hazards behind each are in `PROJECT.json`, at their lines.

## 2. Modules

| Module | What it is | Theorems in |
|---|---|---|
| `CaseMachine` | statuses, `FORWARD`, `IsLegalTransition`, `CustomerView` as data | (used by all) |
| `AnalysisPipeline` | case row, documents, runs, reports, job, worker, request handlers, deletion | `AnalysisPipelineProofs` |
| `FindingsReview` | findings from screens to the report a family reads | `ReviewProofs` |
| `EventFeed`, `CaseEventOutbox` | the promise of the outbox (at least once, commit first), and the outbox | `FeedAndPageProofs` |
| `ProgressFeed` | pulses, facts, and what the status page makes of both | `FeedAndPageProofs` |
| `Payments` | sessions, fulfilment, refunds, disputes, Stripe's side of them | `MoneyAndGateProofs` |
| `FamilyCheckout` | buy page, acknowledgments, promo codes | `ReviewProofs` |
| `CoveredReview`, `CounselCommerce` | the promise of a price (cover before analysis), and quotes, allowance, credits, packs | `CounselCommerceProofs` |
| `Ingestion` | upload, zip, digitization, duplicates, meter, removal | `IngestionProofs` |
| `DocumentsPage` | the family's page against those routes | `FeedAndPageProofs` |
| `CaseFacts` | the five places one fact is kept in | `CaseDeskProofs` |
| `StaffRequests` | requests, refunds, case and account deletion | `CaseDeskProofs` |
| `DeadlineClocks` | TRAP chain and AEDPA year over a moving calendar | `IngestionProofs` |
| `Accounts`, `Organisations`, `Sharing` | addresses and sessions; seats, licences and roles; consents and links | `AccessProofs` |
| `EvalRuns` | trials, drivers, the gate and the console | `MoneyAndGateProofs` |
| `MC...` | model values, symmetry, and which parts share a run | |

A definition whose name ends in `Flawed` (`Flawed2`) is never used by a specification: it is its
successor with one plausible bug. `PROJECT.json` (`mutants`) pairs each with the property that notices it.

Shape. A handler is a record in a function of handlers (`slots`, `handler`, `call`, `route`, `visit`,
`desk`, `admin`, `editor`); it holds what the handler read. Each transaction is a `...Read` step (SELECT,
guards) and a `...Commit` step (UPDATE by id, INSERT, COMMIT) with anything in between; a transaction
that reads and writes under one lock or one conditional update is one step. Unique indexes are checked at
the commit.

History variables. Where the code does not promise a property against two requests that meet, the module
records that they met, in a variable no guard reads, and the property names it. Each is as narrow as the
race: an edit made of a row that changed under it, not any concurrency. They are `openings`
(`AnalysisPipeline`), `lost`, `reopened` (`CounselCommerce`), `torn`, `pulled`, `stale` (`Ingestion`),
`raced`, `overruled`, `brought` (`CaseFacts`), `crossed`, `straddled` (`Accounts`), `overtaken`, `moved`, `demoted`
(`Organisations`), `off`, `granted`, `told`, `seen`, `torn` (`Sharing`), `done`, `clashed`, `late`
(`StaffRequests`), `wanted`, `passedOver`, `twice`, `muddled`, `hushed`, `hasty`,
`skewed` (`DocumentsPage`), `beside`, `capped` (`FamilyCheckout`), `asserted`, `overtaken` (`FindingsReview`), `unheard` (`ProgressFeed`), `crossed`,
`torn`, `truth`, `late` (`EvalRuns`).

### AnalysisPipeline

`saw`, `flag`, `run`, `ver` are what a handler read. `WritesRow` never re-checks the status; it only
fails on a deleted row.

| Code | Actions |
|---|---|
| POST records-complete | `RecordsRead`, `RecordsEnqueue` (inside the open transaction, row lock held), `RecordsCommit` |
| re-run purchase (`fulfillCheckoutSession`) | `RerunRead`, `RerunBegin`, `RerunCommit` |
| qa approve / rerun / reject | `ApproveRead/Commit`, `RejectRead/Commit`, `RemoveJob`, `EnqueueAnalysis` |
| ops resume / reanalyze / republish | `ResumeRead`, `ReanalyzeRead/Begin/Commit`, `LookAtJob`, `RemoveJob`, `EnqueueAnalysis`, `RepublishRead/Commit` |
| refund of the review, deletion | `RefundRead/Commit`, `DeleteRead/Commit`, `Erase` |
| `runAnalysisInner` | `Tx1Read/Commit`, `ScreenCommit`, `Tx3Read/Commit`; `WorkerFault`, `WorkerRowGone` |
| `autoApproveCase` | `AutoRead`, `AutoCommit`, `AutoHold` |
| BullMQ | `PickUp`, `Backoff`, `Stalled`, `NoModel` (the job completes without a model), `Crash` |

Abstractions. A read outside a transaction is merged with the one inside it where only the later one
decides. `lock` is held only by records-complete, the one handler that calls the queue inside its
transaction. `NoOpenTx` keeps a request's transaction (seconds) from outliving a model call (minutes) or
the 30 s backoff. `waiting` stands for waiting and prioritized. A job stalls only when its worker died.
The overage gate, citation re-verification, expected dates, document removal, audit and e-mails are
left out; so are `QUOTED` (counsel only) and `DELIVERED` (no line moves a case there). `openings` counts
how often an analysis was called for. `Erase` is one step where the code
(`deletion.service.ts:43-66`) is a transaction of several statements: under READ COMMITTED a row written
between two of them is left, as one written after the last is, and both are what the property allows.

### FindingsReview

| Code | Actions |
|---|---|
| `runAnalysisInner`: tx 1, a screen with its samples, tx 3 | `StartRun`, `SaveScreen` (`GroundUnion`, `StructuredFields`, `Merged`, `Written`), `HandOff` |
| `autoApproveCase` | `GateLook` (advice lint, outside the transaction), `GateOpens` (the status), then the steps of a release |
| PATCH finding | `PatchRead` (licence, vehicle rule), `PatchCommit` |
| approve | `Decide` (the status), then the steps of a release |
| a release, the gate's or a reviewer's | `SnapshotRead` (rows, citations), `VersionRead` (the count), `Recheck` (`appendCaseEvent`'s status), `Release` |
| reject, re-run, a re-run bought | `Decide`, `Reject`; `RerunBought` |
| republish | `ReissueRead`, (a model call), `ReissueCommit` |
| GET report | `Latest`, `Verified` |

A finding is its fields and one passage; what the models say of a passage is any of a set of answers. The
chunk's text has an edition, so that a re-digitization takes a quotation's ground away. Rows of an earlier
run are left out: nothing released reads them again. A release is read step by step under READ COMMITTED
and written by id; `Report` has no unique version, so two that overlap may share one.

### CaseEventOutbox, ProgressFeed

An append is one step, its commit, with any unused id: ids are given at INSERT, so commits come in any
id order. A batch is `Claim` (the SELECT ... SKIP LOCKED also reads the case), `Publish` one by one,
`Stamp` at commit, or `Abort`. Stamps are invisible until the commit. One case; deletion leaves its
events. The page has one poll in flight, read at one moment and applied at a later one. With two
processes the last message on the channel may be older than the page; the next poll heals it, and that is
what `PageCatchesUp` says.

`ProgressFeed` adds what that module leaves out of the page: `BeginStep`/`EndStep`/`Heartbeat` in the
worker, the publication and the later write of the mirror key (`SendPulse`, `SetMirror`,
`MirrorExpires`), the markers and facts of a run (`BeginRun`, `MarkStep`, `StartStep`, `FinishStep`,
`HandOver`, `EndRun`, `RunThrows`), one document read beside it (`StartPaper` ... `PaperFails`), and the
page's fold (`WithFact`, `UsePulse`, `FromFacts`, `PollAsks/Lands`, `StreamDrops`, `Reconnects`,
`Reload`). The facts are published in order here; their disorder is `CaseEventOutbox`'s.

### Payments

A handler is a record in `handler`: `saw` is the rollup it read, `todo` the rest of its loop. A step
ends at each `await` that touches shared state. Stripe is `paid`, `refunds`, `returned`, `disputes`: it
refuses more than the charge, and answers a known idempotency key with the refund it made. `Sent` is
every event it may deliver, any number of times, in any order; a delivery that finds its `PaymentEvent`
row changes nothing and is no step.

| Code | Actions |
|---|---|
| `handleStripeEvent` | `HandleStripeEvent`, then the handler's own steps |
| `fulfillCheckoutSession` | `FulfillRead`, `FulfillCommit` (`Conflicts`, `Grant`) |
| `reconcilePayments`, GET checkout/fulfillment | `SweepBegin`, `SweepNext`; `SelfHeal` |
| `issueRefund` | `IssueRefund`, `CreateRefund`, `RecordRefund` |
| `recordStripeRefunds` | `FindPaymentForCharge`, `NextStripeRefund`, `RecordRefund`, `Reread` |
| `recordDispute` | `DisputeCreated`, `DisputeClosed`, `RecordRefund` |
| a failed call, a crash | `Die` (a crash is one `Die` per handler in flight) |

Abstractions. The payment and the refund list of a charge are read in one step; the lookup of a
charge that lists no refunds (`refunds.service.ts:221-225`) is left out. A dispute is about the
whole charge. A sweep over sessions that are all fulfilled does nothing and is not started; a sweep
sees a session in time (25 hours, 100 sessions). The case is only what the money sees of it: none,
AWAITING_DOCS (which stands for every status in work), READY, REFUNDED, GONE; its own interleavings are
those of `AnalysisPipeline`. Promo redemption is `FamilyCheckout`'s; draft copy, mails, audit and test
purges are left out.

### FamilyCheckout

| Code | Actions |
|---|---|
| buy page | `ApplyPromo`, `RemovePromo`, `Acknowledge` (`PostAck`), `ConfirmPromo` |
| POST checkout/session | `SessionRead`, then `RedeemFirst` for a free review, `PayOrReturn` else |
| `fulfillCheckoutSession`, a review | `Fulfil` (takes the buyer's acknowledgments), `RedeemLate` |
| PATCH promo; a refund or dispute; a death | `EditCode` (switch, date and audience as one flag, both caps, up or down or off); `GiveBack`; `Dies` |

`redeemPromo` is one conditional UPDATE and one step; the month and once-per-account rules are counted
earlier and are not. The month counts payments that are SUCCEEDED (`promo.service.ts:30`): one refunded in
part or whole leaves it (`returned`). Everything happens in one month; drafts are left out, and what the
code takes off cannot be edited.
### CounselCommerce

| Code | Actions |
|---|---|
| `acceptQuote` | `AcceptQuote` (decide), then `SpendAllowance`, `SpendCredit` (`CreditRace`), `TakeFreeReview` or `OpenReviewCheckout` |
| `startAnalysis` | `StartAnalysis`, after the acceptance's commit |
| `buyPack`, `requestQuote`, `decideQuoteRequest` | `BuyPack`, `RequestQuote`/`OpenRequest`, `DecideQuoteRequest` |
| `fulfillCounselSession` | `FulfillRead`, `FulfillPack`, `FulfillReview`, `FulfillConflict` |
| `assertQuoteSettled` in records-complete and in the worker | `RecordsComplete`, `RunAnalysis` |
| what changes underneath | `SetAllowance`, `PeriodEnds`, `PackExpires`, `Meter`, `Rerun`, `Reanalyze`, `Resume`, `Refund`, `Die` |

`CoveredReview` is its promise: a case is analysed only under a cover, and what covers one covers no
other. The mapping (`cover`, `analysed`) reads the acceptance and its proof the way `assertQuoteSettled`
does. The record's bucket is one of a set the meter may find; prices are left out.

### Ingestion, DocumentsPage

| Code | Actions |
|---|---|
| `upload.ts` complete, `ingestZip` | `UploadFile`; `Unzip`, `UnzipEntry`, `Unzipped`, `UnzipDies` |
| `digitizeDocument` | `Take`, `LookForDuplicates` (the read of its transaction), `DigitizeCommit`; `DigitizeThrows`, `ReaderFails`, `WorkerDies` |
| `recomputeMeter` | `MeterRead`, `MeterWrite`, `MeterFails` |
| the family's corrections | `SetVolume`, `Confirm`, `Correct` |
| `removeDocuments` | `Remove`, `RemoveOne` (one transaction each), `ReadAgain`; `RemoveThrows`, `RequestDies` |
| what the pipeline does | `Freeze`, `Cite`, `CollectAgain` |

A page is its text and whether OCR was sure of it; chunks are the billable pages with text. OCR, file
types and the wording of a guess are left out. `RemoveOne` reads the pages and counts the citations in the
step that deletes, although the code reads them just before (`document-removal.service.ts:52-59`): a
citation made in between is one `pulled` records anyway. `AnalysisPipeline` summarises all of it by `Upload` and
`Digitize`.

`DocumentsPage` keeps the page's own state and the server's answers to it: `ChooseFiles` (the picker, or
a drop, which `busy` does not gate), `Presign`, `PutEnds`, `Registered`, `Completed`, `CompleteFails`,
`CancelUpload`, `UploadFails`; the refresh as `Asks`, `ListRead`, `ListShown`, `RefreshFails`; `Poll` on
its budget; `RemoveFiles`, `Verdict`, `SaveVolume`, `DownloadFails`, `MarkComplete`; `Unpack`,
`UnpackFails`, `Classify` on the server. The page has one line of errors, and Retry is in it
(`RetryOffered`): the upload of the next file and most buttons clear it (`Loop`, `Says`), and the last
screen does not show it. The end of an archive is a comparison of the server's time of its summary with the
browser's of the hand-over (`page.tsx:282, 440`); both are counted in summaries, `MaxSkew` apart at most.
Previews, filters, meter copy and the 402 offer are left out.

### CaseFacts, DeadlineClocks

`CaseFacts`: POST interview, PATCH facts and PATCH matter are `...Read` (the row they merge into) and
`...Commit` (the whole JSON, the columns, `seedChecklist`), under any interleaving; `Receive` and
`Advance` are digitization and the pipeline around them. A date is a value, its year is itself. The interview may bring a `deadlineFacts` of its own
(`intake.ts:46-59, 167-169`), which replaces the stored one.

`DeadlineClocks` translates `computeTrapClock`, `rollForward` and `computeDeadlinePosture` as operators
over the docket, and lets the docket grow: `Pass`, `Dusk` (UTC a day ahead of Chicago), `Record`,
`FileWrit`, `DisposeWrit`. Days are numbers; the AEDPA year is a constant.

### Accounts, Organisations, Sharing, StaffRequests

| Module | Code | Actions |
|---|---|---|
| `Accounts` | `me.ts`, `auth-recovery.ts` | `CallRead`, `CallCommit` (by operation: email, confirm, backup, forgot, reset, password) |
| | `auth-options.ts` | `SignInRead`, `SignIn`, `WrongPassword`, `WindowPasses`, `Refresh`, `RefreshSkipped`, `SignOut` |
| `Organisations` | `counsel-org.ts` | `InviteRead/Commit`, `AcceptRead/Commit`, `RemoveRead/Commit`, `AddressMoves` |
| | `counsel.ts`, `ops-professional.ts` | `NumberRead/Commit`, `DeskLooks`, `DecisionRead/Commit` |
| | `permissions.ts` | `CreateUser`, `RoleRead/Commit`, `DeleteRead/Commit` |
| `Sharing` | `next-steps.ts`, `packets.ts` | `GrantRead/Commit`, `RevokeRead/Commit`, `DeliverRead/Commit`, `OpenRead`, `MarkOpened`, `TellFamily`, `MakeLink`, `RevokeLinks`, `ViewRead/Commit` |
| | elsewhere | `ClinicChanges`, `Republish`, `DeleteCase`, `Expire`, `Lost` |
| `StaffRequests` | `staff-requests.service.ts` | `RequestRead/Commit`, `DecideRead`, `CarriedOut`, `Refused`, `DecideCommit`; `ConsoleActs` |
| | `refunds.service.ts` | `RefundRead`, `CreateAtStripe`, `BookRefund` |
| | `deletion.service.ts` | `ListCases`, `MarkDeleted`, `EraseCase`, `Anonymise`; `CaseArrives`, `CutShort` |

Time is in half seconds in `Accounts`, because a token's clock has whole seconds and the change's has
milliseconds. Passkeys, sign-in history, feature flags, profiles, seat billing, notices and the rendering
of packets are left out. The three parts of `Organisations` meet in no row; it is one module because they
are one question, who holds the keys.

### EvalRuns

`StartRuns`, `MakeTrial`, `StartFails` are the route; `BeginTrial`, `CopyVolume`, `Ingested`,
`CompleteRecord`, `Analysed`, `Score`, `Audited`, `TrialFails` one driver; `ReadVolume`, `BarVolume` the
digitizer; `CostLands` the fire-and-forget cost rows; `EvalRestart`, `RowsAge` what ends a driver;
`AskGate`, `ReadLedger` the Today page's gate; `OpenConsole`, `Listed`, `Started`, `ConsoleShows`,
`ConsoleFails` the console's. A volume holds one canary; how a finding is matched to it is a choice.

## 3. Runs

A run's parts share no variable and no action. `subject`, chosen in the initial state, says which of them
moves; the others rest in one initial state, so that the state spaces add up and each part is explored as
if alone. Invariants are checked in every state. The fairness of a run is that of the one part with a
liveness property: a behaviour in which another part moves for ever keeps that part's fair actions enabled
and untaken, so it is no behaviour of the fair specification, and proves or refutes nothing of it.

| Run | Subjects and instance | Distinct states | Shows |
|---|---|---|---|
| `pipeline_safety` | `pipeline`: 2 handlers, 2 documents, all ten operations, auto-approve, 1 screen, 3 requests, 1 fault | 1,975,521 | the pipeline's nine safety properties |
| | `purchase`: 3 visits of 2 buyers, 2 slots, a month of 2, caps lowered to 1 or lifted, 1 edit (of one field), refund or death | | `BoughtAsAgreed` |
| | `zip`, `file`, `batch`, `drop`: one documents page, 3 gestures, 1 failed request, a poll, clocks 1 summary apart | | `FilesAccountedFor` |
| `pipeline_liveness` | `pipeline`: 2 handlers, 1 document, 2 requests, 2 faults, fair | 1,107,845 | `CompleteRecordIsDecided` |
| | `findings`: one run of 2 screens, 2 samples, 2 corrections; `reports`: 2 runs, 2 republications, 1 mishap | | `VehicleFollows`, `FamilyReadsWhatPassed` |
| `outbox` | `outbox`: 2 processes, 2 events, batches of 2, a hold, 1 fault, fair | 765,990 | outbox safety, `ImplementsFeed`, `PageCatchesUp` |
| | `runs`: 2 runs of 2 checks; `reading`: a document beside a run; a poll, a heartbeat or a snag | | `ProgressIsReal` |
| `money_fulfilment` | `money`: all three session kinds, 1 handler and the sweep, 2 faults, fair | 871,857 | `DeliveredOnce`, `PaidIsDelivered` |
| | `trial`, `gate`, `console`: 2 ledgers, 2 volumes, 2 trials, 2 starters, 1 misfire | | `GateIsEarned` |
| `money_refunds` | a review of price 2, 2 handlers and the sweep, 1 operator intent, 1 dashboard refund, a dispute, 1 fault | 3,082,585 | ledger safety |
| `commerce` | `commerce`: 2 matters, 1 attorney, 2 handlers, 1 rare event | 1,129,444 | `OverdrawnOnlyByRacers`, `ParkedOnlyByFaultOrRerun`, `CoverIsKept` |
| | `addresses`, `sessions`: 2 devices, 3 requests, 4 half seconds, 1 outage | | `AccountIsItsOwners` |
| | `seats`, `licence`, `staff`: 2 people, 2 addresses, 3 staff, 5 requests | | `KeysAreEarned` |
| | `money`, `erasure`: 2 Admins, 2 requests (1 for erasure), 2 cases, 1 cut | | `RequestsAreHonoured` |
| | `packets`, `links`: 2 consents, 2 links, 2 versions, 5 requests | | `SharedAsShown` |
| `ingest` | `ingestion`: 1 file and a zip of 3 pages, 2 readers, 1 request, 1 rare event | 974,657 | `DuplicateHasOriginal`, `BilledByOverlapOnly`, `MeterCatchesUp`, `CitedStays` |
| | `facts`: 2 editors, 2 edits, 1 date; `clock`: 7 days, 4 vehicles, 2 dates | | `OneStoryUnlessRaced`, `ClocksAreRight` |
| `rerun_parked`, `refund_race`, `deletion_race`, `refund_retry`, `rollup_drift` | as small as the counterexample allows, no fault | | one finding each (section 5) |

Some properties are conjunctions of two promises about one component: `KeysAreEarned` (owners and Admins
remain; a licence was looked up), `BoughtAsAgreed` (the code's bounds; acknowledgment and price),
`FilesAccountedFor` (no file forgotten unnoted; the page settles, and what it waits for is to come), `RequestsAreHonoured` (decision and effect; no
erasure half done), `SharedAsShown` (off is off; openings counted), `AccountIsItsOwners` (backup address;
sessions), `FamilyReadsWhatPassed` (advice held; newest run shown), `ProgressIsReal` (the step runs; the
poll is the floor), `GateIsEarned` (scored on the whole record; one open run; one answer), `ClocksAreRight`
(the clock is the rules', for the dates it is given; what page and packet say of them; the year is the days
that ran, less those tolled twice).

Some say how far the code is from what one would wish, exactly, rather than that it is right.
`NoFileForgotten` keeps every file that failed either offered for Retry or in `passedOver`, which a file
enters when a later one of its batch does not fail, a button is pressed, or the review is started: the ways
in which the page takes its message off. `NewestRunIsShown` holds unless two releases overlapped and no
approval has stood alone since. `CodeWithinBounds` is about the largest cap that was ever in force, because
the console may set a cap below what was redeemed. `DatesAgree` says which of two dates the engine counts
from. `SurfacesSay` has the false alarms of page and packet, and that a lost petition is on neither. Each
exception was seen in TLC, by checking that without it the property fails.

Why the bounds are enough. Two handlers are what a stale read needs: one that read, one that wrote since;
the worker or the sweep is a third actor. Three requests reach release and one more decision on it (re-run,
republish, refund or deletion); one fault in a safety run and two in a liveness run reach a dead job
(`Attempts` = 2) and a failed operator call on top of it. Two events are an order, and a batch of two a
batch whose snapshot is older than its last publication. Price 2 makes partial refunds. Two pages of one
text and a blank one are what de-duplication tells apart. Two visits of one buyer and one of another meet
in a code's slot, month and account rules. The `Max...` constants bound the environment only; no bound
stops a handler that has started. Where a bound is smaller than the code's constant it stands for it:
`Attempts` 2 for 3, `MaxSignInTries` 1 for 5, `PollBudget` 1 for 24 or 36 polls, `YearDays` 60 for 365
(the days of the run are chosen around its edges), `Window` 3 trials for 200 rows (no run fills it).

What the bounds leave to the proofs. With two cases the allowance's bound in `OverdrawnOnlyByRacers` is
out of reach in the run (the free reviews' is reached); `OverdrawnByRacers` proves both for any number.
`seats` has five requests and two addresses; `KeysHold` has neither bound. `reports` looks at corrections
of the wording of preserved findings only, `gate` and `console` let the earlier trial go first until it is
scored, `erasure` has one request, `drop` no poll and `batch` no button: each leaves interleavings of
steps that touch nothing in common, or that another subject has.

Deadlock is not checked: when the bounds are used up the system may really rest. Symmetry is used in
safety runs only. Parts of one run share model values (handlers are also visits, devices also
invitations), so that one permutation group serves all of them.

### Fairness

* Pipeline: the worker, BullMQ's timers and a handler that has started go on (event loop). An operator
  presses Resume on a case that stays in a running status with a dead job: `docs/operations/runbook.md`
  makes that a person's task, and without it the property is false. It is the one assumption about people.
* Outbox: the loop of each process ticks for ever, after an error too (`startCaseEventOutbox`); the page
  is open, so its interval polls and its EventSource delivers and reconnects.
* Payments: the sweep is on a timer (`api/index.ts`), started handlers go on. Nothing makes Stripe
  deliver, the family look, or an operator act.

Faults are bounded, so each liveness property is about a system that is left alone after them.

## 4. Proofs

All from the named assumptions on the constants in the modules (`BoundsAssumption`, `OutboxAssumption`,
`PaymentsAssumption`, `CommerceAssumption`, `KeysAssumption`, `SharingAssumption`, `MoneyAssumption`,
`NoneAssumption`, `CodeAssumption`, `ReviewAssumption`, `IngestionAssumption`, `PageAssumption`,
`EvalAssumption`, `FeedAssumption`, `ClockAssumption`), for any handlers, rows, requests, files, amounts,
dates and faults; what else a theorem assumes is named with it. They say that numbers are naturals, that
rows there can be are finite where they are counted, that roles are told apart (a reader is no request,
the archive no document), that "nothing" is none of the values, and what the code's types and form checks
say of its inputs: a discount is within the price, an answer of the model has a weight and a known
category, a correction names one of three fields, reviewers with a licence are staff. Handlers are
finitely many, a day is a natural and some day comes, and the run's steps, the document's and "no step"
are told apart.

* `AnalysisPipelineProofs`: `TypesHold`, `TypeCorrect` (with `JobIdGuardsTheRun`), `DeletionIsFinal`,
  `NoAnalysisBeforeClock`, `ReleasedReports`, `AnalysedAsCalledFor`. The properties are not inductive;
  what they miss is what a handler in flight relies on. `WorkerRunInv`: the run inside the worker stays
  the latest, because a live job keeps every other run out. `ReviewInv`: a case in QA_REVIEW was brought
  there by its latest run, and an approval that read so carries a completed run to its commit. `ClockInv`:
  the clock runs in every status past records-complete and for every handler about to write one. `OwedInv`
  counts: runs that read the same documents are at most the calls for an analysis, less those that some
  row, job or handler still owes. It rests on `NoOpenTx` (a request's transaction does not outlive a
  screen) and on a run having a screen at all (`Screens` is positive).
    Three more say what is left of the claims section 5 refutes. `FirstIsNeverSwallowed`: `FirstInv`, a
  job completed without a fault completed a run, and a case with one completed run is beyond its first
  analysis. `RefundIsFinalOnceSettled`, an action property: with no handler or worker left that read the
  case before its refund, no step makes a new one, because whoever reads REFUNDED is refused anything
  but a deletion. `DeletionMissesLittle`: `LeftInv` counts, in a deleted case, reports put back and
  republishers that may yet put one back: together at most the handlers; findings are of the one run in
  the worker.
* `FeedAndPageProofs`, of the outbox: types, `NothingStampedUnheard`, `BatchesAreDisjoint`,
  `NewsIsCurrent`, and `OutboxImplementsFeed`, every step being a step of `EventFeed` or a stutter.
  `BatchInv` carries them: an open batch is committed rows nobody else may take, its published part was
  heard, and its snapshot is younger than all of its events.
* `FeedAndPageProofs`, of the status page: `ProgressStaysReal`. `FeedInv`: what the page, a poll on its way
  and the server read is each a reading of the facts up to some one of them, and a reading of all of them
  names a check that is open, marked or ended unheard (`ViewIs`); the step a pulse brought is open, or its
  end went unheard or is a fact yet to be published (`StepHolds`), so that once all is published nothing
  the page calls running is over. Which events of the run a reading holds (`OfRun`) does not depend on a
  late event of an earlier run among them.
* `FeedAndPageProofs`, of the documents page: `PageHolds` and `FilesAreAccountedFor`. `DocsInv` says, until
  one of the named mishaps happened, what each list may lack. A file on the server is in what is shown, or
  in a list on its way, unless that is old or the batch that sent it waits for its answer (`SentOnce`); a
  list that is not old was read last (`ReadInOrder`), so two lists cannot disagree on whether the archive
  came; the archive's job and its summary are in step with what the page waits for (`ZipInOrder`), so that a
  summary it waits for is there or its job is (`Coming`); as long as it waits, a poll is armed or asked
  (`Waits`); and what failed is told by the message, or was passed over (`Told`): every step but a batch's
  only clears the message together with what it told (`Noticed`). `OneBatch`: only a drop on a busy page makes a
  second batch, which is why the page's one list of failed files is otherwise enough.
* `MoneyAndGateProofs`, of the money: types, `FulfilmentHappensOnce`, `RollupIsCovered`, `RefundedMeansPaidBack`,
  `OnlyReturnsAreBooked`. `HandlerOK` carries the first: a handler on its way to book saw a rollup that the
  rows cover, and rows only accumulate, so a stale rollup errs on the low side only. That is also why
  `RollupIsTheRows`, the equality, fails. `BackInv` carries the last: a function that sums the refunds of
  a charge in the order Stripe made them splits what was returned into what is booked and what is not, and
  an idempotency key names its session and amount, so the same refund never returns at another amount.
* `MoneyAndGateProofs`, of the gate: `EvalHolds`, `RunsAreSound`, `GateIsAlwaysEarned`. `RowStep` is what no
  step takes back from a row: its ledger, that it ended, that it failed, its verdict once it ended. So rows
  that had ended when the gate began to read (`since`) have ended still, and where the same is told at the
  end as at the start, nothing was told in between and what was found of each ledger is still the case
  (`ReadingIs`). `Alone`: a start under way found its ledgers free and is alone with them, or two raced.
  `GateIsAlwaysEarned` assumes `MaxTrials <= Window`, and needs it: a console's listing of 200 rows drops
  the run it started once 200 newer ones are there. A load that fails leaves the listing and an error
  (`FailsOne`), which the next load clears with a listing of its own on the way. `RunsAreSound` is the rest and assumes nothing of it.
* `CounselCommerceProofs`: `OverdrawnByRacers`, `ParkedByFaultOrRerun`, and `CommerceCoversReviews`, the
  refinement of `CoveredReview`. Three invariants: rows are booked once and a credit spent once; what is
  taken, together with what handlers in flight are about to take, exceeds the limit by the other handlers
  at most; and a case nothing disturbed is where its acceptance put it, or a handler that will move it is
  in flight. The mapping's moves (`Settle`, `Analyse`, `Withdraw`) are each one action's doing; all other
  actions leave the cover alone.
* `AccessProofs`: `KeysHold`, `WhatIsSharedIsShown`, `AccountsAreTheirOwners`. `SeatsInv`: an address has
  one open invitation, and while one is open nobody of that address is seated; so an acceptance never
  finds an owner to demote. Proving it showed that acceptance creates the account before the transaction
  that seats it, and that an address may move in between. `ShareInv`: a class that is off has no active
  consent, a revocation in flight holds every consent of its class but those granted meanwhile, every
  delivery names a clinic's consent, and an opening has one request to tell of it. `AccountInv`: while
  nothing crossed, the row a route read is the row that is there; and a device whose token has settled
  knows an earlier password exactly if the change is of a later second.
* `ReviewProofs`, of the purchase: `PurchaseStands` and `BoughtIsAgreed`. `PurchaseInv`: a session is of
  what its page shows; free sessions that hold a slot are at most the slots taken, and what is redeemed is
  within a cap that was in force; any set of sessions not given back none of which was open beside another
  is within such a cap of the month, since the last of them to be checked counted the others, and caps and
  refunds are not forgotten (`NothingForgotten`); and an acknowledgment waits or is bound to a paid case of its buyer.
* `ReviewProofs`, of the findings: `ReviewStands`, `DoorsFollow`, `WhatIsReadHasPassed`. `ReviewInv`: a
  correction in flight has its row, unless its run was replaced; what the gate let through advises only if
  a correction came between; and deriving a row's fields twice changes nothing (`DerivedHolds`), which
  is what makes a merge and a correction safe in either order. `Numbered` is of the releases: a version is at
  most the place of its report (`Counted`); a release in flight has a draft of a run no older than any
  report that was there when it began, and a higher version than their number (`DraftsLead`); so one that
  nothing was released beside has the highest version and the newest run of all (`LastLeads`).
* `IngestionProofs`: `RecordHolds`, `NoTextIsLost`, `BilledOncePerReader`, `MeterIsCounted`, `CitedAreKept`.
  `RowsAreRead`: rows are pages of the document's own file, and an infected one has none. `Replacing`: a
  transaction that replaces rows replaces all the document has, and is its only one. `OverlapBound` is
  what makes the bill inductive: the rows a text is billed by and the transactions that will yet bill it
  (those that looked and found it nowhere) are together at most the readers, because a reader that looks
  when the text is there will not bill it. `FrozenStays`: what an analysis froze is there or was pulled
  from under it.
* `IngestionProofs`, of the clocks: `ClocksStayRight`, for any closed days, docket, writs and moment.
  `FamilyMissed`: in a table in which one base deadline and one extension of a family apply, the loop over
  the vectors reports the family missed exactly if the rules, read one deadline at a time, say it is lost;
  the notice and the petition are such families in each of their modes, for the docket and for the part of it
  the page is given (`NoticeRule`). `RollForwardWithin` bounds what
  closed days add, so that a shorter period never outlasts a longer one and the page's day, ahead in the
  evening, never hides what the packet says. `TolledDays`: what the loop over the writs has added up is
  the number of pairs of a writ and a day it was pending; the days that ran are no fewer than those left
  (`DaysAreFewer`), and as many if no day is in two pairs.
* `CaseDeskProofs`: `RequestsHonoured` and `OneStory`. `DeskInv`: a request that did not clash has one
  decision under way or none, and its effect is the decision's; an account deletion has every case it may
  still leave on its list. `FactsInv`: an edit whose row is still the one it read writes a row on which the
  five places agree, but for the date an interview brought; any other sets `raced`.

The invariants were first checked by TLC as invariants of a run. Three of them found the model at fault,
which was corrected: a CASE of `CaseFacts` with guards that overlap had left the choice of a matter's
deadline open, `Organisations` had missed an address that changes during an acceptance, and `EvalRuns`
had noticed a load of the console that overtook the one before it, but not one before that.

Two definitions were put as the loops they translate, so that they can be reasoned about: `OfRun` in
`ProgressFeed` (SelectSeq's facts take the test as an operator, which the provers cannot instantiate) and
`DaysTolled` in `DeadlineClocks` (it had summed over a set of writs). Both are recursive functions. What
such a function computes is proved without the library's induction: there is a function that satisfies the
equation (built from those up to a bound), and a least number for which the claim failed would not be
least (`WFMin`, `NatLessThanWellFounded`).

Every invariant and action property of the passing runs is stated by a theorem, the refinement
`CoverIsKept` too; of `ImplementsFeed`, `OutboxImplementsFeed` proves the safety part. Only model-checked:

* liveness (`CompleteRecordIsDecided`, `PageCatchesUp`, `PaidIsDelivered`, the fair part of
  `ImplementsFeed`) and anything with ENABLED, which are out of the prover's reach.

No module uses a RECURSIVE operator.

## 5. Findings

* `rerun_parked`: after a first run, `records-complete` of a paid re-run queues nothing, because the completed
  job keeps the fixed id. A first analysis is never lost that way (`FirstIsNeverSwallowed`).
* `refund_race`: a stale transition takes a refunded case out of REFUNDED. Only one that read the case
  before can (`RefundIsFinalOnceSettled`).
* `deletion_race`: a run in flight writes findings after the hard delete. It is that one run, and the
  republishers in flight, and nothing else (`DeletionMissesLittle`).
* `refund_retry`: when the webhook books a console refund first, the operator sees an error, and the
  retry sends the money again.
* `rollup_drift`: concurrent bookings lose a refund from `refundedCents`.

Also seen while modelling, where the repository promises nothing or a history variable names it:

* Pipeline and money. A crash between the two deletion transactions leaves a DELETED case nothing can
  erase; two releases may share a version number (`Report` has no unique index on it: `qa.ts:291` counts, and
  READY is written by id, so both may be committed), and republish reads the latest outside its transaction. `dispute.created` handled after `closed` leaves the dispute open; a
  Stripe event whose first handling failed is never handled; the console lowers a code's caps below what
  was redeemed, and a payment refunded in part leaves the code's month (`promo.service.ts:30`); a re-run paid for a case that was deleted has
  no payment row. A free review whose handler dies after `redeemPromo` loses its slot. `QUOTED` is not in
  the list the console's Resume accepts.
* Findings. PATCH has no guard on the case's status. A weaker copy of a passage raises `preserved` and
  leaves `vehicle`; the tie-break of `strongerPreserved` has no effect. Auto-approval lints outside its
  transaction, and passes `screensForLane(lane)` without the vehicle (`analysis.worker.ts:58-61`). The QA
  page's hold button selects a case without loading its findings (`web/app/qa/page.tsx:154`).
* Pages. The documents page keeps failed files so that "failed files can be retried in one tap"
  (`page.tsx:198-201`), but Retry is inside `{error && ...}` (652-664) and the upload of the next file clears
  the error (406): a batch whose first file fails and whose second does not ends with a failed file and no
  Retry. A verdict, a saved label, a removal or step 2 clears it too, and the last screen (524) has none. It
  compares the browser's clock at the hand-over of an archive with the server's time of the summary (282,
  440): a clock that is ahead, like a job that fails for good, leaves it asking for ever; one behind may take
  an earlier summary for the new one. A cancel between two PUTs is lost, the drop zone is not gated by `busy`
  and a second batch overwrites `failedFiles`, a refresh that rejects after a successful upload offers the
  file for retry, a zip unpacked before its upload is answered leaves the page "unpacking" for ever, a
  failed last poll stops polling, and "records are complete" is not disabled during an upload. On the
  status page the end of a step publishes nothing, `feedFromFacts` never clears `step`
  (`analysis.service.ts:614-628`), the mirror is one per case while steps are per key, a late mirror write
  may follow its deletion, and an older poll takes back what the stream told since.
* Evaluation. Two starts may see no open row; an audit that fails after SCORED writes FAILED over it;
  costs are recorded behind the margin they decide; a restart leaves RUNNING for four hours; two first
  starts may each make a tenant; a listing that lands late, or a load that fails (`page.tsx:80-85`), may leave
  the console without a run just started and polling over, under an error if it failed.
* Facts and deadlines. POST interview takes a whole `deadlineFacts` (`intake.ts:46-59, 167-169`; no page of
  the repository sends one): its judgment date is then the one the engine counts from, and the facts keep
  theirs, until an edit sets the date again. `deadlines.ts:5` declares "America/Chicago semantics", and the
  packet counts on the Chicago day, but the matter page takes the UTC day (`matters.ts:73`): on the evening
  of the last day it calls a notice missed that may still be filed. `TrapInputs` gives page and packet four
  dates of an appeal: a motion in time that saves the notice, and a lost petition, are unknown to both.
  Two writs pending at once toll each day twice (`deadlines.ts:118-127`), where the PRD's FR-5 tolls the
  clock "while a properly filed state writ is pending": the year is then shown shorter than it is.
* Reports. `staffReportPdf` (`api/services/case-file.service.ts:203-268`) passes no `sealedPartB`, so the
  staff copy holds what the family's omits while sealed; the counsel packet's inventory is of now, its
  report of then.

## 6. Plan

1. Done: the modules of section 2, their runs, and the theorems of section 4.
2. Proofs next: the invariants of the models below, with those models.
3. Models next: the overage gate and document removal in `AnalysisPipeline`; the packet's inventory
   against its report.

## 7. Not modelled

Model calls and prompts, report, packet and e-mail rendering are functions of data and wording; the models
take their outcome (success or failure, which fields). The pages that only list what rows say (console,
money views, case file, report page), analytics, audit and notifications keep rows no modelled decision
reads. They are a large part of the source, and the reason the models stand for less than a third of its
lines. Feature flags, profiles, seat billing, passkeys and the price book are read as constants or not at
all. Within the modelled parts, section 2 names what each module leaves out.
