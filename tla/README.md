# Verification of Elixir Books Smart

Elixir Books Smart is an accounting system for Indian businesses: an API over
PostgreSQL (`apps/api`), a mobile and desktop app that works offline
(`apps/mobile`, `apps/web`, `packages/app`), and the domain rules both share
(`packages/core`). This directory holds TLA+ models of the parts of it where
several actors meet, the TLC runs that check them, and proofs for TLAPS.

Run `tlc -config <run>.cfg <module>.tla` for a run, `tlapm <module>_proofs.tla`
for the proofs. `PROJECT.json` lists runs, theorems, hazards and findings, and
maps every definition to the lines it stands for.

## 1. The system

Everything shared is in PostgreSQL. Any number of API processes serve requests
and run background jobs; a process keeps no state that outlives it, except what
a worker remembers of the jobs it runs. Transactions are READ COMMITTED: what
they decide on must be locked (`SELECT ... FOR UPDATE`), guarded by a `version`
in the `WHERE` of the update, or protected by a unique index. Devices keep a
queue of what was done offline and push it later. Outside are the portals of the
government (IRN, e-way bills, GST returns) and the payment gateway: they may act
without answering, and tell of it late, twice or out of order. Nearly every
property below is about one of these means being used, or forgotten, at one step.

| Component | State | Operations | Meets others through | Hard behaviours | What makes it correct |
|---|---|---|---|---|---|
| Job queue (`jobs/`) | rows of `jobs` and `job_schedule_runs`; each worker's map of running jobs | enqueue, scheduler tick, poll (bury, claim), heartbeat, finish, stop, prune | every module enqueues; every process may run a worker | crashes, leases lapsing under a live run, answers of the database lost, graceful stops handing jobs back | a job is held by one worker, ends by its latest claim, is given up only after all attempts, settles in the end; no work queued twice |
| Idempotency keys (`http/idempotency.ts`) | one row per key: body hash, stored response | claim, replay, take over, store, free, expire | wraps every POST; sync push relies on it | retries racing, death after the commit, rows gone between two statements | a request takes effect once and every retry hears the same answer |
| Sync push (`modules/sync`, `packages/app/remote/sync.ts`) | `sync_mutations`, `client_id_mappings`, the device's queue | push, replay of entries through the API's routes, take over of dead pushes | idempotency keys, every route, the device | a push given up on while it runs, death between effect and record, entries that refer to each other | a create takes effect again only for an answer lost on its way to the key; "applied" is true; refusals are final only if they are right; every entry settles |
| The app's outbox (`packages/app/remote`) | queue, entities, versions on the device | save, fold, rebase, drain, drop, pull | sync push and pull | edits behind unsent creates, others' edits, the app closed at any step | nothing lost, nothing sent twice, nothing overwritten unseen |
| Change log and pull (`lib/audit.ts`, `modules/sync`) | `change_log` with a sequence, the device's copy and cursor | record, pull a page or a snapshot, reload, sign in and out | every write, every device | a lower sequence committed later, answers of one session read in the next | no change is missed; the copy is the books |
| Number series (`lib/numbering.ts`) | `numbering_series` rows | draw a number inside the finalising transaction, reset per period, edit in settings | documents, payments, expenses | draws racing each other and settings saves, documents dated in past periods | numbers unique, without a gap, never reused |
| Documents (`modules/documents`, `core/domain/documentStates.ts`) | `documents`: status, version, source, approval | create, convert, edit, approve, finalise, close, cancel, delete | numbers, stock, payments, limits | what is checked is read before the lock, edits race decisions | an issued document stands; goods move once; limits kept |
| Stock (`modules/inventory`, `core/domain/stockLedger.ts`) | stock postings by item, branch and day | post, reverse, count | documents | a reversal of what was since sold, counts in the past | the ledger is what the documents say; nothing is sold twice |
| Payments and notes (`modules/payments`, `documents/lifecycle.ts`) | `payments`, `payment_allocations`, paid amounts, account balances | record, change, remove, refund; credit and debit notes | documents' paid amount, accounts, receipts' advances | locks in several tables, edits of what others settled | nothing settled twice, advances exact, accounts not overdrawn, no deadlock |
| Totals, tax and postings (`core/domain`) | none: what a draft's lines come to, what a document posts | calculate, post, claim credit | API and app | rounding, line by line and rate by rate; currencies | what a document says, owes and posts agree to the paisa |
| e-invoice and e-way bill (`modules/compliance`) | attempts, IRNs, bills | generate, cancel, look up, reconcile | documents, the portals, jobs | an answer lost after the portal acted; a user and a job at one attempt | one IRN and one live bill per document; the books say what the portal says |
| GST filing (`modules/gst`) | returns of a month, set-offs, the lock date | save, set off, file, track, recover | documents, the portal, the company's form | an answer lost after the portal filed; reads that are old when written | filed is filed there; set off once; the month closed |
| Webhooks and billing (`modules/webhooks`, `modules/billing`) | events seen, subscriptions, plans | one handler per event; checkout, cancel | companies' plans, the gateway | duplicated, reordered and late events | the plan is what is paid for |
| Online payments (`documents/outbound.ts`, `modules/webhooks`) | links, payments of the gateway | ask for a link, paid, refunded | documents, payments, the gateway | two links for one invoice, refunds before payments, cancelled invoices | what the gateway collected is on the books once |
| Payment requests (`modules/payments/requests.ts`) | requests waiting for approval | hold, approve, reject, cancel | payments | two deciders | decided once, paid once |
| Recurring documents (`modules/documents/recurring.ts`) | schedules and their next date | run, pause, skip | jobs, documents | a job run twice | one document per date |
| Banking, expenses, assets, vouchers | statement lines, expenses, vouchers | post, match, close | accounts' balances | closing against late documents | closed periods do not move |
| Sessions (`auth/`, `modules/auth`, `packages/api-client`) | refresh tokens | sign in, refresh, revoke | every request of a device | two requests refreshing at once | a session is not lost, nor kept after revocation |
| Companies, users, settings, parties, catalog | versioned rows | forms with If-Match | everything | two editors | no silent overwrite; an account keeps an owner |
| Account deletion (`modules/me`, `modules/platform`) | deletion requests | ask, take back, purge | jobs | taking back against the purge | no purge of what was taken back |
| Reports, search, exports, OCR, providers, integrations, assistant | files and calls | read or call out | jobs | none that is shared | - |
| Screens (`apps/*`, `packages/ui`), generated contract | screen state | - | the remote layer | none that is shared | - |

## 2. Plan

Done, in the order of how much else depends on it: `JobQueue`; `OnceOnly` and
`Idempotency`; `SyncPush`; `Issuing`; `Settlement`; `ChangeFeed` and `Outbox`;
`Compliance`; `Subscriptions`, `OnlinePayments`; `Documents`; `Filing`; `Money`,
`Ledger`, `AdvanceTax`; and proofs of most of their safety properties (section 5).

Next:

1. Accounts: owners, members leaving, closing and purging (`modules/users`,
   `modules/me`, `modules/platform`); what reading them already showed is in
   section 6.
2. Sessions and tabs: rotation of refresh tokens by two tabs and by requests
   that are answered late (`packages/api-client`).
3. Payment requests and recurring documents, on top of `Settlement` and
   `JobQueue`.
4. Stock cost, ageing and the other pure algorithms of `packages/core` against
   reference definitions over bounded inputs; banking.
5. Proofs: see the end of section 5.

## 3. The modules

Several models that do not meet are checked in one instance: a variable `focus`
picks one at the start, the others stand still where they began. So a behaviour
of the composition is a behaviour of one model, and a run covers all of them.

| Module | Composes |
|---|---|
| `MCJobQueue`, `MCSyncPush`, `MCIssuing` | one model each |
| `MCSettles` | `JobQueue` (extended), `SyncPush` as `Push` |
| `MCServices` | `Idempotency` (extended), `JobQueue` as `Queue`, `Compliance` as `Gst`, `Subscriptions` as `Billing`, `OnlinePayments` as `Online`, `Filing` as `Returns` |
| `MCSettlement` | `Settlement` (extended), `Documents` as `Chain`, `Ledger` as `Books`, `AdvanceTax` as `Advance` |
| `MCDevice` | `ChangeFeed` (extended), `Outbox` as `Box` |
| `MCProgress` | `ChangeFeed`, `Outbox`, `Compliance`, `OnlinePayments` under fairness |

### JobQueue (`apps/api/src/jobs`)

State: `row` is the `jobs` table, `scheduleRuns` the periods queued,
`running`, `unfinished` and `poll` what a process keeps in memory, `runs` the
handler runs alive, `claims` and `succeeded` history. Time is reduced to the
two comparisons the SQL makes: a queued row is due, a lease has lapsed.

| Action | Code |
|---|---|
| `Enqueue`, `TickSchedules` with `EnqueueOnce`, `Prune` | `queue.ts` enqueue, enqueueOnce; `schedule.ts` ticks; `pruneJobs` |
| `PollBegins`, `BuryExhausted`, `Claim`, `ClaimAnswerLost`, `PollFails`, `StartRuns` | `worker.ts` poll: two statements and what happens to their answers |
| `Heartbeat`, `HandlerEnds`, `Finish`, `FinishFails` | `worker.ts` run and finish |
| `StopBegins`, `StopHandsBack`, `Exit`, `Crash`, `Boot` | stop(), process exit, death and restart |
| `BecomeDue`, `LeaseLapses` | the clock |

Which unique key a job has is chosen when it is queued (`Enqueue(j, k, due)`), so
one run covers jobs of one key, of none and of a schedule. A lease may lapse under
a live run (its event loop stood still, its renewals failed): that is the case the
attempt number is there for.

### OnceOnly, Idempotency (`http/idempotency.ts`)

`OnceOnly` is the promise: one decision, everyone told that one, or told to come
back. `Idempotency` has one action per statement of the two hooks (`Insert`, the
read and its five outcomes, `Forget`, `TakeOver`, `Send`), the handler as an
external step, death at any point, staleness, expiry and purge; `asOf` is the row's
age by each request's own clock. Which faults may happen is the variable `faults`.
Keys do not interact, so one key with all its requests is the whole.
`ImplementsOnceOnly` is the refinement.

One premise comes from the code's comment "No request runs this long": a claim
grows stale only when no request is running under it (`ClaimGrowsStale`).
Nothing in the code enforces it; it is listed as a hazard.

### SyncPush (`modules/sync/handlers.ts`, `packages/app/remote/sync.ts`)

A push is a list of entries; each goes through `ClaimEntry`, the read of another
push's row (`Report`, `SeenOld`, `SeenGone`), `TakeOver`, the injected request
(`RunKnown`, `RunEdit`, `RunPost`, `RunPending`, `Handle`, `Store`), `MapId` and
`Record`. The device (`Start`, `GiveUp`, `Answer`) has one push under way, but one
it gave up on goes on running. The injected POST uses its idempotency key in three
steps: the key is claimed (`RunPost`), the route commits (`Handle`), and the answer is
stored under the key in a transaction of its own (`Store`). The process may die, or
the last of them fail (`StoreFails`), in between; `lost` counts the effects nobody
knows of since. A POST run again after one of these takes effect again or is refused
for what the first did, as the route has it (`Outcomes`). That the key itself keeps
its promise is `Idempotency`'s subject; this module takes from it that an unanswered
key is only taken over when its request is dead. Edits, and actions on a version,
are of one document, versioned as `etag.ts` does. Not modelled: pushes of an entry
more than 24 hours after its first, when the key has expired, and entries of two users
under one id (`MUTATION_ID_TAKEN`); an entry with a path that cannot be replayed is an
`Invalid` one.

### ChangeFeed (`lib/audit.ts`, `modules/sync`, `packages/app/remote/sync.ts`)

The server: transactions write rows and the log under ids given out early
(`Begin`, `Upsert`, `Delete`, `DeleteAtOnce`, `Commit`, `Abort`), and answer pulls
in two statements, the log (`PullChanges`, `PullSnapshot`) and then the rows
(`ReadEntities`, `ReadFails`). The device: `SignIn`, `SignOut`, `Join` another
business, `StartRun`, `StartReload`, `ApplyPage`, `ApplyCompanyPage`,
`ApplyReload`, `CloseBetween` (the app closed between two writes of a page),
`DropLate` (an answer of an earlier session), `PullLost`. `whole`, `gone` and
`mixed` mark the copies the code makes no promise about (section 6). Not modelled:
cursors of the first kind (a plain sequence), snapshots narrowed to some kinds, and
a page's rows are read at one moment.

### Outbox (`packages/app/remote`: `outbox.ts`, `save.ts`, `sync.ts`, `connectivity.ts`)

One record on the device, which saves wait for or queue: `Save`, `GiveUp`, folding
into what is queued, `AcceptOffline`, the run of the queue (`StartRun`,
`NetError`, `PushError`, `Serve`, and what the answer does: `HandleApplied`,
`HandleRetry`, `HandleConflict`, `HandleRejected`), answers that come after the app
gave up (`ServeLate`), the pull (`Pull`, `ApplyPull`), `EditByOther`, the link
(`LinkLost`, `LinkBack`), the modes (`Drain`, `Retry`), `Discard` and `Restart` (the
app closed at any step). What the record says on the device, and of which version, only
`Shows` changes; `Refuse` is what a refusal does to the queue. Three variables remember
what the properties make an exception of (section 6): `revived`, a create that was made
anew; `overtaken`, the edits behind an entry that took a newer one; `older`, that an older
copy was shown after a newer one. Not modelled: deletions, one save at a time, allocations
rebased on documents, ids of the device.

### Compliance (`modules/compliance`: `einvoice.ts`, `eway.ts`, `recovery.ts`)

One document, its e-invoice and its e-way bills, at portals that carry out a request
when it arrives, whether or not it is answered. `GenerateIrn`, `Submit`, `Invalid`,
`CallPortal`, `FinishIrn` are a user's or the job's try; `Claim`, `Reconcile` and
`ReconcileInVain` the job that takes up what is overdue; `Ask`, `Check`, `Open`, the
call, `NotOk`, `IrnCancelled`, `RecordBill` a cancel or a bill, which write down an
attempt before they call; `Recheck`, `TakeUp`, `Absent`, `FoundCancelled`,
`FoundBill`, `LookupFails` the recovery of an attempt without an answer; `Arrive` a
request the caller gave up on; `CancelBill` a bill cancelled; `CancelDocument`;
`Die`; `GrowsOverdue`, `GrowsDue`, `GrowsOld` the clock. Not modelled: 24-hour
windows, validity and extension of a bill, Part B, not applicable, dry runs.

### Subscriptions (`modules/billing`, `modules/webhooks`), OnlinePayments (`documents/outbound.ts`, `modules/webhooks`)

The gateway is a set of objects and the events it has sent, delivered any number of
times in any order. `Subscriptions`: `StartCheckout` and `RememberCheckout`,
`AskCancel`, `CallCancel` and `MarkAtEnd`; the gateway's `ChargeSub`, `HaltSub`,
`EndSub`; `Receive`, then `SubscriptionCharged`, `SubscriptionEnded` or `Fails`.
The variable `races` remembers the three races after which the plan is not what is
paid for (`overtaken`, `late`, `misplaced`); the properties hold outside them.
`OnlinePayments`: `AskForLink`, `StoreLink`, `CancelInvoice`; the customer's `Pay`
and `Refund`; `Receive`, then `PaymentLinkPaid` or `Refused`, `RefundProcessed`,
`Fails`. Not modelled: billing cycles, the operator's change of a plan, a person's
edits of a payment the gateway made, message statuses.

### Issuing (`documents/lifecycle.ts`, `lib/numbering.ts`, `settings/numbering.ts`)

A transaction reads the month's count, reads what the customer owes, locks the
series, draws, writes, and commits or rolls back. What the series numbers (`kind`:
invoices, which are cancelled but never deleted, or payments, which are deleted)
and whether it restarts and shows the period (`resets`, `shown`) are chosen in
`Init`. `EditSeries` and `SaveSeries` are the settings form: a read, and one
conditional UPDATE that may also change policy and format. A number is the pair
of the period its text shows (if it does) and the counter: two numbers have the
same text exactly when the pairs are equal.

### Documents (`modules/documents`, `modules/inventory`, `core/domain/documentStates.ts`)

Orders, deliveries, receipts, invoices, bills and returns of one item at one branch.
A request is a transaction with a read, row locks and writes that are steps:
`Create`; `ReadToConvert`, `InsertCopy`; `ReadToEdit`, `WriteEdit`; `ReadToRemove`,
`Delete`; `ReadToDecide`, `Decide`; `Overtaken` where the version or the state has
moved; `FinalizeDocument`, `FinalizeApproved`, `NoDraftLeft`, `LockSource`,
`LockItem`, `IssueUnmoved`, `Issue`; `Close`; `Cancel`, `LockItemBack`, `Reverse`;
`Rollback`; `AdjustStock`. What is posted is the ledger of the item by day.
Not modelled: create-and-issue in one request, quotes, proformas, opening
documents, transfers, several items and branches, negative stock allowed.

### Settlement (`payments`, `documents`)

A request is a transaction: it takes its row locks one by one in the code's
order (`Path`, `Lock`), decides on what it reads (`Decide`, `Refuse`), then
writes and commits (`WritePayment`, `DeletePayment`, `FinalizeDocument`,
`CancelDocument`). Between deciding and writing, everything it did not lock can
change. `SyncPaymentState` is part of each write. There is any number of accounts: a
save locks the one the payment will be on and not the one it leaves, a removal locks
none, and `drained` remembers the requests that are about to pay out of an account a
receipt has left since they read its balance. `BreakRing` is PostgreSQL
ending one of a ring of waiting transactions. Left out: currencies and exchange
rates, TDS, bills (the same code with the direction turned), branches, period lock,
the expenses and vouchers of an account's balance, If-Match.

### Filing (`modules/gst/filing.ts`, `modules/companies/handlers.ts`)

The returns of one month at a portal that may file without answering:
`SaveGstReturn`, `PortalSaves`, `WriteSave`; `Advance` (set off, or proceed),
`PortalAdvances`, `WriteAdvance`; `Unanswered`, `Refused`; `FileGstReturn`, `Track`,
`Answered`, `AnswerLost`, `MarkLost`; `Check`, `RecordFiled`; the job's
`StartRecover`, `Recover`, `Fails`; `FiledByHand`; the company's form `ReadCompany`,
`SaveCompany`, `Overtaken`. The portal is taken to refuse saves and set-offs once it
has filed. Not modelled: sessions and OTP, several GSTINs and months, GSTR-2B.

### Money, Ledger, AdvanceTax (`packages/core/src`: `lib/money.ts`, `domain/*`)

`Money` has the roundings. `Ledger` is one document from its first line to its
cancellation: `WriteLine` calculates (`lineCalc.ts`, `taxEngine.ts`) into `totals`,
`Issue` and `Cancel` decide what stands on the books; `PostDocument` (`postings.ts`,
`itc.ts`) is derived from the stored document. `AdvanceTax` is one receipt in
advance: `Allot`, `Release`, `PayBack`, `Redate`; the events and the months' tables
are derived. Not modelled: quantities, cost centres, thresholds of TDS, currencies
without hundredths, postings of payments, expenses, vouchers, stock and assets.

## 4. The runs

| Run | Instance | What it shows |
|---|---|---|
| `jobs_live` | 1 scheduled job, 2 workers, a stop, a crash, 3 claims, 2 attempts; a create and an action on it, 2 pushes, 2 faults; fair | given up only after all attempts; for every job no stop has handed back, attempt numbers fence old runs; finished is true and final; every queued job is done or given up, every change queued offline settled |
| `services` | 4 requests with one key, one of another body, at most two kinds of faults; 2 jobs, 1 worker, a stop, a crash; 2 requests and the job at the IRN and bills, 2 attempts, 2 events; 2 plans, 2 subscriptions, 3 events of the gateway; an invoice of 2, 2 links, 2 refunds, 2 deliveries; 2 requests and the job at a month's returns, a save of the company | one effect a key, answers hold, refinement of `OnceOnly`; no work queued twice; the books agree with the portals and the gateway; the plan is what is paid; filing is sound |
| `sync_push` | a create, an action on it, the finalising and an edit of a document others race; 2 pushes, 2 faults | a POST takes effect again only for an answer lost before its key had it, and is run by one push; answers are true as far as an answer was stored |
| `issue_numbers` | 4 transactions (one replayed from offline) over 2 periods, a settings save, every kind of series | numbers distinct, consecutive, an invoice's never given out again |
| `document_books` | an invoice of 2, a debit note of 1, credit notes of 2 and 1, 3 payments, 2 accounts, 2 sessions, 4 requests of all six kinds; an order and a bill, 2 new documents, 2 days, quantities up to 2, 4 requests; 31 headings with up to 2 of 13 lines; a receipt over 2 months of 2 days with 4 invoices, 4 amounts, 2 rates, 2 exchange rates, 3 uses | nothing overpaid or overcredited; what is paid out was held, unless a receipt left the account meanwhile; derived amounts agree; payments without a refund or a note among them do not wait in a ring; stock is what the documents say; issued documents stand; amounts add up |
| `device` | 3 rows of two businesses, 2 requests, 3 transactions of one write, pages of 2; one record, 3 saves, 3 events (an edit by another, a restart, a refusal, a lost answer, a retry) | the copy is the books, nothing passed over, nothing lost or sent twice, edits land |
| `progress` | pages of 1 and 2 transactions; 2 saves and an event; one request, the job and 2 events at the portals; one request, 2 links, 2 deliveries; fair | a device that keeps polling catches up and has an answer for all it sent; e-invoices settle, bills are recorded, collections booked |
| `jobs_overwrite`, `sync_order`, `outbox_overwritten`, `cancelled_live`, `plan_revived` | as small as the behaviour allows | findings (section 6) |

What a run names is often a conjunction of parts, each with its comment in the
module: `FinishedIsTrueAndFinal` (done only if handled, finished stays finished);
`AnswersHold` (`OneBodyPerKey`, `NoPhantomSuccess`, `ResponseKept`);
`RecordsAgreeWithPortals` (`FailedWasNotDone`, `LiveHereIsLiveThere`, `OneLiveBill`);
`PlanIsWhatIsPaid` (`PlanAgreesWithRow`, `CancelledStopsBilling`, `EndedIsFree`,
`PaidIsServed`); `BooksAgreeWithGateway` (`InvoiceNotOverpaid`,
`BooksFollowGateway`); `FilingIsSound` (`FiledHereIsFiledThere`, `FiledInOrder`,
`SetOffIsPostedOnce` unless `reopened`, `FiledWithBooksClosed` unless `loosened`);
`ReportsAreTrue` (`AppliedIsTrue`, `RefusalIsTrue`);
`NothingOversettled` (`NothingOverpaid`, `CreditWithinSource`); `BooksAgree`
(`PaidIsDerived`, `AdvanceIsWhatIsLeft`, `CancelledStandsAlone`,
`RefundsHaveTheirReceipt`); `GoodsAreRight` (`StockIsSound`, that is
`NothingSoldTwice` and `LedgerFollowsDocuments`, and `GoodsMoveOnce`);
`IssuedAndDecidedForGood` (`FrozenOnceIssued`, `DecidedAsRead`); `AmountsAddUp`
(`RoundOffIsRounding`, `CreditFollowsTax`, `AssetsAreWhatTheyCost`, `PriceIsKept`,
`NoteUndoes`; `SharesAddUp`, `TablesCarryWhatIsHeld`); `CopyIsTrue`
(`StaleIsStillToCome`, `SignedOutIsEmpty`); `QueueIsSound` (its type,
`NothingKeptIsNothingSent`, `QueuedIsKeptUnlessRevived`); `EditsLand`
(`SavedIsThere`, `NoSilentOverwriteWithBase`, `EditsInOrderAtFirst`);
`DeviceSettles` (`CatchesUp`, `EveryChangeIsAnswered`); `ServerSettles`
(`EInvoiceSettles`, `BillIsRecorded`, `CollectionIsBooked`).

**Bounds.** Faults, requests, stops, crashes, events and edits by others are bounded
by constants; every bound is named in its module. They were chosen so that each
hazard can happen: a lease needs two workers to be stolen, and two claims of a
job suffice to let an old run meet a new one; two jobs let one key, or one
period, be queued twice; a takeover needs the dead request and two retries, and a
key reused for another body one request more; with two faults a push can die and
its resend fail, or the answer of one create be lost twice; two accounts are one a
receipt can leave and one it can go to; two attempts are an answer lost and a second try that must wait for
it; three events of the gateway are a charge, an end and one that overtakes; two
links can both be paid, and two refunds fill a payment; two periods are one to be
late for; `Guard` is 2 so that running out of numbers happens, the plan and credit
limits 3 so that the fourth transaction meets them; four requests let two be racing
on what two others left. Amounts are 1 and 2: settling one too much is the boundary.
`MayTurn` is FALSE because with it `AdvanceIsWhatIsLeft` fails (section 6). A page
shorter than what is new is needed for a change to come in between two pages, hence
pages of 1 and 2. `Idempotency` runs with
at most two kinds of faults in a behaviour, which is what the time allows; its
theorems are for all of them together. Prices are chosen so that each line rounds
somewhere. Deadlock checking is off where requests are finite and the system may
stop. Symmetry is used where members of a set are interchangeable, and not in the
runs that check liveness.

**Fairness.** `jobs_live`: timers fire (weak fairness of polls, due times, the
end of stop()), the platform restarts a process that is down, handlers' promises
settle, and the database does not refuse the same statement for ever (strong
fairness of bury and of a claim that takes a job, since a failing poll can skip
them each time). A lease is promised to lapse only when no run is left to
renew it. Crashes and stops are bounded, as they are in any period the queue is
expected to drain. Of a push, the device retries on its timer while something
is unsettled, the server goes on with a request it has, claims age, and a
pending key whose request is dead is taken over in the end rather than always being
met too early (strong fairness). `progress`: the device signs in, polls and drains
its queue on timers and goes on with an answer it has (weak fairness; the link comes
back); a handler the server has begun ends, committed or not; a request the portal
has been sent arrives, attempts and e-invoices age; the job is run again and again,
and takes up each attempt in the end although a user may get to it first (strong
fairness of `Claim` and `TakeUp`); the gateway goes on delivering what was not
acknowledged. Nothing is promised to a device that is never answered.

## 5. The proofs

The proofs hold for all values of the constants allowed by the assumption each
module names: any number of workers, requests, transactions, faults and events.

| Theorem | Argument |
|---|---|
| `JobQueue_proofs!TypeCorrect` | `TypeOK` is inductive |
| `DeadAfterAllAttempts` | `AttemptsInv`: a row's attempts, and every attempt number a run or a poll remembers, never exceed the number of claims. Handing back lowers the row only |
| `LatestClaimDecides` (`FencedUntilHandedBack`) | from `AttemptsInv` again: a run ends a row only if its attempt number is the row's; if the row's equals the number of claims, then `att <= n <= claims = att`, and the run's claim is the latest. It holds for any stops and crashes; `jobs_overwrite` is what happens to a job after a hand-back |
| `FinishedForGood` | a row becomes done only through a run that returned, and no step moves a finished row but pruning (`RowsMove`) |
| `NeverTwice`, `Services_proofs!QueuedOnce` (`NoDuplicateWork`) | `PeriodsRecorded`: a period with a job is on record, and the record and the unique index refuse a second |
| `Services_proofs!TypeCorrect`, `OneHolderAtATime`, `ResponseIsFinal` | without expiry: a running holder implies an unanswered, fresh row and no other holder |
| `AtMostOnce` | without expiry, 5xx and death after the commit: an effect implies that its answer is stored or its holder is at the last step |
| `AnswersAlwaysHold` | no success is told that did not happen, without expiry and failures a key runs one body, a stored response stays for 24 hours |
| `OneDecision` (`ImplementsOnceOnly`) | step by step: each statement of the hook decides, tells the decision, tells to come back, or is a stutter of `OnceOnly` |
| `PortalsAgree` (`RecordsAgreeWithPortals`) | `PortalInv`, below |
| `PaidIsServed` (`PlanIsWhatIsPaid`), by way of `BillingAlways` | `PaidIInv`: events are of what happened, a run that wrote has told the company, an active row has been charged and is not over, what ended stays so, what was charged is served: outside the three races |
| `FiledReturnsAreSound` (`FilingIsSound`) | `FilingInv`: what is filed is on record only after it is filed there; GSTR-3B only after GSTR-1; a set-off is posted by the request that holds the row; the month was closed as the company was read; a save under way is the only one left (`SavesLeft`) |
| `PaidOnlineIsOnBooks` (`BooksAgreeWithGateway`) | `OnlineInv`, below |
| `PartsAreTyped` (`PartsTypeOK`) | the five invariants above contain the types of their model |
| `SyncPush_proofs!TypeCorrect`, `EveryRepeatWasLost` (`RepeatsOnlyWhatWasLost`), `EveryPostAlone` (`PostRunByOne`) | effects are counted (`EffectsAreCounted`): a POST took effect as often as its answer was lost, and once more exactly while its key holds, or its request carries, the answer; who runs it holds the key, pending, and nobody else does (`RunnerHoldsKey`). The claim row is not needed, which is why a claim taken over twice is harmless to creates. Deaths and failures are allowed between any two statements; what the key's lifetime and the five minutes promise is assumed (section 3) |
| `EveryReportIsTrue` (`ReportsAreTrue`) | effects are never undone; what is stored or told of a POST is "applied" or was said when all of its effects were lost, and from then on its key keeps it from running |
| `Issuing_proofs!TypeCorrect`, `UniqueNumbers` | `IInv`: a transaction that drew holds the row lock, and what it drew is not taken, so no second draw and no commit can come in between |
| `InvoiceNumberOnce` | an invoice is never deleted, so every number it was issued with is still taken, and a drawn number is not |
| `NumbersHaveNoGap` (`Gapless`) | every number before the counter has been given out in the period it stands in, and a draw takes the first free one |
| `Device_proofs!TypeCorrect`, `NothingPassedOver` | `IdsInOrder` (a transaction's id is above every one given out before it started) and `AllBehind`: a cursor, the device's or an answer's, is below everything still to commit |
| `CopyStaysTrue` (`CopyIsTrue`) | `FeedInv`, below |
| `OutboxIsSound` (`QueueIsSound`), `EditsLandRight` (`EditsLand`) | `BoxInv`, below |
| `Settlement_proofs!TypeCorrect`, `NothingIsOversettled` (`NothingOversettled`) | `IInv`, below: what is decided still holds when it is written, and a write keeps it |
| `BooksAlwaysAgree` (`BooksAgree`) | without `MayTurn`, with which it fails (section 6): a payment keeps its direction, refunds are of receipts, and an advance is what is left of its receipt (`TurnInv`) |
| `PaymentsNeverInARing` (`PaymentsNeverDeadlock`) | `LocksInOrder`: whoever waits for a row holds none that comes later. A row has a rank (`Depth`: a refund, its receipt, the account, then the documents in the order of `DocSeq`), so a ring would wait for ever later rows, of which there is a last |
| `WhatIsPaidWasHeld` (`PaysOutWhatItHeld`) | with any accounts, moves and turns. `Funded`: a payment decided on is covered by what its account holds, until a receipt leaves the account, which is when it is `drained`; whatever else takes money out of an account holds its lock |
| `Documents_proofs!TypeCorrect`, `IssuedForGood`, `DecisionsAreInformed` | every write raises the version, so a row that is at the version read is the row read (`AsRead`); one that locks a row is at work on it (`LockersAtWork`) |
| `StockIsRight` (`StockIsSound`, `GoodsMoveOnce`) | `GoodsInv`, below |
| `Settlement_proofs!GoodsAreAlwaysRight` (`GoodsAreRight`), `IssuedForGood` (`IssuedAndDecidedForGood`) | the same of the composition `AllSpec`, whose other half leaves the documents alone |
| `Settlement_proofs!PartsAddUp` | no paisa is lost or made by `allocate`: what shares rounded down leave over is less than one each |

**PortalInv.** It is read in three layers. *The calls*: each attempt is called for
once, by one request; what the portal answered is so; of what is half an hour old
nothing is on its way any more, so a lookup that finds nothing may give it up; one
attempt of a kind is open. *The IRN*: until it is cancelled there, one request
generates at a time and the row says so; a cancel is asked for only of an IRN that
is live here; the attempt whose call cancelled it stays open until the row says so.
*The bills*: a failed attempt is unheard of; a bill that is not recorded has its
attempt open, and a recorded one that is live is the current one; while one is live
here no other attempt is open. So two live bills are one. The variables `adopted`,
`unsure` and `overlapped` name the races after which the last two layers promise
less (section 6). TLC checked the invariant on the instance of `services` before it
was proved.

**OnlineInv.** An event is handled by one delivery at a time, which holds nothing of
what is not sent or is on record already (`UnderWay`, `HandledOnce`); a refund that
found its payment is the only one at it, and finds it as it was (`FoundByOne`); until
a payment is heard of nothing of it is on the books, and its refunds that came first
are missing (`NotYetOnBooks`); the gateway gives back no more than it got. What is on
the books is then a sum over links and refunds, of which a step changes, adds or takes
away one term.

**Settlement's IInv.** A row is written by whoever has it locked, and a session at
work holds what it minds (`Minds`, `Holding`); so what it decided (`Stands`: the
payment fits what is left of each document and of the receipt it refunds, a note fits
its source, what is cancelled has nothing settled) is as true when it writes. Of the
rows it says that `paid` is what the payments and notes come to and not above the total,
that notes do not exceed what their source charges, and that what was cancelled stands
alone (`RowsAreSound`). One step adds, changes or removes one term of each sum.

**GoodsInv.** Of the rows: what something was made from stands; what is posted follows
from the documents; what was made from a note that carried the goods posts nothing
(`MovedBefore`); a document has one onward document, unless one was written while
another was under way (`noted`). Of the requests: one that has the item locked decided
on the stock as it still is when it writes. A day's stock is a sum over the documents,
of which a step moves one term; the least of the days that follow bounds what may be
taken out.
It is proved from `Bounded` and `StartsSound`: the documents a company starts with are
issued, made from nothing, and leave no day below zero.

**FeedInv.** *The server*: a delete is the last change of its row in the log, because
ids of rows are not used twice, a row is locked until its writer commits, and a
`DELETE` asks for the version read before the transaction had its id, or is its
first write; a row that is not there was never written or has its delete in the log
(`LogIs`, `TxIs`). *An answer*: it ends no earlier than it begins
(`CutIs`); what came after a change on it comes after the whole answer (`PageIs`); a
row that changed and is not on it changes after it as well, or is dead at the snapshot's
point (`Reached`); its data are the committed ones, or the row has changed since
(`DataIs`). *A copy*, the device's or the one a reload keeps: where it is not the
committed row, a change is still to come, of what is alive (`Follows`) and of what is
not (`Buries`); and what a snapshot leaves out for dead is not in it (`Spares`),
which is where `gone` comes from: the rows a device had before its first snapshot. A
business's own history reaches at least to where the main cursor is (`Joins`), so the
two fit together. A commit adds ahead of all of it, which is `AllBehind`. TLC checked
the invariant on the instance of `device` before it was proved. It is proved from `Sane`
and `Apart`: the id of a business is not the word for all of them, a business is the
business of its own row, and a page holds a number of changes.

**BoxInv.** An entry has copies: in the queue, in the run that asks, in requests nobody
waits for any more. Copies of one entry agree on the edit, on what was on screen when it
was made and on whether it carries a version (`Same`); whichever arrives first decides,
and later ones are told what was recorded. So a save that waits has its entry in the
queue and its edit in no other (`Waiting`), and giving it up takes all of it back
(`NothingBack`); what was queued stays (`Kept`). Ids are given in order (`Numbers`).
Until one is made anew there is one create, and while it is not answered the server has
no record (`Creates`). Nothing on the device has a version ahead of the server's
(`Versions`). The version later edits are made against can be ahead of what is shown,
after the answer to an edit while another is queued; then the record of that version is
this device's own (`Bases`), and so is what an edit made against it replaces. Of two
entries the first was tried before the second is sent, so what is carried out at first is
in order (`Ordered`). It is proved of the composition that `device` checks, from a finite
bound on edits (`BoxBounds`). TLC checked the invariant on the model of the run (3
edits, 3 events) before and after it was proved.

**Sums.** `SumTheorems` proves what that needs of `SumFunctionOnSet`, the sum of the
community modules: it is a number whatever the order, and what becomes of it when a
term is changed, added, taken away, moved in or out of the set, or bounded. The fold
behind it is a recursive function read off with `CHOOSE`; that there is one is an
induction on the size of the set. The library's induction theorems take an operator as a
parameter, which the provers cannot instantiate, so the induction is stated of a set of
numbers (`NatInd`) and proved from the well-foundedness of `<`. The fold of a sequence
(`SumOf`) takes the last term first; since order makes no difference it is such a sum
(end of `Settlement_proofs`). From there `PartsAddUp`: shares rounded down fall short of the amount by less than a
paisa each (`FloorsFallShort`), so the loop of `allocate` never comes round to a part
twice, and never to the last. Weights may be negative, as `number[]` allows, as long as
their sum is not; where the sum is nought or less `allocate` gives nothing to anybody,
and the theorem says nothing.

`Services_proofs` is about the composition that `services` checks, the end of
`Settlement_proofs` about that of `document_books` and the end of `Device_proofs` about
that of `device`, for every value of their constants (`PartsAssumption`); what is proved in a module of its own (`JobQueue`, `Documents`) is
carried over by matching the steps of the instance, and what billing promises is
proved there (`BillingInv`).

**What a failed proof taught.** `NoPhantomSuccess` was first stated of a request's
own body. With expiry that is false, and takes five requests: one finds the key
expired and is about to delete it (`Forget`); the row is purged; a second claims the
key for another body; the first deletes that row; a third claims it for its own
body; the second stores its answer in the third's row, which a fourth is told
(idempotency.ts:58-62 deletes by key alone, and the response is stored by key alone).
It takes a key reused for another body after 24 hours, and the property now says so.

`NoSilentOverwriteWithBase` was first stated without `older`. The proof found no reason
why the screen would not go back, and TLC, asked for one, shows that it does: a save is
given up after it was sent, the next save waits, the answer to the first is a conflict,
which shows the other device's copy and moves the known version on
(sync.ts:429-430), and the second save, given up in turn, puts back `before`, the row
it was made on (save.ts:38-69). A third edit is then made by a person who sees the old
copy, carries the new version, and replaces without a conflict what the other saved.
Three saves and one edit by another do it. The property now names the case.

**Only model-checked.** Liveness (`EveryJobSettles`, `EveryEntrySettles`,
`DeviceSettles`, `ServerSettles`) is out of the prover's reach. So is
`AmountsAddUp`, which follows a document of any lines, and a receipt of any uses, through
filters (`SelectSeq`) and sums of sums; of it only `allocate` is proved. `AllTypeOK` is
proved of `Documents` and `Settlement` only.

## 6. What the checks found

Five runs end in a counterexample that contradicts a sentence of the code or of its
documentation; `PROJECT.json` quotes them.

- `jobs_overwrite`: a graceful stop hands back jobs and gives the attempt number
  back (worker.ts:160), so the number no longer tells an old run from a new one.
- `sync_order`: an entry to be sent again does not stop the entries that need it
  (sync/handlers.ts:171).
- `outbox_overwritten`: an edit queued behind a create on its way carries no version
  (outbox.ts:85) and replaces what another saved.
- `cancelled_live`: a pending e-invoice does not stop the cancel of its document
  (documents/handlers.ts:183), and the portal registers it.
- `plan_revived`: a charge reads the subscription before it locks the company
  (webhooks/handlers.ts:163), and revives one that ended meanwhile.

Seen while modelling, and not kept as runs. Each is a behaviour of the modules as
they are; the properties above are stated so that they do not cover it.

- *Stops.* `stop()` hands back by id only (worker.ts:161), so it also hands back
  a row another worker has claimed since: with two workers and a stop a job is taken
  under a live lease in `JobQueue`.
- *Idempotency.* The response is stored after the handler's transaction
  (idempotency.ts:111), so a death in between lets the retry run again, where
  the comment at 24-26 promises the first answer without running; and a key that
  vanishes between the insert and the read lets a request run without one (57).
  `AtMostOneEffect` is about behaviours without the first and without 5xx answers;
  the first, as it befalls a push, is the next point.
- *Sync.* A push that dies after its create was committed and before the answer is
  stored under the key leaves nothing to tell the resend by: key, id mapping
  (sync/handlers.ts:156) and result (173) are unwritten. After five minutes both claims are
  taken over and the create is run again, against README.md:187-188 ("a resend never
  applies twice"): `NeverAppliedTwice` fails after one death. Where the route notices, the
  resend is refused for what did happen. `RepeatsOnlyWhatWasLost` and `RefusalIsTrue`
  bound both by the answers that were lost (`lost`). Two pushes can both take over a
  dead push's claim (sync/handlers.ts:132: the update does not ask that `appliedAt` is
  still old); creates are saved by their key, edits by their version. And an edit that took
  effect but was not recorded meets its own version when sent again and is
  recorded as a conflict (173); it has no key. `RefusalIsTrue` and `PostRunByOne`
  are therefore about POSTs.
- *Limits.* The plan's monthly limit (lifecycle.ts:388) and the customer's credit
  limit (291) are read without a lock, so two finalisations at once both pass.
- *Numbers.* A deleted payment's number can be given out again in a past period
  (numbering.ts:110), where docs/api/README.md:29 says "a number is never reused":
  `InvoiceNumbersNeverReused` is about invoices.
- *Payments.* A receipt with refunds may be saved as a payment made: the check on
  refunds (payments/engine.ts:263, comment 118) is on a receipt's advance only, and
  with `MayTurn = TRUE` `AdvanceIsWhatIsLeft` fails. A refund locks the account and then
  its receipt, a save of that receipt the receipt and then the account (252): they can
  wait for each other until PostgreSQL ends one. `PaymentsNeverDeadlock` is about rings
  without a refund or a note. A receipt that is removed, or saved under another account,
  leaves an account that is not locked for it (engine.ts:145-150, 362-380), so a payment
  out of it at that moment can pay what it no longer holds, against 222 ("No account pays
  out more than it holds"): `PaysOutWhatItHolds` fails on the instance of `document_books`,
  and `PaysOutWhatItHeld` makes the exception (`drained`).
- *Notes.* A debit note can be cancelled after credit was given on its strength
  (`assertNoLiveReturns`, lifecycle.ts:460, looks for notes against the debit
  note itself). `CreditWithinSource` counts cancelled debit notes.
- *The device's copy.* Joining a business downloads it only at the next snapshot if
  changes of it are in the same pull (sync.ts:456, 461-470; `KnownIsWhole` fails,
  against sync.ts:448-449 and docs 15-offline-and-sync.md). A reload does not ask
  whether the session is still the one it began in (against sync.ts:27;
  `LeavesNothingBehind` fails), overlaps runs, and can move the cursor back. A
  snapshot over a copy that is not empty leaves deleted rows in it (`gone`). An
  attachment is deleted without its version (catalog/handlers.ts:359-363).
- *The outbox.* A refused create that is edited is sent again with the newest body
  while an older edit is still queued (outbox.ts:82-83), and after a "retry" a later
  entry goes first (sync.ts:269-280 against 264-268): `EditsInOrder` fails.
  An update that was refused and retried keeps its place and counts as not sent
  (retry.ts:11-20), so the next edit folds into it (outbox.ts:90) although an older
  edit is queued behind: the server carries out the new edit and then the old one, and
  the new one is lost on every device. `overtaken` is the older edit then. An edit
  behind a create that was given up after it was sent may be carried out after a newer
  one, and a record made anew after its create was discarded may be answered with
  the copy the first create left (`revived`).
  What was revived can be dropped with the rest (`QueuedIsKept` fails, against
  save.ts:18-19). A folded edit is "saved" at once. A row that is stale after an
  entry was rolled back is passed over by the pull; a rollback to `before` after a
  conflict leaves versions ahead (`older`; the end of section 5 tells how it overwrites).
- *Portals.* An e-invoice generated again after "duplicate IRN" (2150) adopts one
  that was cancelled as live (`adopted`). A second bill can be asked for after
  checks that an earlier one has overtaken (`overlapped`). After a day of failed lookups an attempt is
  given up although the portal may hold it (`unsure`). A cancelled bill whose answer
  is lost is not recovered, and attempts older than a day are not looked at.
- *Subscriptions.* `races` remembers three: a checkout that writes what it had
  read over a row that became active meanwhile (`overtaken`), a charge handled after
  its subscription's end was (`late`, which `plan_revived` shows), and a cancellation
  or an end written to a row that is of another subscription by then (`misplaced`). An
  upgrade does not cancel the old subscription at the gateway; a late charge clears a
  cancellation at the period's end; a halt and a charge out of order leave the
  company past due.
- *Online payments.* A refund delivered before its payment is recorded as handled
  and lost (`lost`). Two requests at once make two links; a cancelled invoice's link
  can still be paid, and is booked as an advance. A payment dated in a closed period
  is never booked.
- *Documents.* Two conversions at once carry an order forward twice
  (documents/handlers.ts:565-566, against the comment at 564 and
  documentStates.ts:175-178), and a delivery and an invoice can both move the goods.
  A count checks the total only (inventory/handlers.ts:192-195), so a day in the past
  can go below zero (`ShortCount`). An approval survives later edits, and approving
  sends no If-Match; a document an approver issues while it is pending stays so and
  can be rejected. Finalising a return (source, then item) and cancelling another of
  the same source (item, then source) can wait for each other until PostgreSQL ends
  one.
- *Filing.* A save, set-off or proceed that read before the filing writes over the
  filed row (filing.ts:215, 237, 249 are unconditional), after which filing again
  posts a second set-off, against 86-87 (`reopened`). The month is closed by the
  company as it was read: it can stay open if the owner reopened it, move a later
  lock date back, and a company saved meanwhile reopens it unseen (`loosened`,
  against 76-80). A process that dies between the portal's filing and the record
  leaves "submitted", which only filing again settles. A document whose request
  began earlier can land in a month just closed.
- *Amounts.* A capital-goods line with tax in its price counts with its tax as an
  asset and takes purchases below zero (postings.ts:129-131, against 128). 100.00
  with 18% in it comes to 100.01. Credit is per line and tax per rate, and what is
  left goes to round-off. An import bill with one reverse-charge line claims credit
  of a tax nobody charged on another (itc.ts:40-41; also gstr3b.ts:120). A company
  under VAT posts all of it to round-off (postings.ts:36, 60-70;
  `RoundOffUnderARupee` fails with regime "VAT", against integrity.ts:34). A note in
  a foreign currency can leave a paisa, since `Math.round` is not symmetric.
- *Advances.* A receipt dated past its refund leaves the refund out of its month
  (advanceTax.ts:53; payments/engine.ts:257). The halves of CGST and SGST that come
  back need not add up to the halves taken. Months past are worked out again from the
  receipt as it is now.

Seen while reading what is not modelled yet:

- Two owners who leave, or demote each other, at once leave an account without one
  (users/handlers.ts:406 is outside its transaction, against 407 "The account needs at
  least one active owner"; deleteAccount.ts:65-72). Leaving cancels only
  subscriptions that are active, not those past due (deleteAccount.ts:80).
- A closed account that an operator reactivates keeps its purge date
  (platform/handlers.ts:192-202) and is purged (purge.ts:108-118).
- Two tabs at one refresh: a tab that is granted the lock reads the tokens it has in
  memory, which another tab's write reaches by an event later; it spends the old
  token, is refused, and signs every tab out (api-client/src/index.ts).
- Recurring documents re-check under `FOR UPDATE SKIP LOCKED` and per date; the
  expense series has no such check after an edit (expenses/handlers.ts:115, 140).
- Payment requests are decided under a row lock, in the payment's transaction: sound.

## 7. Not modelled

`PROJECT.json` gives a reason for each component. Reports, dashboards and search only
read; exports, OCR, attachments, integrations and the assistant are calls to other
services whose jobs are rows of `JobQueue`; screens keep no shared state. Most of the
repository's lines are screens, seeds, the schema, the generated contract and
reports, which is why the map covers a small share of all lines. Payment
requests, recurring documents, banking and expenses, companies and users, account
deletion and sessions have state of their own and are planned (section 2).

What was left out of the modules that exist is named with each of them in section 3.
A few steps stand for more than one of the code:

- `Outbox!Runs` carries out an entry and records its result at once. What comes of a
  death in between is `SyncPush`'s subject; the device meets it as an answer that was
  lost.
- `Outbox!Refuse` takes the refused save off the queue at once, where it stands as
  failed until the save hears of it (save.ts:111): what is behind it waits that moment
  longer. `Outbox!Discard` drops and reloads in one step, with the run idle, where the
  reload waits for the run (session.ts:207).
- `JobQueue!StopHandsBack` reads what is left and hands it back in one step
  (worker.ts:156-161). A row that ended in between is guarded by its status; one that
  was taken over in between is handed back here as well, after its lease has lapsed.
- `JobQueue!Prune` leaves out that records of schedules are deleted after 90 days
  (registry.ts:30), long after a period's work can be queued again.
- `Filing` is about a month that has credit to set off; of one that has none nothing is
  posted (filing.ts:111, 123).

Everywhere: a request's input is a member of a small set; texts, layout and logging
are left out; PostgreSQL does what it documents of row locks, unique indexes and READ
COMMITTED; portals and the gateway carry out a request at most once per call.
