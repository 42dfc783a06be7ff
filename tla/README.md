# Verification of the OTS CRM credit of hours and its payments

OTS CRM (`src/app`) is a SvelteKit application over libSQL/Turso, Redis and
BullMQ. It manages the clients of an agency: tasks, invoices, hosting, payments,
accounting (Keez), imports and notifications. Its own core logic, and the part
where money can be lost without anybody noticing, is the **credit of hours**:
clients buy minutes, tasks consume them, what exceeds the credit is invoiced in
whole hours, and almost every step can be undone. They buy hours by card, and
what Stripe reports of a payment arrives repeated, late and out of order. Around
it stand two machines that retry what failed: the synchronisation with Keez and
the log of e-mails. This project models all of these in TLA+, checks them with
TLC and proves their central invariants with TLAPS.

Paths below are relative to `src/app/src/lib/server` unless they say otherwise.

## 1. Inventory

| part | state it keeps | operations | what is hard about it |
|---|---|---|---|
| Hour credit of tasks (`task-credit.ts`, `../logic/hour-credits.ts`) | `client.hour_credit_minutes` (a cache), `client_hour_ledger`, credit columns of `task`, monthly overage drafts and their lines | settle a Done task, bill its overage, undo on reopen, regenerate a lost draft, credit the surplus of a legacy trace | five or more database calls per request, other requests between them; crash and lost answer between any two; a draft shared by all tasks of a client |
| Task commands (`../remotes/tasks.remote.ts`) | `task.status`, hours, client | update, drag on the board, delete, subtasks, recurring fields | the status write and its credit effect are separate calls; the board sends the old status |
| Invoice commands (`../remotes/invoices.remote.ts`) | `invoice`, lines | create, edit, send, delete, mark paid | a check before hooks and mails, then the write |
| Hour ledger (`hour-credits.ts`) | ledger, cached balance | credit a paid invoice or order, reverse a cancelled one, corrections, drift and reconciliation | unique indexes instead of locks; absolute write of a balance read earlier |
| Expiry of lots (`../logic/hour-credit-expiry.ts`, daily job) | `expire` rows per lot, the tenant's rule | allocation of what was spent to the lots, nearest term first; expiry; reminders | recomputed every day from rows that change meanwhile, its own among them |
| Orders of hours paid by card (`../remotes/public-hours.remote.ts`, `stripe/hours-purchase.ts`, `stripe/post-payment/emit-keez-hours-invoice.ts`) | `service_hours_order`, the intent at Stripe, invoices, ledger | order, mark paid, credit, invoice, decline, refund | payment first, then four calls any of which may be the last; events in any order |
| Orders of hours created by staff (`hour-credit-orders.ts`, `HcAddHoursModal.svelte`) | ledger, invoices, the form and its request key | quote, credit, invoice, push, mail, list of credits without an invoice | credit first and invoice later; answers that get lost; the list and the order issue the same invoice |
| Low-credit alert (`hour-credit-notifications.ts`, `hour-credit-reserved.ts`) | `client.low_credit_notified_at` | notify, rearm | read, then write, concurrently |
| Claim of Stripe events (`routes/api/stripe/webhook`, the debug route, the nightly cleanup) | `processed_stripe_event` | claim, dispatch, complete or fail, take over, replay, delete | repeated and concurrent deliveries; a process that dies under its claim |
| Stripe event handlers (`stripe/`) | `post_payment_step`, invoices, accounts | checkout, renewals, refunds, disputes | reordered events; several steps per event |
| Keez accounting (`plugins/keez/`) | `invoice.keez_status`, failure counter and degraded flag of the integration, queue of retries, lock in memory | push, validate, synchronise, retry, degrade, notify | four callers share the counter, the queue and the lock; calls whose answer was lost |
| WHMCS bridge (`whmcs/`) | imported invoices, push queue | import, push, circuit breaker | failures classified into retry, stop, alert |
| Circuit breaker, rate limiter, cache | process memory, Redis | small state machines | answers of calls that started in an earlier state |
| Email log and retry (`email.ts`, `email-logger.ts`, `scheduler/tasks/email-retry.ts`, `../remotes/email-logs.remote.ts`) | `email_log`, `email_suppression` | log, send, retry by the job, replay by the panel, recover after a restart, give up | a mail sent whose log was not; three who replay one row |
| Scheduler | BullMQ | job registration | third-party queue |
| WhatsApp, Telegram | sessions, outbox | connect, send | long-lived sockets of a third-party library |
| Hosting, DirectAdmin | accounts | provision, suspend, renew | sequences of external calls |
| Recurring invoices and tasks | templates | generate | at most once per period |
| Banking, ANAF SPV, exchange rates | imported rows | import, match | parsing |
| Advertising, rank tracking, PageSpeed, WordPress, Search Console | reports | fetch, evaluate | external APIs |
| Access and sessions, content, contracts, reports, mail import | — | request-scoped checks, generation of documents | formatting and I/O |
| User interface | — | pages that call the above | presentation |

How the modelled parts meet: a status change in a task command calls
`applyTaskStatusCreditEffects`, which calls `settleTaskCredit` or
`reverseTaskCredit`; a settlement writes the ledger and the cached balance and
then builds a line on the client's monthly draft, an ordinary invoice that the
invoice commands send, push to Keez and delete; `assertTaskReopenAllowed` looks
at those invoices before a task may be reopened; deleting an invoice detaches its
tasks, which puts them on the list of unbilled overages, from which staff
regenerate a draft. There is no lock: requests are kept apart by conditional
updates (`WHERE credit_settled_at IS NULL`, `... = cycle`), by unique indexes and
by SQLite's single writer. The Stripe webhook claims each event by inserting its
row and dispatches it; `handleHoursPurchaseSucceeded` marks the order paid, calls
`creditPaidHoursOrder`, which writes the same ledger, and `emitKeezHoursInvoice`,
which links the order to an invoice. Staff call `creditPaidHoursOrder` for orders
that were not credited; the invoice hooks and staff call `creditPaidInvoice`,
which that link excludes. Orders that staff enter go through
`createHourCreditOrder`, which writes the ledger under the request key of the
form and then issues an invoice whose id derives from it. The daily expiry job
reads the whole ledger of a client and appends to it. Jobs run one at a time on
the scheduler's worker; users' requests run beside them.

What makes the core correct: the cached balance is the sum of the ledger; a
minute is spent once; a settlement, its surplus and their withdrawal go
together; an overage is billed exactly once or is on the list; what was emitted
fiscally does not change under the client; a reopen restores exactly what its
Done took; minutes keep their term and expire once; an event Stripe considers
delivered was handled; a payment, and an order of staff, is credited and invoiced
once, and a refund undoes it. What makes the retry machines correct: a failure is
either being retried or somebody was told; a letter that was logged is sent or
given up, and not lost; what was completed is not done again.

The complete list of hazards, each at its line, is in `PROJECT.json`.

## 2. Modules

| module | what it is |
|---|---|
| `HourCreditMath` | `ceilToStep`, `invoicedOverageMinutes`, `splitTaskSettlement` as operators over any step and block |
| `TaskCredit` | the component: tables as variables, one action per database call of every request that moves task credit, staff on invoices, months, faults; its properties and its inductive invariant |
| `HourCreditPromise` | the abstract specification: finishing a task charges it once, reopening takes everything back, at once |
| `TaskCreditRefinement` | the mapping under which `TaskCredit` implements `HourCreditPromise` |
| `MCTaskCredit` | instances for TLC: two tasks, credits, actual hours, legacy traces, symmetry of requests |
| `HourCreditMathProofs`, `TaskCreditProofs` | the theorems |
| `StripeEvents` | the claim protocol of the webhook route over `processed_stripe_event`, with replay, cleanup and fairness |
| `EventDelivery` | what a handler may rely on: at least one delivery, no order, no exclusion. `StripeEvents` implements it |
| `HoursPurchase` | an order paid by card, built on `EventDelivery`: order form, handlers, refund, staff |
| `MCHoursPurchase` | its instances for TLC |
| `StripeEventsProofs`, `HoursPurchaseProofs` | the theorems |
| `LedgerLots` | `hour-credit-expiry.ts` as operators over a ledger: batches, what is left of each, what is due, the rows that expire it |
| `HourLedger` | one client's ledger over days: credits, adjustments, settlement and reopening, corrections, withdrawal of a cancelled invoice, the expiry job |
| `MCHourLedger` | its instances for TLC |
| `HourLedgerProofs` | the theorems |
| `HourOrders`, `HourOrdersProofs` | orders of hours entered by staff, from the form to the mailed invoice, and the theorems |
| `KeezSync`, `KeezSyncProofs` | the synchronisation with Keez and its retries, and the theorems |
| `EmailOutbox`, `EmailOutboxProofs` | the log of e-mails and its replays, and the theorems |

### `TaskCredit` and the code

A worker `w` is one HTTP request. `req[w].pc` says which call is next and the
other fields are the local variables the code carries over the `await`. A
transaction (`BEGIN IMMEDIATE`) is one action, because SQLite has one writer.

| action | code |
|---|---|
| `ReadStatus`, `WriteStatus` | `updateTask`, `updateTaskStatus`, `updateTaskPosition`: read (or be told) the old status, check the reopen, write, choose the effect |
| `EditTask`, `SettleNow` | hours or client of a task; `settleDoneTaskNow` |
| `ReadTask`, `Consume` | `settleTaskCredit`: the read with its early returns and `now`; the transaction with claim, balance and rows |
| `FindDraft`, `CreateDraft`, `AddLine`, `Attach`, `Retract` | `billOverage`, `addOverageLine`, `findOrCreateOverageDraft`, `removeTaskOverageLines` |
| `ReadSettlement`, `Undo` | `reverseTaskCredit` with `reverseCycleOverageSurplus` |
| `Regenerate`, `Relink`, `CreditLegacySurplus` | `regenerateOverageDraft`, `creditLegacyOverageSurplus` |
| `SendInvoice`, `PushToKeez`, `CheckDraft`, `DeleteInvoice` | invoice commands on an overage draft |
| `NextMonth`, `Crash` | the calendar; a request that stops between two calls |

`settledAt` and the rows' `cycle` are timestamps in the code. They are stamps
`1, 2, ...` here, taken in the order of the reads (`now` precedes the
transaction), each used once: two settlements in the same millisecond are
outside the model. `cycle` of a reversal is the settlement undone.

`Env` names the surroundings. The code's promises need different disciplines of
the staff and of the network, and the runs say which:

| member of `Env` | what may happen with it |
|---|---|
| `overlap` | requests on one task are in flight together (double click, two tabs, two people) |
| `invoicing` | an invoice is sent, pushed or deleted while a request is in flight |
| `crash` | a request stops between two calls: restart, thrown error, or a commit whose answer was lost and whose retry failed |
| `lostack` | the attach UPDATE commits, is reported busy and runs again (`withTursoBusyRetry`) |
| `stalecard` | the board sends an outdated old status |
| `move` | staff move a task to another client |

Abstractions, beyond leaving out wording and prices: the two reads of
`assertTaskReopenAllowed` are one step; `sendInvoice` is its status write,
without the mail before it; `updateTaskPosition` is `ReadStatus` whose `old` is
free (`stalecard`), the drag within a column being `old = new`; the rows of
`client_hour_ledger` are those of tasks, so the reversal sums, which in the code
also look for `expire` and `correction` rows of the surplus lot, find none
(`HourLedger` has those rows, and a settlement there is one step); the
three attempts of the claim reduce to the first, because inside a transaction no
other writer intervenes.

### `StripeEvents` and the code

A worker is a request. Its actions are the database calls of `POST` in
`routes/api/stripe/webhook/+server.ts`:

| action | code |
|---|---|
| `Resolve` | whose event it is: the metadata of its object, else the client of its Stripe customer, else the invoice of its payment intent; found nowhere, it is answered 200 (`untenanted`) without a row or a handler |
| `Insert`, `InsertFails` | the claiming INSERT, and its `catch`, which takes every error alike |
| `Lookup` | the SELECT and the four ways out: absent (200, `race`), completed (200), in flight (409), failed or stuck |
| `TakeOver` | the unconditional UPDATE to `processing` |
| `Dispatch` | `dispatchStripeEvent`, in one step: returned or thrown |
| `Complete`, `CompleteFails`, `Fail` | the UPDATEs to `completed` and `failed`, and what happens when they fail |
| `Abort` | a missing secret or a bad signature (400), a call outside the `try` that throws |
| `Replay` | `?action=replay` of the debug route: the row must be there, in any status |
| `Cleanup`, `Age` | `processStripeEventCleanup`; ten minutes and an hour pass |
| `Send`, `Deliver`, `Crash` | Stripe and the operating system |

`age` keeps of `startedAt` only what the code compares it with. The answer of a
request may be lost or late, so a 200 may or may not reach Stripe. `named` are
the events whose object carries `crmTenantId`, which is settled when Stripe
creates them. For the others the look-ups read tables that anybody changes, so
`Resolve` may find a tenant at one delivery and none at the next. `outrun`,
`raced` and `untenanted` are history: they name the deliveries for which the code
promises less. A missing secret and a bad signature are counted as mishaps: that
a tenant configures its secret is assumed like the end of an outage.

### `HoursPurchase` and the code

`HoursPurchase` extends `EventDelivery`, so its handlers run under every
delivery that module allows, which is every one `StripeEvents` can produce: that
is what `ImplementsDelivery` is for. `work[w].pc` is the next call of a request.

| action | code |
|---|---|
| `CreateOrder`, `CreateIntent` | `createHoursOrder`: the row, then the intent with its id stored before the customer gets the secret |
| `CardDeclined`, `Pay`, `Refund` | the customer and Stripe; a partial refund may precede the full one |
| `MarkFailed` | `handleHoursPurchaseFailed` |
| `ReadOrder`, `MarkPaid`, `CheckOrder`, `Credit`, `FindInvoice`, `EmitInvoice` | `handleHoursPurchaseSucceeded` with `creditPaidHoursOrder` and `emitKeezHoursInvoice`; after `MarkPaid` every error is caught and the handler goes on |
| `RefundOrder`, `ReadInvoice`, `WriteInvoice` | `handleChargeRefunded` |
| `HandlerThrows`, `Crash` | an exception nothing catches; the process is killed |
| `ReplayEvent` | the replay of an event by an administrator |
| `CreditOrderNow`, `CreditInvoice` | `creditHoursOrderNow`; `creditPaidInvoice` |
| `Supply` | a reference rate or an exchange rate appears |

Abstractions: the checks of `creditPaidHoursOrder` and those of
`creditPaidInvoice` are one read each; `creditPaidInvoice` is atomic, and its
client is one whose invoices feed the credit; `mismatched` orders are those whose
intent is over another amount, chosen at the start; an event of a kind the
instance leaves out is not sent. Mails, the magic link, prices and the push to
Keez write nothing the properties look at.

### `HourLedger`, `LedgerLots` and the code

A ledger is a sequence; a row's position is its id and its time. A day is the
unit of terms. `req[w]` is what a request read before its transaction.

| action | code |
|---|---|
| `ReadPaidInvoice`, `CreditInvoice` | `creditPaidInvoice`: checks and term, then `applyLedgerEntry` |
| `AdjustHourCredit` | a manual plus (with a term) or minus (without) |
| `Settle` | the ledger transaction of `settleTaskCredit` |
| `ReadSettlement`, `Undo` | `reverseTaskCredit`: the settlement read outside, claimed inside; consumption and surplus net of corrections and expiry |
| `CheckCorrection`, `WriteCorrection` | `assertLedgerRowCorrectable`, which only reads, and the write of the debug endpoint after it |
| `CancelInvoice`, `ReadCancelled`, `Withdraw` | `reverseCancelledInvoiceCredit` |
| `StartJob`, `ExpireClient` | `processHourCreditExpiry`: rule and time first, then one transaction per client |
| `UpdateRules`, `NextDay`, `Fail` | `nextExpiryEnabledAt`; the calendar; a request that ends without its write |

`LedgerLots` follows `hour-credit-expiry.ts` operator by operator (`Remaining` is
`remainingBatches`, `Due` is `expiredBatches`, `SpentBefore` is
`byConsumptionOrder`). `Violates` is the table's unique indexes. `Env` names what
the code leaves to chance: `crossed` (what a correction or withdrawal checked
changes before it writes), `late` (an invoice cancelled after its credit
expired), `toggle` (expiry switched off and on). Conversion of money to minutes,
reminders and reports are left out; so is `reconcileHourCredit`, which nothing
calls.

### `HourOrders` and the code

| action | code |
|---|---|
| `Submit`, `LoseAnswer`, `Edit`, `Reopen` | `HcAddHoursModal.svelte`: the request key is made when the form is, and renewed after a success only |
| `Credit`, `CreditFails` | `createHourCreditOrder`: the ledger row under the key; `addHoursToClient` turns an error into an answer |
| `Rate`, `InsertInvoice`, `Push`, `Mail`, `Answer` | `issueHourCreditInvoice`: exchange rate, INSERT under the id of the key, Keez, e-mail; every failure after the credit is a warning |
| `Listed`, `Reissue` | `listUninvoicedHourCredits`, `reissueHourCreditInvoice` |
| `BnrSync`, `Crash` | the daily rates; a restart, which ends every call |

An order is what the operator means, a key what the form carries: one key may
carry two orders (`reused`) and the properties tell them apart. Purchases that
were reversed, which the list filters out, prices and VAT are left out.

### `KeezSync` and the code

| action | code |
|---|---|
| `StartCron`, `StartRetry`, `LoadRetry` | `processKeezInvoiceSync`, `processKeezInvoiceSyncRetry` |
| `SyncInvoicesFromKeez`, `CancelPendingKeezRetry`, `SyncKeezIfStale` | the button of the settings page, which cancels queued retries first; the bank page |
| `Skip`, `Lock`, `LoadIntegration`, `SyncSucceeds`, `ClearNotifications`, `SyncFails` | `syncKeezInvoicesForTenant` with `activeSyncs` |
| `ReadCount`, `WriteCount`, `EnqueueRetry`, `EnqueueFails`, `NotifyAdmins` | `handleKeezSyncFailure`, `decideFailureAction`, `enqueueKeezRetry` |
| `DisconnectKeez`, `ConnectKeez`, `KeezChanges`, `Restart` | administrators, Keez, the operating system and the queue |

What a synchronisation imports is left out: it succeeds or throws, and the error
is transient, permanent or undecipherable credentials. The push and the
validation of single invoices are not here. `clean` is history: no two calls have
overlapped, nothing failed in the handler, nothing was killed or disconnected
since the last success that left nothing queued.

### `EmailOutbox` and the code

| action | code |
|---|---|
| `Send`, `LogAttempt`, `LogAttemptFails` | `sendWithPersistence`, `logEmailAttempt` |
| `Processing`, `CheckFails` | suppression, transporter and template; `logEmailProcessing` |
| `Accept`, `Refuse`, `Bounce`, `Report` | `sendMailWithRetry`; `logEmailSuccess`, `logEmailFailure`, `suppressEmail` |
| `StartJob`, `MarkRetrying`, `ReturnToJob` | `processEmailRetry` |
| `RetryEmailLog`, `ReturnToPanel`; `RetryAllFailedEmails`, `DeleteAndSend`, `ReturnToBulk` | the panel, one row and all rows |
| `Restart`, `RecoverInterruptedRetries`, `Age` | the process; the recovery at its start; 72 hours |

A letter is a send function with its payload, to an address of its own. The job
hands its row on to the send; a replay from the panel is a new send with a row of
its own. Not modelled: deletion of old and of selected rows, rows of types
without a payload, updates of the log that fail, and a restart between
`logEmailFailure` and `suppressEmail`, which are one step.

## 3. Runs

| run | instance | shows |
|---|---|---|
| `turns` | 2 tasks, 1 client, 2 requests, `Env = {crash}`, a legacy trace | with requests on one task taking turns, a crash anywhere loses no overage, bills none twice, leaves emitted invoices as they were, refunds what was charged, and implements the abstract credit; two settlements on one balance spend no minute twice |
| `free` | 1 task, 2 requests, everything in `Env` but `move` | cache = ledger, settlement and surplus in step, under every interleaving and fault |
| `moved` | 2 clients, 1 request, moves and stale cards, two months, two invoices, three lines | a task that changes client between Done and reopen keeps its overage on one invoice or on the list, one line for each settlement, and loses its surplus with its settlement |
| `claims` | one event, with its tenant in the metadata or without, 3 requests, 2 mishaps | the first claim is exclusive while nothing outlives it; 200 means handled, or the lost race, or an event without a tenant that is found to be nobody's; every other event is handled in the end (liveness); handlers see what `EventDelivery` promises |
| `purchase` | one order, every kind of event, 2 requests, 2 invoices, payments replayed | the order ends paid or refunded; one invoice and one credit if no two handlers of the payment run together; late declines are ignored; a refund in turn reaches order and invoice |
| `ledger` | one client, task, invoice and request; terms of 1 and 2 days; three days, five rows; `Env = {}` | the batches add up to the balance, the batch spent first gives its minutes once, a reopen restores exactly what its Done took, minutes keep their term, expiry never overdraws, a second run of the job expires nothing more, and what is due does expire (liveness) |
| `orders` | 2 orders, 2 requests, 1 employee at the list, 2 mishaps | an order is credited once, before its invoice, which is pushed and mailed once at most; every credit is invoiced in the end (liveness) |
| `keez` | worker and one user, 3 failures to degrade, 1 restart, everything in `Env` | undisturbed calls leave no ghost and tell of a degraded integration; once Keez answers, the failures are forgotten whatever happened before (liveness) |
| `outbox` | 1 letter, 1 request beside the job, 3 attempts, 2 tries of a send, 3 rows, 2 refusals, 1 mishap | a logged letter does not vanish, a completed row is not sent again, every letter is delivered or given up (liveness) |
| `uninvoiced`, `expired_twice`, `attempts` | one property each | disagreements between the code and what it says of itself, below |

The type invariants of `TaskCredit`, `StripeEvents`, `HoursPurchase`,
`HourOrders`, `KeezSync` and `EmailOutbox` are proved (section 4) and no run
repeats them; `ledger` checks that of `HourLedger`.

Bounds of the credit. `MaxStamp` is the last stamp of a settlement, the first
being that of the legacy trace; `MaxInvoices` and `MaxLines` are drafts and lines
ever created, `MaxMonth` the months. Three stamps are the legacy trace and two
settlements: a Done, a reopen and a Done, which is what a mistaken cycle needs, or
a Done of each task; `moved` has one more. Two invoices are a draft that leaves
and its successor. Actual hours are 70 (and 90) minutes against credits of
120 and 30, with the step 15 and the block 60: one task within the credit, one
that exceeds it, a surplus that is not zero. In `turns` 120 minutes are one whole
settlement and part of another, so two requests compete for the rest
(`NeverOverdraws`). They are too many for a balance below zero, which takes a
surplus that another task has spent before the reopen withdraws it, hence a
credit shorter than one settlement: with both tasks then exceeding it, the
instance outgrows a regular run. One of 60 minutes with all of `Env` but `move`
and one line (5.4 million states) shows no violation either, and
`CreditIsNotOverdrawn` covers every credit (section 4). In `ledger` a manual minus
spends a surplus before its withdrawal, and a settlement may follow
(`BatchesAreBalance`).
Legacy traces of exact minutes come from before 17 Sep 2026. A request at a
bound waits; `CHECK_DEADLOCK FALSE` is set where the instance runs out of
stamps, of orders and events to send, or of letters, or where all have been
settled. Requests are symmetric; tasks and clients are not where a constant
tells them apart.

For events, two mishaps are a process killed under a claim and a failure of the
request that took over; three requests are a claim, its takeover and a third that
meets either. Two invoices of one order are what an overlap produces; two
requests overlap, and a third finds what one of them left as the second would.
Orders do not interact except through the table of invoices, so one is enough.

For the ledger, the step is 1 and the block 2 minutes: an invoice buys 2, a task
takes 1 or 3, a correction and an adjustment move 1, so that a task is covered,
partly covered with a surplus, or leaves a rest. `MaxRows` stops requests at five
rows (the action that reaches it may write three), enough for a credit, its
expiry, a reopening that gives minutes back to it and their second expiry; the
job is not bounded. `expired_twice` needs eight rows, two tasks and two batches of
one minute. Three days are a term that passes and a day after it. Orders
of staff: the second order is what a changed form needs, the second request one
that overtakes a lost answer; two mishaps are a crash and a lost acknowledgement.
Keez: three failures stand for the four of the code (`MAX_CONSECUTIVE_FAILURES`):
the chain has two hops instead of three, a first one and one that follows another;
the theorems hold for any number. Two callers are enough for an overlap, since the
lock has one holder. E-mail: three rows are a letter, its replay and a replay of
the replay; attempts and tries are not scaled down below what tells them apart.

Fairness. `TaskCredit` assumes none and states only safety: the code has no retry
of its own that would finish a request that stopped, and the list of unbilled
overages is emptied by staff, whom nothing obliges. `StripeEvents` assumes that a
request runs on (weak), that time passes (weak), and that Stripe keeps delivering
what it has no 200 for (strong, because requests come and go in between). Stripe
does so for three days; the assumption is that no outage lasts as long. Neither
the cleanup, nor replays, nor the sending of events are fair. `uninvoiced` also
grants staff who replay payments and rates that arrive, which makes its
counterexample stronger: they do not help.

`HourLedger`: the scheduler starts the daily job and a run of it ends (weak).
`HourOrders`: a call goes on and the rates are synchronised (weak), and staff
work off the list of credits without an invoice (strong, because another of them
may be busy with the same one). The last is the operator's part and not the
code's: `EveryCreditIsInvoiced` says that the list never loses a credit and that
working it off succeeds. `KeezSync`: calls go on (weak) and the daily job gets its
turn (strong, because the queue is first in, first out, while retry jobs come in
between); `Recovers` speaks of runs in which Keez answers and stays connected
from some point on. `EmailOutbox`: calls, the job and the recovery of a started
process go on (weak); refusals are bounded by `MaxRefusals`.

### Where the code disagrees with its documentation

| run | what happens |
|---|---|
| `uninvoiced` | If emitting the invoice is skipped or fails, or the process dies before it, the order is `paid` already; a redelivery and a replay both skip a paid order, and nothing else emits its invoice. |
| `expired_twice` | An `expire` row is consumption and is allocated anew every day, to the batch with the nearest term. A task has spent the surplus of another task's invoiced hour, and a later batch has expired; when the first task is reopened, that expiry is charged to the surplus, and what came back is booked as a second expiry of the later batch. Reopening the other task then finds no expiry of its surplus and withdraws it in full: nothing is done, and the client owes minutes. |
| `attempts` | The job raises a row's attempts before it replays it, and the send sets them back to 1: the three attempts are never used up and only the 72 hours end the retries. |

`expired_twice` came out of the proofs: that every batch gives its minutes once
has no inductive strengthening, because with two batches it is false. It holds of
the batch spent first (`FirstBatchGivesOnce`), which is what the code's netting of
expiries can rely on. The same allocation breaks `JobIsIdempotent` once expiry may
be switched off and on again (`toggle`): a batch whose term passed meanwhile is
exempt and comes first, the expiry of a later batch is charged to it, and the
later one is due again on the next run.

The same models, with more allowed to happen than the runs allow, violate further
promises. They are consequences of running requests together, of a lost answer or
of a stale card, and are listed to say why the runs exclude them.

| where | property violated | how |
|---|---|---|
| `TaskCredit`, `overlap` | `OverageAccountedFor` | regenerating an overage whose first billing is in flight relinks its line; the billing sees the link, concludes that the task changed, and removes the line and the draft |
| `TaskCredit`, `overlap` | `ImplementsPromise` | a reopen whose read precedes the commit of the Done before it finds no settlement; the Done then charges an open task |
| `TaskCredit`, `invoicing` | `OverageAccountedFor` | a draft deleted between insert and attach |
| `TaskCredit`, `lostack` | `OverageAccountedFor` | the repeated attach finds its own link and retracts the line |
| `TaskCredit`, `invoicing` | `EmittedStaysSettled` | the invoice leaves the draft between the reopen check and the reversal |
| `TaskCredit`, `invoicing` | `EmittedLinesAreFixed` | sent between finding the draft and the insert |
| `TaskCredit`, `overlap`, `crash` | `OneLinePerSettlement` | two regenerations of one task |
| `TaskCredit`, `overlap` | `RefundMatchesCharge` | `now` is taken before the transaction: a settlement that waited commits later with an earlier time, and its reopen refunds the consumption of another cycle |
| `HourLedger`, `crossed` | `ReopenIsExact` | a correction is checked while its task is done and written after the reopen |
| `HourLedger`, `crossed` | `BatchesAreBalance`, `JobIsIdempotent` | the same: the correction gives minutes that belong to no batch |
| `HourLedger`, `crossed` | `FirstBatchGivesOnce` | a credit is corrected between the read of its withdrawal and the write |
| `HourLedger`, `late` | `FirstBatchGivesOnce` | an invoice cancelled after its credit expired is withdrawn in full, and the client pays for the expired minutes twice |
| `HoursPurchase`, partial refunds replayed | `RefundReachesOrder` | the replay reads the invoice `paid`, the full refund writes `refunded`, and the replay writes back what it read |
| `EmailOutbox`, `midbulk` | `NothingVanishes` | the bulk replay deletes the row and dies, or fails, before it logs the new send |

Some things the models do are worth knowing though no property of a run is about
them. A task moved to another client after Done is refunded to the new client.
Look-up and creation of the monthly draft are two calls without a unique index, so
two settlements may create two drafts, and the look-up of a free month stops after
two; both drafts are invoiced correctly. A draft may be sent while
`deleteInvoice`, which has checked it, runs its hooks. The `catch` around the
claiming INSERT of the Stripe webhook takes a busy database for a duplicate: the
row is absent, the route answers 200, and the event is lost. So is an event whose
object has no `crmTenantId` and which leads to no tenant by its Stripe customer or
its payment intent; the comments of the route (`+server.ts:54-60`, `74-79`) tell
how refunds and disputes were lost there before it had these look-ups. It still
happens to the refund of an order of hours that was placed without a Stripe
customer, since `public-hours.remote.ts:352-358` goes on when the customer cannot
be created, and has no invoice yet. `AckedWasHandled` excepts both by name
(`LetGo`); an event that names its tenant is lost only to the race. A success handled after a refund sets the order back to
`paid`. A form that was changed after a lost answer goes out under the old key
and is answered "hours and invoice exist already" without a credit; an invoice
whose INSERT was committed but not acknowledged is neither pushed nor mailed.
A retry job that meets the bank page's synchronisation is skipped as a success,
and if that one fails nothing is queued: a ghost until the daily job; so it is
when an administrator disconnects Keez during a chain of retries and connects it
again, because the counter stays. The bulk replay may send once more a letter
whose row the job completed after the bulk had read it, and a replay from the
panel that fails leaves two failed rows, both of which are retried.

## 4. Proofs

`HourCreditMathProofs` proves, for every step, block, number of minutes and
balance, that rounding up is the least whole number of units, and
`SplitIsExact`: a settlement takes no more than the credit, what it takes and
invoices adds up to what is billed, and the surplus is less than a block.

`TaskCreditProofs` proves of `TaskCredit`, for any number of tasks, clients,
requests and invoices and for every `Env`:

| theorem | property |
|---|---|
| `TypeCorrect` | `TypeOK` |
| `SettlementStaysLive` | `SettlementIsLive` |
| `SurplusIsWithdrawnWithItsSettlement` | `SurplusFollowsSettlement` |
| `CreditIsNotOverdrawn` | `NeverOverdraws` |
| `CreditIsLedgerSum` | `CacheIsLedgerSum` |
| `InvIsInvariant` | `Inv`, on which the others rest |

and, where requests on one task take turns (`TakeTurns`):

| theorem | property |
|---|---|
| `OveragesAreAccountedFor` | `OverageAccountedFor` |
| `OveragesAreBilledOnce` | `OneLinePerSettlement` |
| `EmittedTasksStaySettled` | `EmittedStaysSettled` |
| `RefundsAreCharges` | `RefundMatchesCharge` |
| `EmittedLinesStay` | `EmittedLinesAreFixed` |
| `TaskCreditKeepsPromise` | `ImplementsPromise`, if `move` is not in `Env` |
| `BillingIsInvariant` | `BillingInv`, on which they rest |

Neither `SettlementIsLive` nor `SurplusFollowsSettlement` is inductive. A
settlement about to claim a time must find no row of that time (`StampsAreFresh`),
or its claim would inherit a reversal; a surplus must be the only one of its
trace (`SurplusHasTrace`), or a reopen, which withdraws by trace, could leave one
behind; and a legacy surplus credited late must belong to the settlement the
task is in, which holds because only the first settlement's trace has exact
minutes (`OnlyLegacyIsExact`) and no settlement is older. `Inv` is their
conjunction. Its proof has one lemma per action; most actions write no row and
follow from one lemma (`QuietStep`), and the four that do (`ReadTask`, `Consume`,
`Undo`, `CreditLegacySurplus`) and `Regenerate` are proved conjunct by conjunct.
`CreditIsNotOverdrawn` needs `ConsumptionTakes` (a refund only adds) and
`SplitIsExact`.

`SumDelta` is a recursive function over sets of rows, and the library's induction
theorems cannot be used. `HourCreditMathProofs` takes their place by
contradiction: if a fact about sums fails for some set, it fails for a smallest
one (`SmallestSet`), and removing one row of that leaves a set for which it holds.
So it proves that the order in which rows are summed does not matter
(`SumRemoves`), from which `CreditIsLedgerSum` follows: a step moves the balance
by what its rows add. A reopen withdraws the sum of its surpluses, of which there
is one at most.

`TakeTurns` says that `overlap`, `invoicing` and `lostack` are not in `Env`. The
code has no lock that would enforce it, and section 3 shows, for each of the three,
a property that fails with it; crashes, stale cards and moves are allowed. Then
what a request has read is still so when it writes, which is most of `BillingInv`:
a request about to bill finds no line of its task yet (`ToBill`), an attach finds
its own line, a request past the reopen check finds nothing emitted
(`RequestFits`); a task has one line at most, for the settlement it is in
(`LineFits`); a link has its line (`LinkFits`). Every action is proved to keep
what it does not touch (`SameBilling`, `InvoicesStay`) and then the parts it does.
No request ever comes to `Retract` under turn-taking, and the invariant says so.

`TaskCreditKeepsPromise` maps the steps one by one: `Consume` is a Finish, `Undo`
of a live settlement a Reopen, `CreditLegacySurplus` a GiveRest, and everything
else stutters. It needs that a settlement has one consumption
(`OneCharge`) and that a task keeps its client (`OwnersStay`): a task moved after
its Done is refunded to the new client, which `HourCreditPromise` does not allow.

`StripeEventsProofs` proves of `StripeEvents`, for any number of events and
requests:

| theorem | property |
|---|---|
| `TypeCorrect` | `TypeOK` |
| `AckedEventsWereHandled` | `AckedWasHandled` |
| `FirstClaimIsExclusive` | `OnlyTakeoversOverlap` |
| `RouteImplementsDelivery` | `ImplementsDelivery` |

`AckedWasHandled` is kept by each step because which events name their tenant is
settled before they are delivered, so an exception once made stays one.
`CompletedWasHandled` says what a completed row, and a request about to complete
one, are evidence of, also when the row was deleted and inserted again in
between: a handler that returned. Exclusion rests on who may hold a
claim: the holder of an undisturbed claim has a row (`ClaimHasRow`), so a further
INSERT is refused (`InsertExcludes`), and a takeover is never counted as an
insert (`TakeoverIsNoInsert`). The refinement maps each action to a delivery, the
start or end of a handler or an answer, or to a stutter, and needs of the
invariant that a 200 follows a handler that returned. With it, what is proved of
`HoursPurchase` for every behaviour of `EventDelivery` holds behind the route.

`HoursPurchaseProofs` proves of `HoursPurchase`, for any number of orders,
requests, events and invoices:

| theorem | property |
|---|---|
| `TypeCorrect` | `TypeOK`, with it one ledger row per source |
| `HandledPaymentsArePaid` | `HandledIsPaid` |
| `DeclinesNeverUndo` | `LateDeclineIsIgnored` |
| `PaymentsAreInvoicedOnce` | `InvoicedOnce` |
| `PaymentsAreCreditedOnce` | `CreditedOnce` |
| `RefundsReachOrders` | `RefundReachesOrder`, if partial refunds are not replayed |

`HandledIsPaid` needs that a handler past `MarkPaid` has an order that is settled
(`PaidInv`) and that nothing unsettles an order (`SettledStays`). `OnceInv` is
what once-only invoicing and crediting rest on: a payment that never overlapped
has one handler (`PaidAlone`), so that what `FindInvoice` found is still true at
`EmitInvoice` (`NoneYet`); the order links to every invoice it has (`Linked`),
from which follow both that there is only one and that `creditPaidInvoice` is
refused (`Uncredited`); and the refund writes back only to invoices in use
(`WritesUsed`). Steps that insert nothing and credit no invoice share one lemma
(`KeptOnce`); `BeginHandler`, `EmitInvoice` and `CreditInvoice` have their own.
`RefundInv` follows a refund that came in turn, when Stripe had its answers for
all earlier events: from then on no payment and no partial refund of the order is
handled (`Undisturbed`), so nobody sets it back to `paid`, and what the handler
reads and writes is the one invoice the order links to (`Reached`, `WritesIts`).
A partial refund that staff replay would be handled beside it and write back what
it read; `NoPartialReplay` excludes that, and section 3 has the counterexample.
The refund itself may be
replayed at any time; the replay of a payment after it is counted as out of turn
(`early`).

`HourLedgerProofs` proves of `HourLedger`, for any number of tasks, invoices,
requests, rows and days:

| theorem | property | if |
|---|---|---|
| `LedgerTypeCorrect` | `TypeOK` | always |
| `ReopensAreExact` | `ReopenIsExact` | `NoCrossing` |
| `BatchesMakeBalance` | `BatchesAreBalance` | `NoCrossing` |
| `TermsHold` | `NothingEscapesItsTerm` | `NoCrossing` |
| `ExpiriesAreCovered` | `ExpiryNeverOverdraws` | `NoCrossing` |
| `JobsAreIdempotent` | `JobIsIdempotent` | `NoCrossing`, `NoToggle` |
| `FirstBatchesGiveOnce` | `FirstBatchGivesOnce` | `NoCrossing`, `NoLate` |

`NoCrossing`, `NoLate` and `NoToggle` say that `crossed`, `late` and `toggle` are
not in `Env`. The code does not exclude these three; section 3 shows what each of
them breaks. For `NothingEscapesItsTerm` and `ExpiryNeverOverdraws` TLC finds no
counterexample with `crossed` either (two requests, one term), but their proof
goes through the invariant, which `crossed` breaks.

`LedgerInv` has one central part, `AllFit`: it says of every row what the rows
before it were when it was written (`Fits`). A reversal is the first after the
consumption it undoes and takes back that row with its correction; a correction
keeps the sign of its row; a withdrawal has its credit; an expiry has the next
number of its batch. Since `Fits` looks only back, rows appended later do not
disturb it, and a step proves it for the rows it writes. The other parts are
that the balance is the sum, that a task which is not settled has all its
consumption given back (`AllSettled`), and what a request carries (`Carried`).

The rest is arithmetic over the whole ledger, as `remainingBatches` does it. The
rows that are not a batch's own fall into groups, each a consumption, a manual
minus or an expiry with the rows that correct or undo it (`Owner`); a group never
gives minutes (`OwnedTakes`), so what is spent is never negative
(`SpendingTakes`). Batches are a finite set in a total order, and going through it
once shows that what is left of the batches in front is what they keep, less what
is spent (`RemainingInFront`), so that all of them together are the balance
(`RemainingIsBalance`). A batch whose term has passed is in front of all others
(`PastTermInFront`): what a run of the job writes is exactly what is left of
those, and it leaves nothing due (`NothingLeftDue`). `FirstBatchGivesOnce` follows
what the rows of a batch leave of it (`Left`); it is not negative for the batch
spent first (`NoneOverGiven`), because a further expiry of it takes what remains
after all spending, and its earlier expiries, charged to the first batch like all
others, are part of that. For the sums, which are recursive functions,
`CountingUp` and `AddingUp` stand in for induction as above: a set of exceptions
has a least one.

`HourOrdersProofs` proves of `HourOrders`, for any number of orders, requests and
employees:

| theorem | property |
|---|---|
| `TypeCorrect` | `TypeOK`, with it one ledger row per key |
| `OrdersAreCreditedOnce` | `CreditedOnce` |
| `InvoicesAreIssuedOnce` | `IssuedOnce` |
| `CreditPrecedesInvoice` | `CreditComesFirst` |

An order that is not credited twice needs that it never has two keys, neither in
the form, nor in a call, nor in the ledger (`OneKeyEach`), and that the form
holds the newest number (`FormIsNewest`), so that a new key is new to all calls
still under way. An invoice is pushed and mailed once because the call that
inserted it is the only one between `InsertInvoice` and `Mail` (`Issues`), and a
call past `Credit` has its row (`Credits`).

`KeezSyncProofs` proves of `KeezSync`, for any number of users, failures and
restarts and for every `Env`:

| theorem | property |
|---|---|
| `TypeCorrect` | `TypeOK`: only attempts that the cancelling loop knows are queued |
| `UndisturbedLeavesNoGhost` | `NoGhost` |
| `DegradedIsTold` | `DegradedIsSeen` |

`Undisturbed` says what `clean` is evidence of, also in the middle of a call:
one caller at a time (`OneAtATime`); the failures counted are degraded, queued,
or in the hands of a call that will see to one or the other (`Chain`); the
attempt of a running retry is the count (`Attempted`), so that the id of the next
hop is neither queued nor running; a degraded integration is told of, or about to
be (`Told`).

`EmailOutboxProofs` proves of `EmailOutbox`, for any number of letters, requests,
rows, refusals and mishaps:

| theorem | property |
|---|---|
| `TypeCorrect` | `TypeOK` |
| `CompletedStaysCompleted` | `CompletedIsFinal` |
| `LoggedLettersStay` | `NothingVanishes`, if `midbulk` is not in `Env` |

Both safety properties rest on `Exclusive`: a row has one sender at a time, who
has not completed it, and nobody sends a row that the job has still to take up.
The recovery does not break it, since a restart ends every call, and requests
that send before the recovery send rows of their own, which the recovery may set
to failed and they then complete. `OkIsSent` (an outcome "ok" was a copy
accepted) lets the panel delete the row it replaced.

The theorems assume what the named assumptions of the modules say of the
constants: `TaskCreditAssumption`, `StepAssumption`, `BlockAssumption`,
`FreeAssumption`, `StripeEventsAssumption`, `HoursPurchaseAssumption`,
`HourLedgerAssumption`, `HourOrdersAssumption`, `KeezSyncAssumption` and
`EmailOutboxAssumption`; beyond these only the hypotheses named above.

Only model-checked: `EveryEventIsHandled`, `DueMinutesExpire`,
`EveryCreditIsInvoiced`, `Recovers` and `EveryLetterIsSettled`, because liveness
under fairness is out of the prover's reach; the billing properties of `moved`
and `turns` are proved for the discipline those runs have. Every other property of
a passing run is a theorem, except that the hypotheses above remain: what happens
without them is TLC's to show, and the `violation` runs are TLC's by nature.

## 5. Plan

Done: the credit of tasks with its abstract specification; the claim of Stripe
events and orders paid by card; the ledger with corrections, withdrawal and
expiry; orders of staff; the synchronisation with Keez; the log of e-mails; their
runs and the proofs of section 4, which cover every safety property of the runs
and both refinements.

What is left, in order:

1. Proofs: fewer hypotheses. `NothingEscapesItsTerm` and `ExpiryNeverOverdraws`
   with `crossed`, by an invariant that lets a correction follow a reversal; the
   billing properties task by task, so that a task whose requests take turns keeps
   them whatever happens to others; a refund for orders of which no partial refund
   is replayed, instead of for all orders together.
2. `TaskCredit`: deletion of a settled task and the mail that `sendInvoice` sends
   before its status write. The low-credit alert, one flag that is read and then
   written.
3. Stripe: `handleStripeInvoicePayment`, checkout and hosting renewals with
   `post_payment_step`.
4. Keez: the push of one invoice and its validation. WHMCS, whose failure handler
   repeats that of Keez.
5. Hosting suspension and renewal; recurring invoices; the WhatsApp outbox.

### Not modelled

`reconcileHourCredit` has no caller and `circuit-breaker.ts` no importer: there is
no behaviour to state. The rate limiter and the cache leave their atomicity to
Redis, the queue to BullMQ; what of BullMQ the jobs rely on (ids, delays, a job
put back after its worker died, one worker) is in `KeezSync` and `EmailOutbox`.
What section 1 describes as parsing, formatting, external calls or presentation
keeps no state whose order of steps could go wrong inside this repository, which
is most of its lines: the map covers the code of the modelled parts and little of
the whole. The reasons, part by part, are in `PROJECT.json`.
