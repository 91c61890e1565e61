# Verification of the CleanWithSnapshot back end

This directory holds TLA+ models of the back end in `src/backend/app`, a FastAPI
service over PostgreSQL that sells cleaning visits, takes deposits through
Stripe and runs a set of scheduled jobs. TLC checks the models on small
instances; TLAPS proves the properties that matter most for instances of any
size.

## The system

| Component | State | Operations | Talks to | Module |
|---|---|---|---|---|
| Bookings and deposit (`domain/bookings/service.py`, `routes_bookings.py`, `routes_payments.py`) | `bookings`, `checkout_attempts`, `invoice_payments`; partial unique index on active (org, team, start) | create, deposit checkout, confirm, cancel, complete, dispatcher and bulk status writes, cleanup of stale rows | Stripe (sessions, idempotency keys), webhook, email | `DepositBooking` |
| Stripe webhook (`routes_payments.py:1065`) | `stripe_events_processed`, `stripe_events` | claim the event id, resolve the organisation, apply in a savepoint, commit or give the claim back | bookings, invoices, billing | `StripeWebhook`, `EventPromise` |
| Outbox and dead letters (`domain/outbox/service.py`, `jobs/dlq_auto_replay.py`) | `outbox_events` with attempts, next attempt, status | enqueue, direct send, worker batch, automatic and manual replay | email, webhooks, export targets | `Outbox` |
| Slots and rescheduling (`domain/bookings/service.py`, `domain/ops/service.py`, `domain/dispatcher/service.py`) | places and statuses of `bookings`, `team_blackouts`, availability blocks, the team row lock, the exclusion constraint | search, create, quick create, reschedule, override, move, block, bulk update | bookings | `Schedule` |
| Invoices (`domain/invoices/service.py`, `routes_payments.py`) | `invoices`, `invoice_payments` | checkout, manual payment, send, webhook payment, failure and refund, reconcile | Stripe, webhook | `InvoicePayments` |
| Storage quota (`domain/storage_quota/service.py`, `domain/bookings/photos_service.py`, jobs) | `organization_settings.storage_bytes_used`, reservations, photos, tombstones | reserve, extend, finalize, release, delete, janitor, deletion of bookings | object store, bookings | `StorageQuota` |
| Admin idempotency (`api/idempotency.py`) | `admin_idempotency` | claim a key, replay the stored answer, refuse another payload | admin routes | `AdminIdempotency`, `KeyPromise` |
| Circuit breaker (`shared/circuit_breaker.py`) | state, failures in the window, half-open calls | admit, record failure or success | Stripe, email, storage | `CircuitBreaker` |
| Others | see `components` in `PROJECT.json`, each with the reason it is or is not modelled | | | |

What is hard here: requests that hold what they read across an `await` on Stripe;
two writers of one booking without a common lock; Stripe events that arrive late,
twice, in any order or for a row that is gone; answers that are lost after Stripe
did the work; processes that die between Stripe and the commit; retries bounded
by counters; checks that are made before a lock is taken and writes that go out only
where the ORM sees a difference from what was read.

What makes each component right, in short: a slot has one active holder; money
and the deposit flag agree and never part; a customer is never offered two open
payments; an event is applied once; a message is sent, or given
up only after its attempts; a payment is counted once and the invoice's status
follows from its payments; the quota's counter is what was committed and not deleted as a photo, and no listed
photo is without its object; a key has one request do its work and truthful answers; a dependency that
failed gets its rest.

The modules do not share variables. Where two parts of the code meet, the boundary is
modelled from the side that matters: `DepositBooking` takes a webhook delivery as one atomic,
once-only step, which is what `StripeWebhook` establishes; `InvoicePayments` does the same;
`Schedule` takes the status changes of `DepositBooking`, its late payments included, as
actions of their own; `StripeWebhook` implements the abstract `EventPromise`, `AdminIdempotency` the abstract `KeyPromise`.

Fairness, bounds and exceptions are stated per module below. `CHECK_DEADLOCK FALSE`
is set in every configuration but `Webhook.cfg`: bookings, requests, messages and uploads are
finite there, and when all are used up the model rests, as the service does without traffic.

## DepositBooking

One booking row per id in `Bookings`, one Stripe checkout session (with its payment
intent) per `Sessions`, the deposit checkout calls in `Handlers`, the staff calls in
`Staff`.

| Model | Code |
|---|---|
| `status`, `deposit`, `required`, `checkoutSession`, `paymentIntent`, `completed`, `aged` | columns of `bookings` (`aged`: `created_at` more than 30 minutes ago) |
| `attempt`, `payment`, `processed`, `emailed` | `checkout_attempts`, `invoice_payments`, `stripe_events_processed`, `email_events` |
| `creator`, `handler`, `staff` | what a running request has read, between its awaits |
| `session`, `owner`, `idem`, `emitted` | Stripe: sessions, metadata, cached idempotency keys, events |
| `CreatePhase1`, `CreateCommit`, `CreateRefused`, `CreateCompensate`, `CreateCommitFails`, `CreateCrash` | `POST /v1/bookings`: Stripe before any row, one transaction, compensation, and the commit that lies outside it |
| `CheckoutBegin` to `CheckoutCrash` | the three phases of `POST /v1/payments/deposit/checkout`, with Stripe between two transactions |
| `DepositPaid`, `DepositExpired`, `DepositDeclined`, `EventIgnored` | one delivery of a webhook event |
| `StaffRead`, `StaffWrite`, `StaffGivesUp` | confirm, cancel and complete: check the row, later write it |
| `WriteStatus` | dispatcher status update and bulk update, which check nothing |
| `Cleanup` | `POST /v1/admin/cleanup` |
| `CustomerPays`, `CardDeclined`, `SessionExpires`, `KeyLapses`, `ThirtyMinutesPass` | the customer, Stripe and the clock |

A webhook delivery is one atomic step: it is one transaction that claims the event
and locks the booking row, and one that fails leaves nothing behind. Phase 2 of a creation
is one step for the same reason: nothing of it is visible before its commit, and the index
decides at the insert. Checkout and staff calls are split where they await or hold
an unlocked read. The ORM writes only columns that differ from what the call
read, which `CheckoutRecord` and `StaffWrite` keep.

### Properties

* `SlotExclusive`: two active bookings never hold one slot.
* `PaidBackedByCharge`: a deposit is marked paid only if Stripe collected it.
* `ConfirmedDepositPaid`: a CONFIRMED booking that needs a deposit has it.
* `OneOpenSession`: no booking has two sessions a customer could pay at once.
* `PaidIsFinal`: no step takes a paid deposit back or deletes its row.
* `PaymentReflected`: a paid session reaches its booking unless the row is gone or
  the slot is taken.
* `ExpiryFreesSlot`: an unpaid booking whose session expired stops blocking.

### Runs

| Run | Instance | Shows |
|---|---|---|
| `deposit_one_booking` | 1 booking, 2 sessions, 1 checkout call at a time, 1 staff call | `TypeOK` and the three invariants and the action property on one booking, under every event order, lost answer and crash |
| `deposit_race` | 2 bookings of one slot, one of them HIGH risk, 1 session, 1 staff call, payment intent known late, dispatcher writing PLANNED | `SlotExclusive`, and the two liveness properties, under `FairSpec` |

Two sessions are the least with which a retry, a lapsed key or a second checkout
after an expiry can differ from the first; one slot with two bookings is the least
with a competitor. A declined card is recorded once per session, since an event id
is applied once and a second decline acts like the first. A key lapses, and a
session expires, only when no request that uses it is running: both take 24 hours.
IN_PROGRESS is never written apart from PLANNED because no condition in this part of
the code tells the two apart. Sessions are interchangeable, so the
first run uses symmetry over them; `deposit_race`, which checks liveness, does not. Its
one session is created by either booking; deposit checkout calls, which need a
second one, are left to `deposit_one_booking`. The proofs below do away with the bounds for the safety properties.

### Fairness

`FairSpec` assumes three things. Stripe delivers an event until it is
acknowledged, so a delivery that stays possible happens. The scheduler calls the cleanup
endpoint again and again. The clock passes thirty minutes. No fairness is assumed of customers,
staff, or of requests, which may hang or die.

### Proofs

`DepositBookingProofs` proves, for every set of bookings, sessions and callers,
every assignment of slots and risks and every set of hand-written statuses:
`TypeCorrect`, `PaidIsBacked`, `OneSessionOpen`, `SlotHasOneHolder`,
`PaidDepositIsFinal`, and `ConfirmedIsPaid`. The last has the hypothesis
`"CONFIRMED" \notin ManualStatuses`: the bulk endpoint can write any status string,
and when it writes CONFIRMED it bypasses the deposit. The only other assumption is
`ConstantsAssumption`.

None of the properties is inductive alone. `Inv` adds what the code relies on
silently:

* `StripeInv`: the open session of a booking is the one under its idempotency key,
  which is why two creations with one key cannot leave two open sessions;
* `RowInv`, `CreatorInv`, `SharedInv`: a row appears only when its creation is
  over, and a session's URL leaves the service only then, so that no creation can
  later expire a session the customer has paid;
* `CheckoutInv`: what a checkout call holds belongs to its booking;
* `PaidInv`: a paid deposit has its charge, its processed event and a payment row, and this
  payment row is what makes the cleanup refuse the booking;
* `StaffInv`: what a confirmation read about the deposit is still true when it writes.

`StaffInv` and `PaidInv` hold because some facts never go back. `Steady` names them
(a session's owner, a paid session, a payment row, a paid deposit, a finished creation), each step
is shown to keep `Inv` and be steady, and `SteadyKeeps` carries over every
part of `Inv` whose own state a step does not touch. `StatusSteps` then says that,
apart from the cleanup, a step writes one status at most and one that the slot index
and the deposit allow; the slot, confirmation and finality theorems follow from it.

Liveness stays with TLC (fairness and ENABLED are outside the prover's reach).

### Observed while reading

The model does what the code does in each of these; none is stated as a property
(`service.py` is `domain/bookings/service.py`).

* The transition table calls DONE and CANCELLED terminal (`service.py:111-112`), but a late payment
  (`service.py:1374`), completion (`service.py:1510`), dispatcher and bulk writes do not consult it.
* One stale booking with a recorded email makes the cleanup's single DELETE fail
  (`service.py:1474`) for all of them, every time; `backend/docs/qa_slots_v1.md:7` promises the removal.
* A checkout for a paid deposit creates a second session, because a completed session has
  no URL to return (`routes_payments.py:855`; `docs/payments/IDEMPOTENCY.md:92-95`).
* A creation whose Stripe call times out goes on without a deposit, and the expiry of the session it
  left behind cancels the booking (`service.py:1462`; `docs/payments/TRANSACTION_BOUNDARIES.md:12`).
* The final commit of a creation (`routes_bookings.py:549`) is outside the block that expires the Stripe
  session, against `docs/payments/TRANSACTION_BOUNDARIES.md:21-22` (`CreateCommitFails` models it).
* An administrator may delete or purge bookings of any status (`routes_admin.py:19583`, `:20290`), paid ones included; the
  model leaves this out, so that `PaidIsFinal` speaks of the flows above, whose cleanup a paid booking's payment row stops.
* A slow checkout records PENDING over a SUCCEEDED payment row; a failure to send the
  pending email is swallowed (`routes_bookings.py:535`).

## StripeWebhook

Several processes handle Stripe events at once. What the handlers write about deposits is
in `DepositBooking`, where a delivery is one atomic step; this module opens the step up
and abstracts the handler to the set of events its booking or invoice has absorbed.

| Model | Code |
|---|---|
| `processed` | committed ids of `stripe_events_processed` |
| `event` | `stripe_events`: status and payload hash |
| `row`, `ledger` | the booking or invoice of an event, and what it has absorbed |
| `delivery` | a request: what its transaction has inserted, locked and read |
| `applied`, `answered`, `faults` | history: committed handlers, answers with success, failures so far |
| `Claim` | the `INSERT ... ON CONFLICT DO NOTHING` of the id (`routes_payments.py:1108`), which waits for an uncommitted insert of the same id |
| `Locate`, `Unresolved` | `_resolve_org_for_event` with its `FOR UPDATE`; no row: the id is kept |
| `Mismatch`, `Duplicate`, `Handle`, `Ignore`, `Raise` | the branches on the `stripe_events` row, and the handler in its savepoint |
| `Answer`, `Crash` | the response; a process that dies, a commit that fails, an answer that is lost |
| `RowAppears`, `RowDeleted` | the creation of a booking or invoice, the cleanup's DELETE |

`Init` allows for events settled before migration 0052 introduced
`stripe_events_processed`; those are known to `stripe_events` only.

`EventPromise` is the abstract specification: an event is applied or dropped, at most once,
and only then answered. `PromiseKept` says that `StripeWebhook` implements it, with
`dropped` the processed ids whose handler never ran.

* `LedgerComplete`: the row lock loses no update.
* `FailedIsRetried`: a raised handler never leaves its id behind while its row is there.
* `PromiseKept`: the refinement.
* `EveryEventAnswered`: with finitely many failures every event is answered.

| Run | Instance | Shows |
|---|---|---|
| `webhook` | 2 events of one row, 2 deliveries, 2 payloads, 2 failures, `FairSpec` | the invariants, the refinement and `EveryEventAnswered` |

Two events of one row are the least that can overwrite each other, and two deliveries the
least that hold both, or one event twice. Two failures let an event fail, come back
and fail again. Two payloads let a redelivery differ from the first. Deadlock is checked. A
third delivery adds nothing the proofs below do not cover: they hold for any number.

Fairness: Stripe redelivers what is not answered, with the body the event had when it was
first recorded (`SF` on `Receive`; an altered body is answered with 400 for ever, as the code intends), PostgreSQL
grants a lock that is free again and again (`SF` on `Claim` and on `Locate` or
`Unresolved`), and a handler that has its lock returns (`WF`).

`StripeWebhookProofs` proves `TypeCorrect`, `NoLostUpdate`, `FailedStaysOpen` and
`ImplementsPromise` for any events, deliveries, rows, payloads and number of failures. The
invariant `Inv` adds to the stated properties `LockInv` (no two transactions hold one id or
one row), `DeliveryInv` (what a transaction read under its lock is still so; its id is
not yet committed) and `EventInv` (`stripe_events` says exactly which handlers were
committed). The refinement maps every action to `Apply`, `Drop`, `Answer` or a stutter.

Left out here: events without a booking or invoice (SaaS billing), an organisation conflict,
signature checks. An event that overtakes the commit of its booking is dropped, which
`EventPromise` counts as on purpose because the code does.

## Outbox

A message is one `outbox_events` row and, after a refused direct send, one `email_failures`
row.

| Model | Code |
|---|---|
| `row`, `failure` | the two tables: status, attempts, and whether the next attempt is due, later or unset |
| `sender` | the request that commits the row and then sends the email itself (`_send_with_record`) |
| `job` | a run of `outbox-delivery`, `email-dlq` or `dlq-auto-replay`: the batch it read, the outcomes it has, its failure streak |
| `admin` | a request to `POST /v1/admin/outbox/{event_id}/replay` between its SELECT and its UPDATE |
| `accepted`, `tried`, `replays`, `faults` | history and bounds |
| `Enqueue`, `SenderDelivers`, `SenderMarksSent`, `SenderRecordsFailure`, `SenderDies` | the request |
| `Begin`, `Deliver`, `Flush`, `Commit`, `JobDies` | SELECT, the provider's answer, the UPDATE that takes the row lock, the one commit for the batch, the process that dies before it |
| `ReplayRead`, `ReplayWrite` | the admin's replay of one row, whatever its status |
| `RowComesDue`, `FailureComesDue` | the backoffs |

None of the writers locks what it reads. The ORM updates the columns that differ from
what the writer read, so a late commit mixes its columns with those of another writer:
`WrittenOver` says how, and it is what makes the safety properties of this module hard.
The UPDATE takes the row lock, which `Flushed`, `RowFree` and `UnlockedRow` keep until the
commit. Two delivery runs may overlap because the backlog runbook
(`docs/runbooks/OUTBOX_BACKLOG.md:35-37`) starts one by hand beside the loop.

* `SentWasAccepted`: sent means that the provider took the message.
* `NothingStranded`: a message that waits has a time at which a job finds it.
* `DeadWasTried`: a row is dead only after `outbox_max_attempts` deliveries.
* `EverySettled`: every message and every failed email is eventually sent or given up for good.
* `ReplayedComesDue`: what waits has a due time even with automatic replay switched on (violated).

| Run | Instance | Shows |
|---|---|---|
| `outbox_jobs` | 1 message of 3 attempts, sent by its own request, two delivery runs, the email-dlq job, two replay requests, one crash | the invariants |
| `outbox_settled` | 2 messages of 2 attempts, batches of one, a delivery run, automatic replay, the email-dlq job, one crash, `FairSpec` | `EverySettled` |
| `outbox_stranded` | 1 message of 3 attempts, two delivery runs, automatic replay, one replay request | the finding below |

One message is enough for the invariants: rows share nothing but the batch they are
committed in. Liveness has two, with a batch of one, so that the younger one has to
wait for the older. Attempts, retries and the ceiling are 2 or 3, the least that tell the
first, a middle and the last attempt apart. Symmetry is not used.

Fairness: the runner's loop starts the delivery and email-dlq jobs in every round
(`jobs/run.py:263`); `dlq-auto-replay` is off by default and not assumed to start. Jobs
and replay requests that have begun come to an end, and a row lock that comes free
again and again is granted.

Finding, `outbox_stranded`: a delivery run slower than a backoff writes its retry time over a row that
another run has given up; automatic replay reads this dead row with a due time, an admin's replay makes it
pending, and the automatic replay's failed attempt then writes the columns that differ from what it
read, which leaves a pending row without a due time. `process_outbox` never selects it
(`domain/outbox/service.py:170`), although `backend/OPERATIONS.md:182` says that a
replayed row is popped and attempted. It takes overlapping delivery runs and automatic replay
switched on; with the latter off, `NothingStranded` is a theorem.

Observed while reading: the row is committed as due before the request sends the email itself
(`email_service.py:470`), so the delivery job may send it too, although
`PRODUCTION_READINESS_AUDIT_2026-01-01.md:554` calls the sending idempotent; a job that read a row before a
replay writes its old attempts over the reset ones, against `docs/DLQ_RUNBOOK.md:36`;
`on_conflict_do_nothing(constraint="ix_outbox_org_dedupe")` names a unique index that is not
a constraint (migration 0045); a message the direct send was refused has two retry loops, and may
be sent by both.

Assumed: a replay request is over before a backoff of thirty seconds passes. Left out:
export dead letters, unsubscribes, the hour a row must be old for automatic replay, the
idempotency key of the replay request.

`OutboxProofs` proves `TypeCorrect`, `SentMeansAccepted` and `DeadMeansTried` for any messages,
any number of overlapping job runs of every kind (automatic replay included), any limits. Neither property
is inductive, because a job writes what it concluded from an old read. `OutcomeInv` says that whoever
is about to write "sent" has had the message taken; `AttemptsInv` says that no counter, in the table
or in what a job has read, runs ahead of the deliveries that were made. `WrittenOverType` shows
that each column of a mixed row is either the row's or the writer's, so the two bounds survive a mix of
columns; `RowStep`, `FailureStep` and `JobStep` then carry the invariant over whole groups of steps.
`NobodyIsStranded` adds `WaitInv`: no waiting row and no waiting failure lacks a due time, and no job has read a
row that does not wait. Its hypothesis `NoAutoReplay`, that no job is an automatic replay, is the default
configuration; `outbox_stranded` shows that it is needed. Liveness stays with TLC.

## Schedule

The calendar of the teams: every path that places a booking or closes a team's time.

| Model | Code |
|---|---|
| `row` | `bookings`: status and place (team, start, length) |
| `blackout`, `block` | `team_blackouts`; availability and imported calendar blocks, those of the organisation on every team |
| `request` | a running request: the place it means to write and the one it has read |
| `loose`, `mixed` | history: bookings placed by a path without the lock or over conflicts; bookings written from a stale copy of their row |
| `BeginCreate`, `BeginQuick`, `BeginMove`, `BeginBlock` | the read and the check: creation (team row `FOR UPDATE`), the admin's quick creation, the board's move and a blackout (no lock) |
| `Load`, `LockAndCheck` | rescheduling, which loads the booking first and locks its team afterwards, with and without `override_conflicts` |
| `InsertBooking`, `UpdateBooking`, `InsertBlackout`, `Abort` | the write with its commit, which the exclusion constraint (`Fits`) may refuse |
| `Written` | the ORM's UPDATE of the columns that differ from what was read |
| `Bulk`, `LatePayment`, `Cancel`, `Confirm`, `Complete`, `Cleanup`, `ChangeBlocks` | the other writers |

* `NoOverlap`: a team is never in two places, whatever path placed the jobs or brought them back.
* `BufferKept`: jobs that creation and rescheduling placed keep the buffer.
* `CheckedSlotHolds`: a slot found free under the lock stays free until its commit.

`NoOverlap` has no exception. The other two except the bookings in `loose` and `mixed`: the lock
protects only against those who take it, and a request that loaded its booking before it waited for the
lock writes a mix of old and new columns.

The run `schedule` has 1 team, 2 bookings, 2 requests of any kind, two starts one unit apart, length
1, buffer 1, a working day of hours 1 to 3 and a calendar day of 6. Two jobs of length 1 fit without the buffer and
do not fit with it, which is what tells the constraint from the check; two requests are the least
that interleave. Bookings and requests are interchangeable (symmetry).

`ScheduleProofs` proves `TypeCorrect`, `TeamsNeverInTwoPlaces`, `BufferIsKept` and `SlotsHold` for any teams,
bookings, requests, times and buffers from `ScheduleAssumption`. The invariant is the four properties together
with `LockInv` (a team's lock has one holder) and `BookingInv`: neither `BufferKept` nor
`CheckedSlotHolds` is inductive without the other, since a write keeps the buffer because its slot still
holds, and slots hold because whoever commits under the lock of the team is the only one with a checked slot there.

The instance has one length, so it does not reach a row whose start and length come from two requests; that `NoOverlap` holds for
those too is what the theorem shows.

Left out: hard deletion and purge of bookings, which only free time, time zones, blocks of single workers, the dispatcher's unlocked pre-check, duration rules, ranking.

Observed: a booking loaded before the lock is written with stale columns (`service.py:1145`), against
`backend/README.md:169`; blocking compares `timedelta.seconds // 60`, which drops whole days
(`ops/service.py:1435`, `InTheWay`), against `backend/CONTENT_GUIDE.md:31`; a refusal by the exclusion
constraint on rescheduling and moving is a 500; a client can reschedule a DONE booking.

## InvoicePayments

One invoice, the payments of its Stripe checkouts and its manual payments.

| Model | Code |
|---|---|
| `status`, `row`, `manual` | `invoices.status`, the `invoice_payments` rows of each payment intent, the sum of the manual ones |
| `request` | a request that reads the invoice unlocked: checkout, manual payment, sending |
| `intent`, `event` | Stripe: the checkout and its payment; events not yet delivered |
| `raced`, `strayed` | history: the status was last written from a stale sum; intents whose events came out of order, were ignored, or were overwritten by a slow checkout |
| `BeginCheckout`, `BeginManual`, `BeginSend`, `WriteCheckout`, `WriteManual`, `Commit`, `Abort` | read, wait for Stripe or the mail adapter, write, commit |
| `PaymentEvent`, `Refunded`, `RefundIgnored`, `Finalized`, `Reconcile` | webhook handlers and the reconciliation, which lock the invoice |
| `Derived`, `Reconciled`, `Net` | `_refresh_invoice_payment_status`, `_planned_reconciled_status`, the refund's amount |
| `Decline`, `Pay`, `Refund` | the customer and Stripe |

* `CountedOnce`: a captured payment counts once and with no more than was captured.
* `StatusFollows`: the status follows from the payments, unless `raced`.
* `InOrderAgrees`: once the events of a payment were all applied in order, the invoice
  counts what Stripe captured and did not refund.

The run `invoice_payments` has 1 intent, 2 requests, a total of 2 (so that PARTIAL exists and a refund can
come in two parts), manual payments of 1, and 3 slots: `Slots` bounds the payment rows about one intent. Two checkouts that overlap and an event that
overtakes them can leave three; with four slots TLC finds no state that uses the fourth. `SENT` stands for OVERDUE too; which one it is depends on the date only.

`InvoicePaymentsProofs` proves all four properties for any intents, slots, requests and amounts, in this order.

* `TypeCorrect`, `NothingCountedTwice`: `RefInv` (at most one row carries an intent's reference) and `RowInv` (a row that
  counts carries it) are what makes counting twice impossible; `EventInv` and `IntentInv` bound the refunds.
* Sums. The ledger adds over sets with the fold of the community modules. Its facts (`SumsExist`, `SumsAgree`, `SumOne`,
  `SumsOrdered`) are proved by contradiction from a smallest subset on which they fail, which exists because the
  strict subsets of a finite set are well-founded (`SmallestSubset`).
  `NoMoreThanCaptured` follows from them: whatever the order of events, an invoice is never paid with more than staff
  recorded and Stripe captured.
* `StatusIsRight` adds `FreshInv`: a request whose sum nobody has outdated writes a right status.
* `AgreesInOrder` needs to know what an intent that has not strayed looks like in the middle of its events. `OrderInv` says it:
  the intent is `Unpaid`, or its payment is `Recorded` up to a refund `r`; every refund still to be delivered is larger
  than `r`, the largest one told or to come is what Stripe refunded (`RefundedUpTo`), rows that
  do not count hold the whole amount unless all of it was refunded (`Whole`), and so do the copies that slow checkouts
  have loaded, none of which knows a row that is not there (`Copied`). TLC checked `OrderInv` on the instance of the run first.
* `BooksAgree` puts the last two together: once Stripe has nothing more to tell and told it in order, the invoice's sum is
  what staff recorded plus what Stripe kept, and the status says so unless `raced`.

Left out: numbering, drafts and their editing (worker add-ons change the total of a draft), public links,
reminders, VOID (never written), disputes (they touch bookings only).

Observed: a `charge.refunded` that carries the invoice's metadata goes to `_handle_invoice_event`, which does not know it,
and is acknowledged without effect (`docs/vendor/stripe_webhooks.md:44`); a late `payment_failed` un-pays a paid invoice;
a refund before its payment is lost; a slow second checkout writes PENDING over SUCCEEDED; sending may write SENT over
PAID; two overlapping manual payments leave PARTIAL on a paid invoice; reconciling keeps PARTIAL with nothing paid.

## StorageQuota

Uploads and deletions of one organisation, the janitor, and the deletion of whole bookings. The callers reserve, finalize
and commit in one transaction that holds the settings row, so a PENDING reservation is visible to its own upload only;
`up` keeps it.

| Model | Code |
|---|---|
| `used`, `lock` | `organization_settings.storage_bytes_used` and its row lock |
| `up`, `row`, `object` | an upload and its reservation; its committed row; the object store |
| `order`, `dropped` | the booking each row refers to (documents refer to none); the bookings that have been deleted |
| `del`, `tomb` | delete requests and their tombstones |
| `drifted`, `abandoned`, `unrefreshed` | history: a photo was deleted twice; an upload died; a refresh failed after its commit |
| `ReserveChunk`, `ExtendChunk`, `Outlive`, `StoreObject`, `FinalizeStream` | a photo, streamed in chunks; its reservation's TTL |
| `ReserveRecord` | evidence and documents, whose size is known at once |
| `CommitUpload`, `FailUpload`, `AbandonUpload` | commit (with the refresh that follows it), failure with clean-up, crash |
| `FindPhoto`, `DeletePhoto`, `RefuseDelete`, `DeleteObject`, `Retry` | the deletion, its tombstone, the janitor |
| `DropBooking` | `cleanup_stale_bookings`, `hard_delete_booking` and the purge, with what the foreign keys delete along |

`DropBooking` may strike anywhere: an upload that runs then fails at its commit, a delete request that has read the photo
is rolled back because its tombstone refers to the booking, and a tombstone that is gone can no longer be marked. Only
an evidence row that is flushed and not yet committed holds it up. It deletes rows and tombstones (`"gone"`, `"lost"`),
and neither gives bytes back nor deletes objects. That bookings of every status can go this way is the administrator's
deletion; the cleanup takes PENDING ones, and uploads do not look at the status.

* `UsedIsCharged`: the counter is what was committed and not deleted as a photo, those that went with their booking
  included, until a photo is deleted twice.
* `CommitWithinQuota`: no commit exceeds the quota, though a reservation may expire while its upload goes on.
* `ObjectsAccountedFor`: every object belongs to a row, a running upload, a tombstone or an upload that died, or its row or
  tombstone went with the booking; nothing else loses an object.
* `PhotosHaveObjects`: a listed photo has its object, but for a refresh that fails after the commit.

The run `storage_quota` has 2 streams, a record and 2 bookings in every assignment, files of at most 2 chunks, a quota of 2,
2 delete requests and 2 attempts: two deletions of one photo, a full quota, a given-up tombstone and one that is lost all
occur, and a booking goes while the photos of the other stay. Symmetry over streams, bookings and delete requests.

`StorageQuotaProofs` proves all five properties for any uploads, bookings, deletions and limits. `StoreIsAccountedFor` and
`ListedPhotosExist` rest on `RowsAreDone`,
`PutBeforeCommit` and `TombsFollowRows` (an object is deleted by a request only after the row's deletion is committed, with
its tombstone). `TypeCorrect`, `CounterIsExact` and `QuotaHolds` are about bytes, which the model counts as the
cardinality of `Charged`, the chunks of the rows that are kept or gone with their booking, so that a commit or a deletion adds
or removes one row's interval of chunks and the deletion of a booking changes nothing. They are inductive together with
`LockHeld` (an upload that has reserved anything holds the settings row), `StillFits` (so what it has finalized still
fits when it commits, though its reservation may have expired meanwhile) and `GoneWithBooking` (a row goes only with a
booking that is deleted, so that a deletion that succeeds has found its row kept or deleted); `drifted` is in the
invariant because after a second deletion of one photo the counter is wrong.

Left out: the job that expires committed PENDING reservations (no flow commits one), the reconciliation (below), soft caps,
snapshots for the interface.

Observed: deleting a booking leaks the bytes of its photos and evidence, which stay charged, and its photos' objects, which
no row and no tombstone names (`bookings/service.py:1472-1483`, `routes_admin.py:20290`; `bookings/db_models.py:316`, `:363`,
`:394`); the reconciliation that would repair the counter raises `NameError` after it has summed, because
`jobs/storage_quota.py:101` uses `OrganizationSettings` without importing it, so nothing ever repairs it; a failed refresh
after the commit deletes the object of a committed row (`photos_service.py:218`); a zero-byte photo can never be deleted
(`storage_quota/service.py:538`); two deletions of one photo give its bytes back twice (`photos_service.py:346`), after which
the "hard cap in bytes" of `docs/ORG_QUOTAS.md:90` is not kept; an upload past its TTL may not extend and may finalize; the
audit row of a rejection is rolled back; all uploads of an organisation wait for each other.

## AdminIdempotency

The requests that carry one `Idempotency-Key`.

| Model | Code |
|---|---|
| `endpoint` | the kind of endpoint: whether it calls out, how it commits, whether query parameters choose what it does |
| `row`, `claim` | the committed row of the key; the transaction that holds an uncommitted one |
| `req` | the requests: what they hash to, their query parameters, where they are, their answers |
| `parts`, `called` | how much of each request's work is committed; those that called out |
| `Arrive` | the fingerprint: method, path and body, without query parameters |
| `Claim`, `AnswerFromRow` | `INSERT ... ON CONFLICT DO NOTHING`, which waits for an uncommitted row; conflict, 409 with Retry-After, replay |
| `CallOut`, `CommitEarly`, `CommitWithResponse`, `SaveResponse` | the endpoint's work, its call and its one or two commits |
| `CommitBooking`, `CallOut`, `NextBooking` | bulk update with reminders: `_send_with_record` commits before it sends and after |
| `Fail` | an error, a statement timeout (of the waiting INSERT too), a crash |

An endpoint commits `once`, with its response (resend event, temporary password, `nps/send`); or `early`, the work first
and the response in a second transaction (record-payment, both replays, resend-last-email, bulk without reminders,
dead-letter batch); or `each`: bulk with reminders, which for every booking that has one commits the PENDING row and
the changes so far (`email_service.py:470`), sends (`:480`) and commits again (`:496`, `:516`). The first two kinds
call out before anything is committed, the third after. `queried` are `nps/send` (`booking_id`) and the dead-letter
batch (`limit`).

* `PromiseKept`: the key implements `KeyPromise`, the abstract specification of what a client may rely on. One request does the
  work, perhaps in parts; its response, saved only when all of it is done, stays; whoever asked for what counts as the same
  is told it or to wait, whoever asked for something else is refused. It does not promise that work once begun is finished.
* `AnswersAreTrue`: a replayed answer is about work committed to the last part by a request that hashes alike, and asks
  for the same unless the endpoint is `queried`; a pending or conflicting one about work begun; success means that all
  parts are committed; an endpoint with one transaction answers an error only when nothing was committed.
* `CallsOutAlone`: nobody calls out once another request has committed anything, or while an earlier call may still count.
* `EveryoneIsAnswered`: waiting for a claim ends.

The run `admin_idempotency` has 3 requests, 2 payloads, one query parameter or none and 2 parts of work, at every kind of
endpoint: a claimant, one that waits or comes after, and one more with another payload or other parameters; two parts
are the least of which one can be missing. Fairness (`WF` on each request's step): a handler goes on, and
a waiter is woken when the holder is gone. No fairness on failures or arrivals.

`AdminIdempotencyProofs` proves `TypeCorrect`, `AtMostOneEffect`, `AnswersTrue`, `NobodyElseCalls` and `ImplementsPromise`
for any requests, payloads, query parameters and number of parts. `RowIsTheEffect` (the row is committed with the first part,
by its claimant, and saved only when all parts are), `WorkersOwn` (whoever works holds the claim or the pending row) and
`InOrder` (what a request has committed follows from where it is) carry the argument; `ClaimIsFresh`, `QueriesMatter` and
`CallersAreSettled` add that a claim is held only while there is no row, that only a queried endpoint is asked with parameters, and
that who called out is still at it, has committed something or was answered with an error. In the refinement each action of a request is one action of `KeyPromise`
or, for a claim, a call out and the commit after it, a stutter. `SuccessIsKept` says that success is told from a saved row only and that
such a row never changes. `PendingForGood` is the other side of it: a claimant that fails between two commits
leaves a row that stays pending for ever, work that stays as far done as it was, and nobody is told of success. Liveness
stays with TLC.

Left out: the rate limit that some endpoints check before the claim. `mark_failed` has no caller, so `"failed"` rows do not occur.

Observed: after an early commit (`routes_admin.py:10157`, `:10194`) a failure leaves a PENDING row that nothing completes, and retries
get 409 for ever (`PendingForGood`), against `backend/SECURITY_MODEL.md:55`; at bulk with reminders a part of the bookings
is changed and notified then, and the rest never under this key; query parameters are outside the fingerprint
(`idempotency.py:71`), so that `nps/send` for another booking under the same key is answered with the first one's response; a
crash between the call out and the commit lets the retry call out again (the reason for "failed" in `CallsOutAlone`);
the key is optional at record-payment and absent at mark-paid, against `backend/CONTENT_GUIDE.md:32`.

## CircuitBreaker

One breaker and its concurrent calls. The lock is never held across an `await`, so each of
`_ensure_available`, `_record_failure` and `_record_success` is one step; what interleaves is the time calls take.
Instances in the code: Stripe (5 failures, 30 s, window 60 s, 2 probes), email (5/30/60/1), storage (4/20/60/1).

| Model | Code |
|---|---|
| `state`, `failures`, `halfOpenCalls` | `_state`, `_failures` (as ages), `_half_open_calls` |
| `openedFor` | time since `_opened_at` |
| `call`, `rest` | history: how each running call was let in; what is left of the recovery time |
| `AdmitClosed`, `AdmitFirstProbe`, `AdmitProbe` | `_ensure_available` |
| `Fail`, `Succeed`, `Cancel` | the end of a call; a cancelled one records nothing |
| `Tick` | `time.monotonic()` |

Ages stop at the first value that no longer makes a difference, so time is unbounded.

* `ClosedIsHealthy`: closed means fewer recent failures than the threshold.
* `ProbesBounded`: at most `half_open_max_calls` probes of one half-open phase.
* `RestIsKept`: no call is let in before `recovery_time` is over, unless a running call succeeded.
* `HalfOpenIsDecided`: half-open ends (violated).

| Run | Instance | Shows |
|---|---|---|
| `circuit_breaker` | 3 callers, threshold 3, recovery 2, window 3, 2 probes | the first three |
| `circuit_stuck` | 2 callers, threshold 2, 1 probe, `FairSpec` | the finding below |

Recovery is shorter than the window, as in every instance of the code, and both are long enough
for a failure to leave the window between two others.

Fairness: time passes; a call ends, since each use of a breaker bounds its calls by a timeout; somebody calls again.

Finding, `circuit_stuck`: a probe that is cancelled, or that fails when the older failures have left the window, leaves the breaker half-open
with its probes used up (`circuit_breaker.py:101`). `backend/tests/test_circuit_breaker.py:26` and `:40` expect a probe to open or close
it, and `backend/ops/prometheus/alerts.yml:124-125` tells operators to retry once the dependency recovers. The theorem `StuckForGood`
proves that no call is ever let in again.

`CircuitBreakerProofs` proves `TypeCorrect`, `ClosedMeansHealthy`, `ProbesAreBounded`, `DependencyRests` and `StuckForGood` for any callers and limits.
The invariant adds `Resting` (in the open state the rest and the time since opening make up the recovery time; in any other the
rest is over) and `Counted` (the probes that run are at most those counted).

Observed: a late success of a call from before the breaker opened closes it early; a late failure re-opens it
or holds it open longer.

## Plan

Done: `DepositBooking`, `StripeWebhook` with `EventPromise`, `Outbox`, `Schedule`, `InvoicePayments`,
`StorageQuota`, `AdminIdempotency` with `KeyPromise`, `CircuitBreaker`, each with its proofs.

Next, most important first:

1. Disputes and their booking side (`routes_payments.py:664`: a dispute that arrives after it was closed opens it again).
2. Subscriptions: the scheduled creation of orders and what keeps it from creating one twice.
3. Break glass and read-only mode; time tracking; SaaS billing and its usage limits; export dead letters.
4. The rate limiter, and as pure functions the deposit policy and the cancellation windows.

## What is proved and what is only checked

Every safety invariant, action property and refinement of the passing runs is a theorem, for every value of the constants
that the named assumptions allow. The liveness properties (`PaymentReflected`, `ExpiryFreesSlot`, `EveryEventAnswered`,
`EverySettled`, `EveryoneIsAnswered`) rest on TLC: fairness and ENABLED are outside the prover's reach. Two theorems have a
hypothesis, given above, because the code does not keep the property without it: `ConfirmedIsPaid` (no endpoint writes
CONFIRMED by hand) and `NobodyIsStranded` (the automatic replay is off; `outbox_stranded` shows what happens when it is on).

Five theorems go beyond the runs: `NoMoreThanCaptured`, `BooksAgree`, `SuccessIsKept`, `PendingForGood` and `StuckForGood`; so do
`AtMostOneEffect`, which the run checks as a part of `PromiseKept`, and the invariants named above.

## What is not modelled

`PROJECT.json` lists every component with its reason. In short: the parts the plan still names; calls
to external services that keep no state here (calendar, accounting and export integrations);
reads and projections (boards, reports, analytics); single-transaction CRUD without a protocol;
authentication, configuration, templates and the front end.
