# Novex: TLA+ specifications of the order backend

Novex sells courier deliveries of several carriers: a customer gets quotes,
pays an order, the backend books it with the carrier's API, and the order is
followed until it is delivered. The backend (`src/backend/app`, FastAPI and
SQLAlchemy on PostgreSQL), its workers (`src/backend/workers`, Redis streams
and periodic jobs) and the gateway to the carriers
(`src/backend/carrier_gateway`) are modelled here, as far as money, bookings,
prices, tokens and order statuses can be brought out of step by concurrent
handlers, failures and retries.

Run a model from this directory with `tlc -config <cfg> <MC module>`, check the
proofs of a module with `tlapm <module>.tla` (the modules named `...Proofs`).

## 1. The system

| Part | State | Operations | What is hard about it |
|---|---|---|---|
| Order status machine (`common/status_machine.py`) | none (a table) | `can_transition`, `transition_order` | every service asks it about the copy of the order it holds |
| Dispatch worker (`modules/dispatch`, `workers/consumers/dispatch_consumer.py`, `workers/jobs/dispatch_orders.py`) | `dispatch_jobs`, the order's status and lock, the shipment's carrier number | create job, `run_once`, `_process_job`, `retry_for_order` | two commits around a carrier call, rollbacks that drop the row lock, answers that get lost, three ways to pick up the same job |
| Carrier gateway and API clients (`carrier_gateway/gateway.py`, `core/carrier_gateway_client.py`, `carriers/api_clients`) | the carrier's invoices, a call in progress | create, cancel, label, courier call, prices | resends on stale connections and on 5xx, time limits on both sides, keys that make a repetition harmless with one carrier and not with another |
| Payments (`modules/payments`, `api/v1/payments.py`) | `payment_transactions`, `provider_webhook_events` | initiate, proof, approve, reject, refund, provider's webhook | nothing locks; one confirmation is two commits |
| Commission ledger (`modules/commissions`) | `commissions` rows | record, reverse | a reversal is a second row, found by a read without a lock |
| Cancellations (`modules/cancellations`, `workers/jobs/retry_cancellations.py`) | `cancellation_requests` | request, approve, reject, retry by staff, retry by the job | the carrier is called between read and commit; the job re-checks what its session has cached |
| Tracking (`api/v1/carrier_tracking.py`, `modules/carriers/polling`, `modules/tracking`) | `tracking_events`, `tracking_webhook_events`, a Redis lock | webhook, poll, portal, staff event | a batch is read before the carrier calls and written after them; events come twice, late, out of order |
| Admin endpoints (`api/v1/admin_orders.py`) | none of their own | set any status, retry dispatch, mark dispatched, retry pickup, refresh waybill | outside the status machine, at any moment |
| Orders (`modules/orders`, `api/v1/orders.py`) | `order_drafts`, `shipment_packages` | select, draft, details, recalculation, checkout, delete, reschedule | a price computed from one reading and stored over another; packages replaced without a lock |
| Quotes and tariffs (`modules/quotes`, `carriers/tariff_engine.py`) | quote sessions, `carrier_tariff_rates`, zones, regions | quote, recalculate | two implementations of one tariff; tables read one after another while staff replace them |
| Carriers' administration, settings (`api/v1/admin_carriers.py`, `admin_carrier_api.py`, `carriers/creds_cache.py`, `platform_settings`) | credentials, settings, tariffs, their cache in Redis | upload, save, switch, sync | invalidation before or after the commit, beside readers that fill |
| Worker process (`workers/main.py`, `scheduler.py`, `consumers`) | Redis streams with pending lists, job locks with a time to live | tick, consume, recover, lock | crash between effect and acknowledgement; a lock deleted by one who no longer holds it |
| Identity (`modules/identity`, `core/security.py`) | users, profiles, one-time and refresh tokens in Redis | register, verify, login, refresh, reset, profile | read, use, delete in three steps |
| Notifications, documents, address book, reviews, audit, frontend | single rows, files, pages | create, read, update, delete | little, but for the e-mail queue and the label: no state another handler decides on |

`PROJECT.json` lists the same parts with the files of each, what is modelled of
it, and the reason where it is not; under `hazards` it names, line by line, what
can go wrong and which property would notice.

How the parts meet: they share rows and call each other in-process. A quote
becomes a draft, is priced again when its details are saved, and checked out. A
payment that is confirmed records a commission and creates a dispatch job; the
worker books through the gateway and moves the order to `sent_to_carrier`;
tracking moves it on; a cancellation, a refund, a provider's event and an
administrator can move it at any time. Sessions run at READ COMMITTED with
`expire_on_commit=False` and no version column, and the ORM updates by primary
key the columns that changed in memory. So every handler is *read, perhaps call
the carrier, write*, and whatever committed in between is overwritten unless a
row lock, a unique constraint or a second check prevents it. That is the shape
of all models here: a handler is a read action and a write action, and its
record holds what it read.

What makes the parts correct:

- dispatch: the carrier is called only for an order that is queued and locked,
  and a second invoice is never made while the first number is known; a sent
  order has a booking; a queued order is eventually handled;
- gateway: no number the platform was told is dropped; a repeated request does
  not book twice where the carrier knows the order's number; one courier comes;
- payments and ledger: an order that travels is paid once and its commission
  counts once; what is cancelled gives the money and the commission back;
- cancellations: an approved request and an invoice the carrier has cancelled
  mean a cancelled order until some other handler moves it; retries stop;
- tracking: an event is applied at most once, a delivery is neither lost nor
  left unseen;
- orders: what is charged is the price of the order, which is the price of what
  it holds; a paid order is not deleted;
- tariffs: a grid is whole, quote and recalculation agree, a parcel is charged to
  the next half kilogram, what is cached is current;
- workers: nothing accepted into a queue is lost, and one replica does a job;
- identity: a token does its work once, an answered edit is kept.

## 2. The modules

| Module | Models | Properties |
|---|---|---|
| `OrderStatus` | the status table and its test | |
| `Dispatch` | job queue, worker, carrier calls, and the handlers that race with them | safety, refinement |
| `DispatchPolling` | the queue of `Dispatch` behind the scheduler of `WorkerJobs` | liveness |
| `CarrierBooking` | what dispatching promises about the carrier, seen from one order | the abstraction `Dispatch` implements |
| `Gateway` | one order's way through the worker's call, the gateway and the three API clients; the courier call; the label | safety |
| `Payments` | transactions, ledger and jobs of one order | safety, action property |
| `Cancellations` | cancellation requests of one order, the retry job, and the handlers that move the order | safety, liveness |
| `Tracking` | poller, webhook, portal and staff on one sent order | safety, liveness |
| `Orders` | a quote session and the order made of it, up to its payment | safety |
| `TariffEngine` | weights, zones, bands and prices as functions, used by `Tariffs` | theorems |
| `Tariffs` | tariffs under administration, a quote and its recalculation; extends `Caches` | safety |
| `Caches` | credentials and settings read through Redis | safety |
| `WorkerJobs` | the loop of a worker process, its scheduler and the lock of a job | safety, liveness |
| `MailStream` | e-mail from publication to SMTP, with the consumer group | safety, liveness |
| `Identity` | accounts, profiles and tokens | safety |
| `DispatchProofs`, `CancellationProofs`, `PaymentProofs`, `GatewayProofs`, `WorkerProofs`, `TariffProofs`, `TrackingProofs`, `IdentityProofs` | the theorems of section 4 | |
| `MC...` | the instances TLC checks | |

One order stands for each in all component modules but `Dispatch`, because no
row they touch belongs to two orders; `Dispatch` has a set of orders, since
workers, which go from one to the next, are what orders share. `DispatchPolling`
composes the queue with the scheduler, `Tariffs` the tariff functions, the
administration and the cache. Otherwise a module contains what the others do to
its order: as a read and a write where the write may come late (`MoveRead` and
`MoveWrite` in `Cancellations`), else as single atomic steps (`Ship` and
`CarrierCancels` in `Payments`, `Approve` in `Orders`, the job's outcome in
`Gateway`).

### Dispatch

`status`, `job`, `waybill` are the tables; `lock[o]` is the row lock that
`_process_job` takes with `SELECT ... FOR UPDATE`; `wk[w]` is the local state of a thread
that runs `_process_job`, `se[s]` of a request. `booked` and `alive` are the
carrier's side. Actions follow the transactions of the code: `Claim` is the
commit of PROCESSING, `LockOrder` the locking read with the status check and the
idempotency guard, `CarrierAccepts`, `CarrierAcceptsAndRaises` and
`CarrierRefuses` the call with its answers (accepted, accepted and the answer
lost, refused for now or for good), `ReadFailure` and `WriteFailure` the
bookkeeping of an exception, `Complete` and `CompleteFails` the final commit,
`ReadPosting`, `Persist` and `PersistFails` the attempt to save the number after
that commit failed, `Crash` the death of the process anywhere. `PollPick` and `StreamPick` are
the periodic job and the consumer, `RetryRead` and `RetryClaim` the admin's
retry. `CancelRead`, `CancelAtCarrier` and `CancelWrite` are a cancellation,
`MarkRead` and `MarkWrite` `mark_dispatched`, `OverrideRead` and `OverrideWrite`
`update_order_status`, `Reschedule` the endpoint that never commits.

In `Dispatch` the poller picks what is due whenever it likes.
`DispatchPolling` takes that liberty away: the thread of a worker process polls
only while its scheduler is inside `dispatch_orders` (`Poll`), and the loop of
`WorkerJobs`, with its clock per function name, decides when that is (`Schedule`).

`CarrierBooking` has, per order, the phase of its booking (open, number in hand,
number lost, number recorded) and the count of invoices. `Dispatch` maps to it
with `count <- booked` and the `phase` computed from `waybill`, `lost` and the
numbers in workers' hands. A numberless acceptance counts as an accepted number
that was lost.

### Gateway

Where `Dispatch` has one step for the carrier's answer, `Gateway` has the way
there: the worker's attempt, the HTTP client that sends a request again on a
stale connection, the gateway's handler (book, then ask for the label, and
answer without one), and behind it the three clients. They differ in what makes
a repetition harmless: Azimuth is given the order's own number and refuses it
the second time; Exline is given `NOVEX-<id>`, its client repeats a 5xx, and a
repeated key is answered with an error that names the booked number; CSE picks
the number itself and books again. A call's record outlives the call, so that a number whose answer
was cut off (`cut`) can be told from one the platform knew. `WorkerCallsCourier`
and `RetryPickup` are the two ways to Azimuth's courier, each a check and a
later request, `RefreshClears` and `RefreshStores` the replacement of a label, with
the Redis key and the files dropped before the commit, beside a download that
caches what it has read. `excused` and `torn` remember the overlaps and losses
the code does not exclude.

### Payments

Each request is idle or holds what it has read: the order's status, a
transaction, the active commission, the jobs to cancel. `Aged` marks every
request under way when something commits, `raced` remembers that one then
committed on such a stale read. The code does not exclude these races, so the
properties that relate payments, ledger and status are stated for `~raced`:
they say that any sequence of overlapping but not conflicting handlers, crashes
between the two commits of a confirmation and repeated provider events keep the
three in step. `LedgerNeverOverstates` needs no such condition and holds in every
interleaving. `dropped` marks the confirmation that died between its commits,
`mirrored` the order that followed a carrier's cancellation without its
commission: the webhook and the poller change the status only, while staff's
`add_event` reverses (`EventWrite`), and `LedgerMatchesOrder` says exactly that.
The development shortcut that confirms a mock payment is in `Orders`.

### Cancellations

`req` is the table, one record per request, `invoice` the carrier's side,
`se` and `job` the local states. `copy` is the object of a session's identity
map: `auto_retry_api_cancel` re-reads its request with `session.get`, which
returns the copy the job has listed, so `JobCheck` decides on it; a rollback
expires it (`JobExpires`). Replicas of the job may overlap here, whatever its
lock does. `adrift` marks that the carrier agreed and the answer, or the handler
that had it, was lost.

`mv` are the other handlers that move the order: the confirmation of a payment
and the retry of a dispatch (`QueueRead`), the dispatcher's giving up and the
carrier's rejection in its portal (`FailRead`), webhook, poll and the portal's
buttons (`EventRead`), `mark_dispatched` (`MarkRead`) and the status override
(`OverrideRead`). Each checks the transition on the order it has read and writes
by primary key at its own commit (`MoveWrite`), so any of them may put its status
over `cancelled`; `revived` marks that one did, which the properties name as
the way to an approved request, or a dead invoice, on an order that is not cancelled. The
dispatcher's success holds the row lock from its check to its commit and is one
step (`Ship`).

### Tracking

`path` is the carrier's story of the parcel, `known` what its systems have by
now, `stored` and `hooks` the two tables. A poll is `Start` (lock and batch
read), `Fetch`, `Dedup`, `Apply`, `Finish`; `Apply` folds the new events over
the status read in `Start`. A handler that moves the order from a status it no
longer has sets `raced`. `DeliveryIsNotLost` lets an order stay cancelled only
if an earlier event of the same story cancelled it: the status table has no way
from there to `delivered`. A live poll ends before its lock does, as the rule for
`POLLING_LOCK_TTL_SECONDS` in `config.py` asks; the lock of a dead one runs out
(`Orphan`).

### Orders

`quote` is a session with its rates, `order` the draft made of it with its
packages, `charges` the amounts of its payment transactions. A price is the rate
and the weight it was computed from, so that two prices are equal when they were
computed from the same. A request reads (`...Read`), asks the carrier for a
price (`EditPrice`) and commits (`...Commit`); the locks PostgreSQL takes on the
way (the selected rate, the deleted packages) decide who waits for whom. `marks`
remembers what the state does not show: `late`, a request that committed on what
it had read too early; `missed`, two forms that did not see each other's
packages; `renewed`, a draft made anew from its quote; `unpriced`, a
recalculation that found no price.

### Tariffs, TariffEngine, Caches

`TariffEngine` has the arithmetic: chargeable weight (in grams, rounded up to the
next half kilogram), the zone of a route by built-in lists, Azimuth's regions or a carrier's own table, the band of a grid,
the steps begun, the last band's fallback. A grid where bands overlap leaves the
choice to the database, so `PricesFor` is a set, and `RecalculationAgrees` is
about the grids in which no two bands start at one weight (`Unambiguous`). `Tariffs` has the rows staff
change, and a quote that reads the regions, the grids and the tables in that
order, asks the live carriers with credentials from the cache, and is later
repeated by the synchronous twin. An upload is the UPDATE that switches off what
was committed before it (`UploadRead`, which also locks those rows against
changes by hand, `Locked`) and the commit of the new rows; an upload under way
when another of its service commits is `late`, as its UPDATE has not seen the
other's rows, and `mixed` names the services whose last upload was. The code rounds
floating-point products: `round_up_to_half(0.07 * 50)` gives 4.0, since the
product is 3.5000000000000004. Quote and recalculation make the same error, so
that they agree all the same; the model is exact. `Caches` has two kinds of keys: credentials,
whose entry is deleted after the commit, and settings, whose entry is deleted
before it. A reader is a lookup, a row read and a fill in three steps; Redis may
fail at each.

### WorkerJobs, MailStream

`WorkerJobs` counts time in pauses of the main loop. `since` holds, per process
and *function name*, the age of the last run; the names are the constant
`NameOf`, which gives all jobs one name as the code does. A job's body is between
SET NX EX and an unconditional DELETE, and the key may run out while its holder
is inside (`overrun`). `MailStream` has the stream, the group's position, the
pending list of each host name, and a consumer thread that recovers, reads,
sends and acknowledges, with a fault possible at every call of Redis or SMTP.

### Identity

An account, its profile row, the tokens issued. A request looks a link's token
up, does its work, and deletes it, in separate steps; a refresh token is taken
atomically (`consume_refresh_token`). Two first edits of a profile meet the unique constraint, and the loser
lays its fields over the winner's row (`EditCommit`). `loose` marks the links
two requests held at once, or whose deletion was lost.


## 3. The runs

| Run | Instance | Shows |
|---|---|---|
| `dispatch` | 1 order, 2 workers, 1 request, 2 attempts, 2 jobs, 2 invoices, 1 crash, 1 retry, override to `dispatch_failed` | type, the five safety properties of dispatching, the inductive invariant, and that `Dispatch` implements `CarrierBooking` |
| `dispatch_polling` | 1 order, 1 worker process with its scheduler and its consumer, 1 request, 2 jobs of one name (60 s and 30 s), with fairness | **violated**: `QueueDrains`, the fallback polling `admin_approve` counts on (`payment_service.py:308`): the job of 30 seconds resets the clock of `dispatch_orders`, and an order without a stream message stays queued |
| `reschedule` | 1 worker, 1 request | **violated**: `reschedule_pickup` cancels the waybill at the carrier and loses its own changes |
| `payments` | 2 requests, 1 provider event, 2 transactions, 4 ledger rows, 2 jobs, override to `cancelled` | the ledger never overstates; without stale commits, payments, ledger and order agree; a cancellation leaves no payment that nobody returns |
| `cancellations` | 2 requests under way, 2 job replicas, 1 mover, 2 of them busy at a time, 2 requests filed, the 3 attempts of the code, 1 failure, with fairness | approved requests and dead invoices mean cancelled orders unless a mover came later; scheduled requests have attempts left; automatic retries stop, with lost counts |
| `tracking` | 2 pollers, 2 handlers, stories of 1 and 2 events (among them a parcel delivered after its cancellation), 1 failure, with fairness | webhooks applied once, stored deliveries shown, deliveries seen by polling alone |
| `workers` | 2 processes, 2 jobs of one name (60 s and 30 s), a slow tick of 2 pauses, with fairness | two in a job only after an overrun; the job of the shortest interval recurs |
| `mail` | 2 host names, 3 messages, batches of 2, 2 faults, 1 death, with fairness | an e-mail is repeated only after a lost answer, none leaves the pending list untried, each is tried |
| `identity` | 1 address, 3 overlapping requests, 2 profile fields, 2 tokens | a token does its work once but for named overlaps; answered edits are kept |
| `orders` | 2 requests, 3 rates (1 of CSE), parcels of 1 and 2 kg, 3 forms, 1 order | the charge is the order's price, which is that of its packages; packages of one form |
| `tariffs` | 2 uploads, 2 edits, 1 quote of 2 services of 2 carriers; in other behaviours 2 saves, 2 readers, 2 administrators | grids are whole unless the last upload was late, quote and recalculation agree, the cache is current but for named reasons |
| `gateway` | 3 carriers, 2 staff requests, 2 attempts, 2 tries of the client, 3 calls, 1 fault, 2 courier calls, 2 label files | no known number is dropped, one invoice per sent order, one courier, the label is in storage |

Why these bounds are enough: every race here is between two actors (a worker
and another worker, a handler and a worker, a poll and a handler, two forms,
two uploads, a reader and a save), and every property is about one order, one
account or one key, so two actors on one of them produce it. Two attempts are
the least with a first, a last, and a retry between them; two invoices are what
a duplicate needs, and three calls what a resend and a retry after it need; two
jobs are what a second job for the same order needs. One crash or failure in
each place is enough for a property that a single loss can break; `mail` has
two, since a message is retried, and three messages in batches of two make a
second batch. Four ledger rows hold two records and two reversals. The two-event
story of `MCTracking` has an event to regress to after a delivery, the short
ones a status that is not polled and a code that no map knows. Three retries and two
replicas let the schedule of a cancellation begin, go on, lose a count to an
overlap, run out and end; other numbers are covered for the safety properties by
`CancellationProofs`. The two jobs of `workers` are `dispatch_orders` and
`retry_cancellations`, whose functions share a name and whose intervals differ
by the factor two.

`MCOrders` does not extend a state in which a request has committed on what it
had read too early (`NotLate`); the state itself is checked, and the properties
promise nothing after it. `MCCancellations` (`Explored`) likewise stops at a
state in which the order was revived, has two of its five handlers between a read
and a write at a time, leaves the second cancellation request to people, and the
attempts after the first to people and the job. `MCTariffs` (`Apart`) lets a behaviour change tariffs
or credentials and settings, not both: the two share no row, and a quote that
reads a credential only learns whether there is one. Symmetry (requests, staff,
profile fields, rates of one kind) is used in runs without temporal properties.

`CHECK_DEADLOCK FALSE` is in every configuration: an order that is delivered or
cancelled, a stream that is read to its end, or a bound that is used up is the
end of the story. The modules `Payments`, `Tracking`, `WorkerJobs`, `MailStream`
(`MailTypeOK`), `Identity` and `Orders` (`OrderTypeOK`) define a type invariant as
well; it says only what the declarations say, so their runs do not list it, and
an `INVARIANT` line in a configuration checks it.

### Configurations that end in a counterexample

The runs `reschedule` and `dispatch_polling` are recorded as findings: the code
does what its own comments exclude. `MCDispatchPollingNamed` is the second with a
name for each job: there TLC finds `QueueDrains` kept. These further configurations, which TLC ends with a trace,
show behaviours that a docstring or a comment reads as impossible, and that a
reader may judge to be accepted races or unclear wording. They are kept beside
the runs, as the reason for the conditions in the properties:

| Configuration | Property | What the trace shows |
|---|---|---|
| `MCDispatchCancelRace` | `CancelSeesDispatch` | a cancellation reads the order before the carrier call and writes after the dispatcher's commit: `sent_to_carrier` is overwritten (`dispatch/service.py:187` says it waits and sees it; `cancellations/service.py:641` writes what it has read) |
| `MCDispatchCancelledFinal` | `CancelledIsFinal` | the bookkeeping of a failed attempt writes over a cancellation (`dispatch/service.py:375`; `status_machine.py:31` gives `cancelled` no successor) |
| `MCPaymentsDoubleStorno` | `ReversalsCancelOut` | two overlapping reversals insert two offsetting rows (`commissions/service.py:133-138`: the read that makes a second call a no-op takes no lock) |
| `MCPaymentsPendingRefund` | `PendingRefundCanFinish` | `admin_refund` accepts a pending refund (`payment_service.py:490-492`) and then asks for `cancelled`, which a cancelled order may not become again (`:529`) |
| `MCCancellationsTerminal` | `DecisionsAreTerminal` | a handler that read a request pending decides it a second time (`cancellations/models.py:18`; `cancellations/service.py:346`) |
| `MCCancellationsRevived` | `NotRevived` | a handler that read the order before the cancellation writes its status over `cancelled`; the double check of `accept_order` (`carrier_portal.py:686`, "Двойная защита от «оживления» отменённых/доставленных заказов") looks at the order it has read |
| `MCWorkerJobsStarve` | `EveryJobRecurs` | the scheduler keeps the last run by `fn.__name__`, which is `run` for every job (`workers/scheduler.py:27`): a job of 60 seconds is never due again when one of 30 seconds keeps resetting the shared clock (`payment_service.py:308` counts on the polling job) |
| `MCOrdersCheckout` | `CheckoutPricesParcel` | an order of CSE reaches checkout with a price that is not that of its saved packages (`orders/service.py:365-366` names the promise, `:371` is where it goes by the quote) |
| `MCOrdersDeleted` | `PaidIsKept` | an order read as a draft is checked out and paid before `delete_draft` deletes it by id, its payment with it (`orders/repository.py:310`; `orders/service.py:470`, "Удалить можно только неоплаченный заказ", holds of the order it has read) |
| `MCTariffsMixed` | `UploadReplaces` | two uploads of one service's grid overlap and the rows of both are active (`admin_carriers.py:401`; the docstring, "Заменяет все активные строки") |

### Fairness

- `DispatchPolling`: each worker that can go on does (threads keep running, the
  carrier's client has timeouts), a job's delay runs out, the scheduler's thread
  polls what is due when it is inside the job and otherwise goes on, keys expire.
  That some process lives and its jobs stop raising is the premise of
  `QueueDrains`. Not fair: staff, the stream consumer.
- `Cancellations`: a job that is running goes on, delays run out, a due request
  is listed by some replica. This job's interval, 30 seconds, is the shortest,
  so that `ShortestJobRecurs` justifies it. Nobody has to decide.
- `Tracking`: a running poll goes on, a poll is started whenever the lock is
  free and the order is polled (the container `tracking-poller` does nothing
  else, every two minutes), a dead poll's key runs out. No webhook has to come.
- `WorkerJobs`: a process is restarted, its loop goes on, keys expire. Not that
  jobs succeed or are short: `ShortestJobRecurs` says from when.
- `MailStream`: when no worker runs, one is started; its main loop restarts its
  threads; its threads run. Faults and deaths are bounded.

These are weak fairness conditions on steps that stay enabled until taken. The
exceptions of the code are bounded in number by the models; a carrier that
fails for ever is the business of the attempt counters.

## 4. The proofs

Every invariant and every action property that a passing run checks is a theorem,
for every value of the constants that satisfies the module's named assumption.
The proofs have one form: an inductive invariant, `Init` implies it, each action
keeps it, it implies the property, and one temporal step.

`DispatchProofs` proves, for any finite or infinite sets of orders, workers and
sessions and any bounds that satisfy `DispatchAssumption` (the lock's free value
is no worker, the bounds are naturals, overrides are statuses):

- `TypeCorrect`: `Spec => []TypeOK`.
- `BookingCorrect`: `Spec => []BookingInv`, and from it `CallsAreLocked`
  (`CallUnderLock`), `NoNeedlessDuplicate` (`DuplicateOnlyAfterLoss`) and
  `SentOrdersAreBooked` (`SentWasBooked`).
- `DispatchImplementsBooking`: `Spec => BooksOnce`, that is, every step of the
  interleaved workers is a step of `CarrierBooking` or leaves it unchanged.
- `AttemptsAreBounded` (`AttemptsBounded`) and `QueuedOrdersHaveJobs`
  (`QueuedOrderHasJob`), from the invariant `QueueInv`.

The three properties about booking are not inductive alone. A worker that is about to call
could hold an order whose number somebody records meanwhile; so `CallUnderLock`
ties every worker from the locking read to the commit to the row lock and to
`dispatch_queued`, and `OpenWhileCalling` says that the idempotency guard's
observation (no number recorded) lasts as long as the lock, because every write
of a number needs the lock. `NumberRecordedHeldOrLost` says where an accepted
invoice's number can be: recorded, in the hands of the lock's holder, or lost.
Together with `OpenWhileCalling` it makes a second acceptance impossible unless
the first number was lost. `NumbersHaveOrigin` carries the fact that a number
comes from the carrier or from staff, which `SentWasBooked` needs at the final
commit. Their conjunction with `TypeOK` is `BookingInv`; TLC checks it in the
run `dispatch`. The proof has one lemma per action or group of actions; steps
that touch none of the variables of an invariant are discharged by `QuietStep`
and `WorkerQuiet`.

`QueueInv` adds to the types what a job's counter may be (`JobsOK`), that a job
under way is processing, or was cancelled meanwhile, and has the attempts the
worker that records its failure has read (`AtWork`), that one worker has it
(`Alone`), and what an administrator's retry has read (`RetriesOK`). All of
this is for at most one retry: the second of two that race requeues a job
another worker is in. `InHand` says of a queued order who will see to it; it is
stronger than `QueuedOrderHasJob`, in which any job in processing will do,
because a job stays in processing when its worker dies.

`CancellationProofs` proves, for any sets of sessions, replicas and movers, any
events and overrides, and any `MaxRetries` above 0 (`CancellationsAssumption`),
`TypeCorrect` (`TypeOK`), `ApprovalsCancel` (`ApprovedIsCancelled`),
`ConsentIsKept` (`DeadInvoiceIsCancelled`) and `SchedulesEnd`
(`ScheduledHasAttempts`). The inductive invariant `CancelInv` adds to these
properties what the handlers hold: the copy a replica goes by has attempts left
while it calls (so a count written from a stale copy stays in bounds), whoever
decides has a request, and `Seen`: a handler that read the order cancelled is
right for good, or some mover has revived the order (`Shut`). Without `Seen`, a
handler that skips the order because it read it cancelled could approve a
request of an open one that nobody reopened. The proof first says, actor by
actor, what a step makes of a handler's record (`Follows`), of a request
(`Settles`) and of the order and the invoice (`OrderMoves`, in which an order
leaves `cancelled` only by a mover's commit, and that sets `revived`), and then
derives each part of `CancelInv` from these three.

`PaymentProofs` proves, for any number of requests, events, transactions and
rows (`PaymentsAssumption`):

- `LedgerIsOffset` (`LedgerNeverOverstates`), in every interleaving. A request
  may reverse a row that another has reversed meanwhile; what makes the ledger
  safe all the same is that it can be reversed already but is neither gone nor
  itself a reversal (`RowsAreHeld`), and that each inserted reversal goes with at
  most one row that becomes reversed (`Offset`, with lemmas on the cardinality of
  the rows of one kind).
- `TypeOKAlways`, `DispatchedIsPaidOnceAlways`, `PaidIsBeingQueuedAlways`,
  `LedgerMatchesOrderAlways`, and the action property `CancelReturnsMoneyAlways`.
  They speak of behaviours in which no request commits on what has changed, and
  rest on `PayInv`: what a request that is not stale has read is so (`ReadsOK`),
  and order, payments and ledger are in one of six situations (`InStep`). `InStep`
  names the paid transaction and the active row instead of counting them; the
  counts of the properties are computed from it at the end.

Its second part is about `Orders`, since a draft is the order before its payment
(the two modules share no name, so that one can extend both). Under
`OrdersAssumption` it proves `ChargedAsPricedAlways`, `PackagesOfOneFormAlways`
and `PricedAsSavedAlways`, of `OrderSpec`. `DraftInv` adds to the three invariants what a request goes
by (`RequestsKnow`): its own price is of a package it is about to save, unless
the order has packages it has not seen, and an edit or a deletion has found the
order in a status it may be edited in; and that an order with a charge is past
its checkout, and is priced by CSE's rate exactly if it has one (`ChargesOK`).

`GatewayProofs` proves, under `GatewayAssumption`:

- `OneInvoicePerSentOrder` (`SentIsTheOnlyInvoice`), from `OneNumber`: every call
  to Azimuth or Exline under way asks by the order's number, so no other can be
  booked, come back, be held or be recorded.
- `OneCourier` (`CourierIsCalledOnce`), from `OneCaller`: while nobody is
  excused, whoever is about to call a courier is alone, nobody has called one,
  and a courier that came is recorded or about to be.
- `NoInvoiceForgotten` (`NoInvoiceIsForgotten`), from `InvoiceInv`: an invoice
  that is alive is the waybill, or the number of a call that is on its way to
  the worker or was cut off from it, and a call that failed without a cut has
  no number.
- `LabelStored` (`LabelIsStored`), from `LabelInv`: while a label is replaced
  without a fault neither the cache nor a download names one, and otherwise what
  is named is in storage.

`WorkerProofs` proves `OneRunAtATime` (`OverlapNeedsOverrun`) under
`JobsAssumption`: while no run of a job has outlived its key, the process inside
is the one whose key it is (`HolderIsInside`), so that the unconditional DELETE
removes the run's own key. Its second part is about `MailStream`, whose consumer
is another thread of the same process, and proves, of `MailSpec` under
`MailAssumption`, `MailTwiceNeedsLoss` (`TwiceNeedsLoss`) and
`NoMailForgottenAlways` (`NoMailForgotten`). What makes them inductive is
`InHands`, by which a thread works only on what is pending under its name, and
`Sure`: a message that was sent once, and whose sending was not left open, is
pending nowhere but in the hands of the thread about to acknowledge it, so that
nobody finds it again.

`TariffProofs` proves

- `ChargedToTheNextHalf` of `TariffEngine`: what is charged covers both weights
  of a parcel and is less than half a kilogram above the larger;
  `HeavierInABand`: within a band a heavier and larger parcel is not cheaper,
  through both roundings. Across bands that is up to the uploaded rows, which the
  code does not validate. The arithmetic lemmas (quotients, steps begun) are
  proved from the definition of division.
- `CachedIsCurrentAlone` (`CachedIsCurrent`) for `CachesSpec`, under
  `CachesAssumption`; `DroppedIsGone` adds the case of a setting, whose entry is
  deleted before the commit that makes it old. `QuotesKeepCaches` says that
  `Tariffs` implements `CachesSpec`, whence `CachedIsCurrentAlways`.
- `OneGridAtATimeAlways` (`OneGridAtATime`), from `SeesItsGrid`: an upload under
  way that is not late has switched off every uploaded row that is active, since
  rows come only with the commit of another upload, which makes it late, and no
  row it has switched off is changed by hand before its commit; so its commit
  leaves the rows of its own file.
- `RecalculationAgreesAlways` (`RecalculationAgrees`), from `QuotesInv`: as long
  as nothing was edited since a quote began, its route, its rows and each price
  it has computed are what the synchronous functions compute from the tables as
  they are (`Fresh`). The two prices are the same because an unambiguous grid
  has one price for a weight.

`TrackingProofs` proves `TypeOKAlways`, `HookAppliedOnceAlways` and
`DeliveryIsNotLostAlways` under `TrackingAssumption`, for any stories made of
statuses the carriers' maps give and any number of pollers and handlers.
`HookAppliedOnce` needs that an event that was applied has its row
(`OnceWithItsRow`), which turns the second one away. `DeliveryIsNotLost` needs
that a poller between `Start` and `Apply` holds the lock and started from an
active status (`PollsUnderLock`), and that once a delivery is stored and shown
no poll is under way (`DeliveryEndsPolling`): without the lock a second batch,
begun before, would write its older status over it. What `Apply` makes of a
batch is a run of statuses, one per event; that there is one, and that it ends in
the delivery (`Followed`), is an induction over the events, done as the absence
of a least counterexample (`LeastElement`, `UpTo`).

`IdentityProofs` proves `TypeOKAlways`, `TokensAreUsedOnceAlways` and
`AckedEditsKeptAlways` under `IdentityAssumption`. A link is looked up, used and
burnt in three steps; `LinkOK` says of one that is not `loose` that one request
at most holds it and that, once its work is done, it is dead or that request is
about to burn it. A refresh token is dead from its first use (`TokenOK`). An
edit needs the account to exist, and nobody has a profile without one
(`ProfilesOK`).

Only model-checked is liveness (`RetriesEnd`, `DeliveryIsSeen`,
`ShortestJobRecurs`, `EachMailIsTried`): fairness and ENABLED are outside what
the provers handle. The invariant parts that a run does not list (`CancelInv`,
`PayInv`, `TrackInv` and so on) are in the proof modules; what a run lists of
them is the property they imply, and `BookingInv`.

## 5. What is not modelled

- Formatting, e-mail texts, labels, files, spreadsheets, wire formats of the
  carriers, encryption of credentials, hashing, signatures: data no property is
  about. A commission is one row that counts once, its amounts are not modelled.
- The application shell and the frontend; listings, exports, summaries and audit
  records, which only read or append.
- Address book, reviews, change of password or locale, configuration pages:
  single-row writes nobody else decides on, beyond a unique constraint.
- Notification rows: written beside the state, read by the customer only.
- The jobs that remove old files, repeat empty callbacks or fetch Azimuth's
  regions.
- The cooldown between two polls of an order; the overrun of the polling lock; notifications after a poll.
- Time is reduced to what may happen: a delay that has run out, a key that has.

Met while reading, outside what the modules state: `reschedule_pickup` goes on
when `cancel_invoice` answers False; `refresh_waybill` passes Azimuth the number
with its suffix where the numeric id is needed, and the gateway's second fetch
of a PDF passes Exline's barcode where the order's number is; an Azimuth order
whose answer was lost ends as `dispatch_failed` though it is booked, since its
number is refused from then on; an e-mail is published before the commit it
tells of; the consumer groups are created at `$`, so that what was published
before the first start is not read; the settings cache stores the caller's
default when there is no row; carriers that are switched off are still asked for
live prices; two `select_quote` may select two rates of one session; deleting an
expired quote that an order refers to fails on the foreign key;
`retry_azimuth_pickup` does not ask whether the order was dispatched; the
provider's cancellation leaves a paid transaction paid; its automatic
confirmation of an `awaiting_payment` order is refused by the status table.

## 6. The plan

Done so far: the core (`Dispatch`, `Payments`, `Cancellations`, `Tracking`) with
the first proofs, then the periphery (`Gateway`, `Orders`, `Tariffs`, `Caches`,
`WorkerJobs`, `MailStream`, `Identity`), then proofs of every safety property of
the runs, then the handlers that move an order under its cancellation and the
dispatch queue behind the real scheduler (`DispatchPolling`). Left, in this order:

1. `Tracking`: the overrun of the lock (a poll longer than its time to live),
   in the manner of `WorkerJobs`.
2. `OrderLifecycle`: one order through draft, payment, dispatch, tracking and
   cancellation, instantiating the component modules' atomic views, to check
   that the environments assumed in each are what the others do.
3. Proofs: `TypeOK` of `Gateway`, `Orders`, `MailStream` and `WorkerJobs` as theorems
   of their own (their invariants contain the types they need); an abstract
   booking of one order that `Gateway` implements as `Dispatch` does.
4. Markup and payout as functions, with the rounding of a commission's amounts.
