# Reservation engine: TLA+ models, checks and proofs

The program is a NestJS ticketing API. Customers book units of an event, pay, and may
cancel; the units of an event are counted in Redis, bookings, tickets and payments are
documents in MongoDB, and a BullMQ queue carries the delayed job that expires a booking
nobody paid. Several instances of the API may run at once, and inside one of them every
`await` lets the other requests go on. Nothing but Redis, MongoDB and the queue is shared,
so one step of a model is one command to one of these three with the code that follows it
up to the next `await`.

This directory holds the modules, the configurations TLC checks on small instances, and
the proofs TLAPS checks for every value of the constants. Paths below are relative to the
repository (`src/modules/...` is `src/src/modules/...` in `PROJECT.json`).

## 1. Inventory

| Component | State | Operations | Must be true of it |
|---|---|---|---|
| **Booking service** `modules/booking/booking.service.ts` with its schemas | booking documents (status, unique `idempotencyKey`, unique sparse `checkoutSessionId`), ticket documents (`valid`), `Event.availableTickets` | `createBooking`, `confirmBooking`, `failBooking`, `expireBooking`, `cancelBooking`, `handlePaymentSuccess/Failed`, reads | one booking per key; a sale is undone only by a cancellation; tickets, status and counter change together; no oversell; whoever closes a booking returns its units, once |
| **Payment event listener** and **expiry processor** | none | start a handler for an in-process event, `expireBooking` for a job | a dropped or repeated delivery does not harm a settled booking |
| **Availability** `modules/availability/availability.service.ts` with two Lua scripts | Redis `event:<id>:slots`, `hold:<booking>` | `checkAndHold`, `releaseHold`, `setEventSlots`, `deleteEventSlots`, `availableSlotsCount` (with a refill from MongoDB) | every unit is in the counter or with one booking; the counter is never negative |
| **Caching service** `core/caching/caching.service.ts` | Redis `lock:<key>` and plain keys | `acquireLock` (SET PX NX), `releaseLock` (DEL), get/set/del/hgetall/eval | mutual exclusion; a lock never stays for good |
| **Event storage** `modules/availability/event.storage.ts` | Redis hash `event:<id>:meta` | `getEvent`, `setEventMeta`, `delEventMeta` | an unpublished event is not bookable |
| **Event administration** `modules/event/event.service.ts` | event documents, through Availability and Event storage the two keys above | `create`, `update`, `publish`, `cancelEvent`, `remove` | the counter is set once per publication; no booking of a cancelled event |
| **Payments** `modules/payments/payments.service.ts` | payment documents | `processPayment`, which emits `payment.succeeded` or `payment.failed` | one stored payment per booking; only what was paid is sold |
| **Users, JWT, guards** `modules/user/`, `core/jwt/` | user documents (unique `email`, `role`), the tokens that were signed | `register`, `login`, `getProfile`, `findAll`; `JwtAuthGuard`, `RolesGuard` | one account per address; who registered can log in; the routes behind `RolesGuard` are for accounts of the role they ask for |
| **Logging** `core/logging/` | a context per request, the collection `logs` | middleware, `assign`, the interceptor's `tap`/`catchError`/`finalize`, `persist` | a log says what the client was told; errors are always kept |
| **Tickets module**, **distributed lock service**, **Redis module**, **abstract repository** | | | not used by the reservation engine |
| **Queue, database, configuration** | | | wiring |

How they interact. The controller calls `createBooking`; that reads Event storage, asks
Availability for a count and for a hold, writes the booking and queues the expiry job.
`processPayment` reads the booking, waits for the (simulated) gateway, stores a payment and
emits an event in the same process; the listener passes it to the booking service, which
takes a lock named after the booking and confirms or fails it. The expiry job takes no
lock, nor does `cancelBooking`. All of them end with `releaseHold` when they close a
booking. In front of every controller stand the logging middleware, the guards of the route, the
logging interceptor and the validation pipe, in Nest's order; they share the context of the request
and with other requests only the collections of users and logs.

What is hard here, in one list (each item is a hazard in `PROJECT.json`, at its line):

* *Interleaving.* Confirmation, failed payment, expiry job and cancellation of one booking
  meet; only two of the four take a lock, and that lock has a TTL. Confirmation reads a
  status and writes it later by `_id` alone.
* *Locks that run out.* `releaseLock` is an unconditional DEL: a section that outlived its
  TTL deletes the lock of the next one.
* *Partial failure.* The document is stored before the hold is granted. The three writes of
  a confirmation carry no session. Redis and MongoDB have no common transaction.
* *Crash.* Between hold and `queue.add`; between closing a booking and releasing it; twice with one job,
  which BullMQ then fails.
* *Delivery.* A payment event that meets a busy lock is dropped; the gateway may have said
  two contradicting things; BullMQ runs a stalled job again.
* *Stale caches.* The counter in Redis can vanish and is refilled from a number read before.
* *Administration.* Publishing and cancelling are four commands to two stores, and customers
  book between them; `update` sets any status; `remove` takes the event away under a confirmation.
* *Accounts.* An address is looked up before a slow hash and stored after it; a save may be done and
  its answer lost; a role is enforced only where both decorators stand.
* *Logs.* A write nobody waits for, after the answer; sampling.
* *Numeric edges.* A price that is not there; a `$inc` that the schema's `min: 0` does not see.

## 2. Modules

| Module | Models | Notes |
|---|---|---|
| `CachingLock` | the lock of the caching service | one variable `locks`, the keys that exist |
| `LockClients` | how the booking service uses the lock: acquire or give up, work in `try`, DEL in `finally` | closed system, with deaths and lost DELs, and the theorem about it; refined by `Booking`, once per lock |
| `Availability` | counter, hold keys and the two Lua scripts | actions only; `Booking` extends it |
| `TicketSale` | abstract: out, reserved, sold, withdrawn, and what may follow what | refined by `Booking` |
| `Booking` | the whole booking service over `CachingLock` and `Availability`, with MongoDB and BullMQ | next section |
| `BookingInvariants` | the inductive invariants, part by part | |
| `Payments` | the payments service composed with `Booking` | the events of the handlers come only from its calls |
| `EventAdmin` | the event administration composed with `Booking` | one event from its creation to its removal |
| `RequestLog` | the wide event of each HTTP request | actions only; `Accounts` extends it |
| `AccountBook` | abstract: accounts that stay and tokens given for their password | refined by `Accounts` |
| `Accounts` | a request's way through middleware, guards, interceptor and handler, with the user service as the handlers modelled in full | apart from the engine: no state is shared |
| `MCLockClients`, `MCBooking`, `MCPayments`, `MCEventAdmin`, `MCAccounts` | the instances TLC checks | |
| `AvailabilityProofs`, `BookingProofs`, `BookingCalmProofs`, `PaymentsProofs`, `EventAdminProofs`, `EventSaleProofs`, `AccountsProofs` | theorems and proofs | `AvailabilityProofs` holds the lemmas on `Units` |

### Booking in detail

One event, any set `Bookings` of `createBooking` calls (a call makes at most one booking, so
the two share a name; a retry is another call with the same `KeyOf`), a set `Events` of
payment events and a set `Cancels` of cancellations, each arriving at most once and in any
order.

| Code | Actions |
|---|---|
| `createBooking` | `CheckIdempotency`, `LockCreation`, `FindExisting`, `GetEvent`, `CountSlots`, `ReadAvailable`, `RefillSlots`, `CreateDocument`, `HoldSlots`, `CacheIdempotency`, `EnqueueExpiry`, `UnlockCreation`; `RequestFails` is any `await` that rejects, `RequestDies` the end of the process |
| `handlePaymentSuccess`, `confirmBooking` | `PaymentEvent`, `AcquireWebhookLock`, `ReadForConfirm`, then `WriteTickets`, `WriteStatus`, `WriteCounter` in any order (they are one `Promise.all`), `CommitConfirm`, `UnlockWebhook`; `ConfirmFails`, `HandlerFails`, `HandlerDies` |
| `handlePaymentFailed`, `failBooking` | `PaymentEvent`, `AcquireWebhookLock`, `FailDocument`, `ReleaseFailed`, `UnlockWebhook` |
| `BookingExpiryProcessor`, `expireBooking` | `ExpireDocument`, `ReleaseExpired`; `JobFails`, `WorkerDies` |
| `cancelBooking` | `FindForCancel`, `CommitCancel`, `ReleaseCancelled`; `CancelFails`, `CancelDies` |
| Redis and the clock | `LockTimeout`, `HoldTimeout`, `SlotsEvicted`, `EventDatePasses` |

State: the Redis keys (`locks`, `slots`, `slotsCached`, `holds`, `idem`, `meta`), the MongoDB
documents (`status`, `issued`, `valid`, and of the event `event`, its status, and `available`), the queue (`job` and `stalls`), the control of each
call (`rpc`, `hpc`, `todo`, `cpc`) and what a call remembers across an `await` (`priced`,
`count`, `reply`). `owned` is the one variable the code does not have: the bookings whose
units a hold took and no release has put back. No guard reads it.

`WorkerDies` is what BullMQ does for a worker that is gone: its job has stalled and is run again from
the start, as often as `maxStalledCount` says, and after that the job has failed. Neither
`booking-expiry.processor.ts:7` nor `queue.module.ts:8-18` sets the option, so it is BullMQ's default, 1
(`MaxStalled`). A job that throws is not run again at all: one attempt is the default (`JobFails`).

**Env.** What the environment may do is a constant, a subset of nine hazards, because what the
engine guarantees depends on it:

| Hazard | Allows |
|---|---|
| `stray` | paying for a booking the client was never told is reserved (it exists before its hold), cancelling one that is not sold |
| `race` | a webhook lock that runs out under a live handler; a job or a cancellation between a confirmation's read and its writes; two cancellations of one booking at once |
| `evict` | the counter's key going away (TTL, eviction), the event's date passing |
| `partial` | a confirmation that stops with some of its writes landed, others lost or still on their way: a write that fails or, with `crash`, a process that dies among them (`ConfirmFails`, then `HandlerDies`) |
| `fault` | any other command failing |
| `crash` | a process dying between two steps |
| `resend` | (only in `Payments`) a client that pays again before its first request was answered |
| `early` | (only in `EventAdmin`) a client that asks for a booking before any publication was answered |
| `overlap` | (only in `EventAdmin`) two administrators who change the event at once |

With all of them, the properties of section "every environment" hold. The others each need some
hazards excluded, and `BookingInvariants` names the combinations:

| Environment | Excludes | What needs it |
|---|---|---|
| `OrderlyEnv` | `stray`, `race`, `partial` | a booking and its tickets change one after the other: `SoldIsHeld`, `ConfirmedAsAWhole` |
| `CalmEnv` | those and `evict` | the counter stays in Redis: `CalmInv`, `Ledger`, `NoOversell`, `SaleSpec` |
| `SteadyEnv` | `stray`, `fault`, `crash` | nothing stops halfway: `NothingStranded` |
| | `race` | `OneHandler` |
| | `evict` | `SlotsNonNegative` |
| | `fault` | `OpenAwaitsJob`, which excepts a job that BullMQ gave up |

The exclusions are not for the proofs' sake. TLC finds a counterexample on two bookings or fewer when
one is dropped: `Ledger` fails with `race` alone, with `partial` alone and with `stray` alone,
`NoOversell` with `evict`, with `race` and with `stray` (run `orphan`), `ConfirmedAsAWhole` with
`partial` (run `partial`), `SoldIsHeld` and `NothingStranded` with `stray`, `OpenAwaitsJob` with `fault`, and with `crash` if it did not
except a job that stalled twice.
The creation lock may always run out under a live call: its 10 s bound nothing the call does.

### Payments in detail

A set `Pays` of `processPayment` calls, each for a booking and arriving at most once, in any
order. `FindPayment` is the check for an earlier payment, `FindBooking` the look for the booking,
`Decline` and `Accept` the end of the gateway's delay, `StorePayment` the `create`; `PayFails`,
`PayDies` and `StoredUnannounced` are an `await` that rejects, a death, and a death between MongoDB's
write and the `emit`. `emit` runs the listener and the handler up to its first `await` in the same turn,
so `Decline` and `StorePayment` include `PaymentEvent` of `Booking`. State: `ppc`, the control of each call,
and `payments`, the stored documents. Of a payment only the booking is kept: amounts, ids and the
gateway's answer decide nothing. The user id is not looked at by the code either.

### EventAdmin in detail

A set `Admins` of calls to the `EventController`, each made at most once and in any order, over
one event that does not exist yet.

| Code | Actions |
|---|---|
| `create` | `CreateEvent` |
| `publishEvent` | `FindEvent`, `SaveStatus`, `PutSlots`, `PutMeta` |
| `cancelEvent` | `FindEvent`, `SaveStatus`, `DropSlots`, `DropMeta` |
| `update` | `UpdateDocument` (filter and write are one `findOneAndUpdate`), then `PutMeta` or `DropMeta` |
| `remove` | `DeleteDocument`, `DropMeta`, `DropSlots` |
| any of them | `AdminBreaks`: an `await` that rejects, or the end of the process |

State: `apc`, the control of each call; `capacity`, the one field of the document that `Booking` does
not have; `sized`, the capacity in the document that a publication read. `late` is history: the
bookings asked for after `cancelEvent` or `remove` was answered. Of the payload of `update`, status and
capacity are kept; title, price and location decide nothing but whether two ticket codes are alike,
which `WriteTickets` leaves open, and a new date is left out, as the
model keeps the date ahead (`"evict" \notin Env`). `BookingStep` is any step of `Booking`; the one thing it
adds is that, without `early`, a customer first asks when a publication has been answered.

### Accounts in detail

A set `Requests`, of which `Call` says what each asks and which token it brings; a request is sent
once. A user document is named after the registration that stored it, a token after its login.

| Code | Actions |
|---|---|
| `LoggingMiddleware.use` | `Arrives` (with `OpenContext`) |
| `JwtAuthGuard`, `RolesGuard` | `Admits`, `AdmitsGuest`, `RejectsToken`, `RejectsRole` |
| `ValidationPipe` | `RefusesBody` |
| `register` | `FindExisting`, `Save` |
| `login` | `LogsIn`, `FailsLogin` |
| `getProfile`, `findAll` | `GetProfile`, `FindAll` |
| the handlers of the other controllers | `Serves`: any answer or error they have |
| the interceptor | `Returns` and `Throws`, which end every handler with `Tapped` or `Caught` and then `Finalize` |
| `persist` | the document is made in `Finalize`; `WritesLog`, `LosesLog` |
| faults, deaths, time | `Fails`, `SavesUnanswered` (`fault`), `Dies` (`crash`), `TokenExpires` |

State: `pc` and `answer` of each request, `acct` (the `sub` of its token, or the account a login found),
`users`, `granted`, `expired`, and of the log `ctx`, `writing`, `logs`, `dropped`. `known` is history: the
registrations that had been answered 201 when a login was sent.

A guard stands outside the interceptor, so what it rejects is answered without `Finalize`; a pipe
stands inside. `bcrypt` and `signAsync` touch nothing shared and belong to the step of the `await`
before them. A missing header, another scheme and a token nobody signed are one case, `NoOne`. `GET /users` names a role
but not the guard that reads it (`user.controller.ts:60-62`): it is a route like `profile`, outside `RoleGuarded`. Of
a log's payload, `statusCode`, `outcome` and `level` are kept; whether a request was slow or drawn by
the sampling is one free choice, `kept`. The user's fields in a payload and the messages decide
nothing. `isVip` and `isInternal` are set nowhere.

### Booking: parameters and abstractions

**NullSessionsCollide** says whether the unique index on `checkoutSessionId` exists. The
schema asks for it (`booking.schema.ts:54-55`) and Mongoose builds it at start (`autoIndex` is on by
default), unless the collection already holds two bookings or the deployment builds its indexes
itself. With it at most one booking can ever be stored (run `null_sessions`), so the other runs check
the engine without it; the proofs cover both values.

**Abstractions.** One event (no state of two events meets, but for the webhook lock, which is
per booking). Units are counted, not named. `insertMany` of the tickets of one booking is
all or nothing. Whether a second set collides with the first is left open: a ticket code contains the text of
the populated event (`booking.service.ts:245`), so after an edit of title, price, date or capacity the
unique index lets a second set in. An event that was removed is populated as null and that line throws, so
`ReadForConfirm` then goes on to unlock. Commands to one store are atomic. The PX of `hold:<booking>` is a step that
may happen at any time, and no code ever reads the key. A write conflict of the cancel
transaction is a `fault`. The idempotency cache is read under the prefix `idem:` and
written under `idempotency:` (so `CacheHit` never holds: that is how the code is, and the
model keeps both). A webhook handler and its event are one process.

## 3. Runs

All are small enough for a minute or two with two workers.

| Run | Instance | Question |
|---|---|---|
| `locks` | 3 clients, 2 keys | Does an owner-blind DEL exclude while no section outlives the TTL (`Mutex`), and is a lock that a death or a lost DEL left behind freed (`LockFreed`)? Three clients: a holder, a dead one and a contender. |
| `create` | 2 calls, one key, all hazards of the engine | Two calls inside one section because the lock ran out: still one booking (`UniqueKey`), a job for every 201 (`AcceptedIsScheduled`), none for a draft (`UnpublishedNotBooked`). `CreationLockUse`: calls lock as `LockClients` does, with any client outliving its TTL. |
| `settle` | 1 booking, a success, a failure, the job and a cancellation, `stray`, `race`, `crash` | `AnyEnvInv` (the inductive invariant of the proofs), `OneReleaser`, `SoldStaysSold`, and `CancelledIsClosed`: a booking may be cancelled in any status here (`stray`), and still nothing but a confirmation that had read it before takes it out of CANCELLED, nor does the job or a failed payment release it afterwards. `OpenAwaitsJob`: an accepted booking that is open has its job in the queue, unless workers died with that job twice. Writes that are lost or late are in `live` and `payments`; with `partial` the run holds too and takes three times as long. `WebhookLockUse`, the refinement of `LockClients`: no path through a handler deletes a lock it did not take or works without one, and a lock stays behind only to its TTL. One booking is enough: no property relates two, and the four closers are all there. |
| `safe` | 2 bookings of 1 and 2 units over 2, three events, a cancellation, `fault` | `CalmInv` (inductive), `Ledger`, `SlotsNonNegative`, `NoOversell`, `SoldIsHeld`, `ConfirmedAsAWhole`, `OneHandler` (one handler at a time inside the webhook lock of a booking), and `SaleSpec`, the refinement of `TicketSale`. The bookings do not fit together, so the second can be sold only after the first was given back. With `crash` in place of `fault` the run holds as well, with half as many states again; the theorems cover both at once. |
| `live` | 1 booking, a success, a failure, a cancellation, `race`, `partial` | `AcceptedSettles`, `ClosedGivesBack` under `Fairness`, and the safety behind them, `NothingStranded`: units that were taken are sold, or a call, a handler or a job is on the way to give them back. Confirmations are overtaken and lose writes here, late ones land after the unlock. |
| `payments` | 1 booking, 2 payment calls with either outcome, `stray`, `race`, `partial`, `fault`, `crash` | `SoldIsPaid`: tickets and CONFIRMED exist only where a payment is stored, though handlers die, contradict each other and overwrite. `OnePaymentStored`: two calls never both store, if the client waits for an answer (no `resend`; with it the property fails, since the gateway's 1.5 s lie between check and `create`). It does not say that the client is charged once: in this run a call passes `Accept` and then `PayFails` or `PayDies` before its `create`, and the next one passes `Accept` too. Two calls are enough for both. |
| `admin` | 1 booking of 2 units over 2; create, publish twice, cancel, remove, an update of the capacity to 3 and one of the status to `sold_out`; `crash` | `MetaFollowsStatus`: the hash exists exactly while the event is published, whatever the order of the calls, as long as none broke off (nothing repairs a broken one). `PublishedLedger`: the published units are in the counter or with a booking, so no second publication, no refill and no update touches the counter over a hold. `LateIsRefused`: what is asked for after the end is not stored, although `createBooking` looks at no status and its refill brings the counter back. One booking is enough to take all units, to be late, and to straddle a cancellation; two publications are the smallest repetition. With `overlap` the first property fails (an update writes the hash after a cancellation deleted it), with `early` the second (a draft's refill lands after publication and after a hold). |
| `accounts` | 1 address, 2 passwords; registrations as admin, as user and with a role that does not exist, a login, and a request with its token to each kind of route; `fault`, `crash` | `AccountsInv` (the inductive invariant of the proofs), `RegisteredCanLogIn`: whoever was told 201 is not refused with that password, though another registration of the address may be between look-up and save; `ServedInRole`, for the routes behind `RolesGuard`; `LogTellsAnswer` and `ErrorsKept` for every way a request ends; `BookSpec`, the refinement of `AccountBook`. `Scenarios` are the seven sets of three of these requests that are sent together: two registrations and a login, for the race, with a password that fits either; or a registration, a login and a use of its token. A property speaks of at most that many requests. |
| `orphan` | 2 bookings over 2 units, `stray` | violation of `NoOversell` |
| `partial` | 1 booking, 1 payment, `partial` | violation of `ConfirmedAsAWhole` |
| `null_sessions` | 2 calls, index built, no hazard | violation of `NullSessionsExcluded` |
| `stuck` | 1 booking, `crash` | violation of `SlotsNeverStuck` under fairness |

Bounds: each payment event and each cancellation arrives at most once, each call is made
once; these are the sizes of `Events`, `Cancels` and `Bookings`, and there is no other bound.
`CHECK_DEADLOCK FALSE` everywhere, because a system whose clients have all been served stops.

The module that the proofs extend is the one the runs check: the same `Spec`, the same
constants, only their values differ. Every property of a passing run has a mutant, a plausible
bug in one mapped definition (SET without NX, a script that forgets INCRBY, a missing unique
index, an expiry that does not look at the status, a cancellation that keeps the tickets), and
TLC finds the property violated with it.

### Fairness

`FairSpec` is weakly fair for each call, handler, job and cancellation, and for the TTL of each
lock. The code justifies it: an `await` on Redis, MongoDB or BullMQ of a live process resolves;
the event loop starves no continuation; BullMQ runs a delayed job when its delay is over; Redis
expires what has a TTL. It is not fair for the clients and the gateway, and the hazards
(`RequestFails`, `RequestDies`, ...) have none. `LockClients` is fair for `Leave` and `Expire`
only. In `live` locks run out and writes are lost, but no other command fails and no process dies: with `fault` or `crash`
`AcceptedSettles` depends on the job's one attempt and its one forgiven stall, and `ClosedGivesBack` is false, since a
job that is run again after it marked the booking finds no PENDING one and skips the
release (`booking.service.ts:294-311`). That is also what `stuck` is about, one step earlier.

## 4. What is proved

Assumptions: those the modules name. `Bookings` is finite, `Qty[b] >= 1`, `Capacity` is a
natural number, the idempotency keys are not booking ids (so creation and webhook locks do
not meet; the code locks `booking:creating:<key>` and the bare booking id), and the sets of events and
cancellations are of the given record types. No theorem bounds their sizes.

* **`LockExcludes`** (`LockClients`, `~OutliveTTL`): `Spec => []Mutex`. Mutual exclusion is
  not inductive since a DEL does not look at the owner; `HeldIsLocked` adds that a
  live section's key exists, so that no second SET NX succeeds and no foreign DEL happens.
* **Every environment** (`BookingProofs`, no assumption on `Env`): `AnyEnvInvariant`, from which
  `TypeCorrect`, `KeyIsUnique`, `ReleaserIsOne`, `AcceptedBookings`, `UnpublishedBookings` and, as
  action properties, `SaleIsFinal` and `CancelledStays`: CANCELLED is left only by a confirmation that was
  already writing, and nobody else sets out to release such a booking. `AnyEnvInv` is these plus three facts about the control points:
  whoever is past its first read works on a document that exists, whoever is about to release
  found PENDING (and PENDING never comes back), and a price was read only from an event that
  was published.
* **The booking service as a client of its locks** (`BookingProofs`, no assumption on `Env`):
  `WebhookLocksImplemented` and `CreationLocksImplemented`, `Spec => WebhookLockUse` and `Spec =>
  CreationLockUse`: seen through the control points inside and outside `try`, handlers and calls of
  `createBooking` are two instances of `LockClients`, with every way they fail or die. Only the handlers
  move webhook locks and only the calls creation locks (`LockMovers`), which is where the two name spaces
  matter. `HandlersExclude` (`"race" \notin Env`) then is `LockExcludes` of the instance: the theorem about the
  lock, proved once, is what excludes the handlers of a booking.
* **One or three hazards excluded** (`BookingProofs`). `CounterStaysUp` needs only that the counter is not
  lost (`"evict" \notin Env`): the script's check keeps the counter up whatever handlers, jobs and
  cancellations do to the ledger, as long as nobody sets it from MongoDB after the first hold
  (`SlotsStayUp` on `OnlyOpenIsBooked`). `OpenBookingsAwaitJob` (`"fault" \notin Env`) from `DoneIsClosed`: a job
  leaves the queue only with its booking closed, which nothing makes PENDING again, or after more stalls
  than BullMQ forgives. `NobodyStranded`
  (`SteadyEnv`), with locks that run out, overtaken confirmations, lost writes and a lost counter: until its job is
  queued a booking is nobody's but its call's (`UntouchedInv`), and after that every step that takes a
  booking out of PENDING or CONFIRMED is by a process that goes on to release it. These two are the safety
  that `AcceptedSettles` and `ClosedGivesBack` add fairness to.
* **Orderly environment** (`BookingCalmProofs`, `ASSUME OrderlyEnv`): `SalesInvariant`, from which `SoldStaysHeld`,
  `ConfirmationsWhole` and `CancellationIsFinal` (a status that was read PENDING still is when it is
  overwritten, so the exception of `CancelledStays` does not occur). A counter that is lost and refilled may oversell, yet nobody releases or
  confirms what is not his, and tickets, status and `availableTickets` still agree: the three stores are
  told apart. `SalesInv` and `CountedInv` are the parts of `CalmInv` that do not speak of the counter.
* **Calm environment** (`BookingCalmProofs`, `ASSUME CalmEnv`): `CalmInvariant`, from which
  `LedgerKept`, `NeverOversold`, and `SaleImplemented`, the
  refinement `Spec => SaleSpec`. None of these is inductive alone. `CalmInv` says, for every
  control point, who owns the units: only an open event has owners and a counter
  (`OnlyOpenIsBooked`); until the job is queued nobody but the creating call touches the booking
  (`CreationInv`); the webhook lock admits one handler (`LockInv`), so a confirmation with
  writes on the way is the only writer of its booking (`WriterInv`); where the tickets are in each status
  (`TicketInv`); whoever is about to release owns the units alone (`ReleaseInv`); an open or sold
  booking owns them (`OwnershipInv`); and `availableTickets` is the capacity less what has been
  decremented (`CountedInv`), including the confirmations in flight. `NoOversell` then is
  `valid \subseteq owned` with the ledger. `AvailabilityProofs` has the arithmetic:
  `Units(S \cup {b})` has `Qty[b]` more elements than `Units(S)`.
* **Payments** (`PaymentsProofs`): `PaymentsImplementBooking`, `PaySpec => Spec`: a step of a call is a
  `PaymentEvent` of `Booking` or leaves it alone, so every theorem above carries over.
  `SalesArePaid` in every environment, from `PaidInv`: beside `SoldIsPaid` it says that a handler of
  a success, and the writes it sent, have a stored payment behind them. `PaymentsAreSingle`, assuming
  only `"resend" \notin Env`: `OneCall` adds that at most one call of a booking is under way and none
  once a payment is stored, so a death or a failure between check and `create` makes no
  second document. It counts documents, not what the gateway took.
* **Administration** (`EventAdminProofs`): `EngineInvariant`, with no assumption on `Env`: under any
  administration, overlapping too, the parts of `AnyEnvInv` that are not about a fixed publication
  stay inductive (`EngineParts`, whose step lemmas `BookingProofs` shares). A step of the administration is
  one that the booking service notices only in the event and its keys in Redis (`AdminOrBooking`), so
  what it promises without them carries over, under the same assumptions and with administrators that
  overlap or break off: `AdministeredSaleIsFinal`, `AdministeredCancelledStays`,
  `AdministeredLocksImplemented`, `AdministeredHandlersExclude`, `AdministeredBookingsAwaitJob`,
  `AdministeredNobodyStranded`, and in `EventSaleProofs` `AdministeredSoldStaysHeld` (cancelling,
  removing or publishing an event again takes the units of no open or sold booking from it) and
  `AdministeredCancellationIsFinal`, both from `AdministeredSales`. `ConfirmedAsAWhole`
  is not among them: the capacity may change, and the `$inc` of a confirmation finds no document when the event is
  removed after its read and before that write (a confirmation that starts later writes nothing). Assuming
  `"overlap" \notin Env`: `MetaInvariant`, from which `MetaFollows`. `MetaInv` says what each control
  point of a call finds: between the write to MongoDB and the last one to Redis the status
  already is what the hash will say, and nobody else is between the two. `LateRefused` rests on it and on
  `ClosedInv`, while no update sets a status by hand (nothing else opens a closed event again):
  closing deletes only what MongoDB has closed, and a call that starts after it finds no hash, hence has
  no price, hence no document.
* **Sale of an administered event** (`EventSaleProofs`, assuming `CalmEnv`, no `early` and no `overlap`):
  `SaleInvariant`, from which `PublishedLedgerKept`, `AdminSpec => []PublishedLedger`, and
  `PublishedNotOversold`, `AdminSpec => []PublishedFits`. The counter comes and goes here, so `CalmInv` does not hold as it is.
  `SaleInv` says instead that the event is published at most once and that until a publication is answered
  nobody has booked anything (`Untaken`); from the answer until the event is closed, the parts of `CalmInv`
  that count no units hold (`ControlInv`, whose step lemmas `BookingCalmProofs` shares) and every unit the
  event was published with is in the counter, which is not below zero, or owned (`OnSale`). A step of the booking service moves
  units between the two (`BookingKeepsSale`); a step of the administration either publishes, with nothing
  booked (`SaleOpens`), closes, or touches neither counter nor bookings (`AdminKeepsSale`). `AtWork` is what
  each call of the administration finds, and why a second publication is refused.
* **Accounts** (`AccountsProofs`, no assumption on `Env`): `AccountsInvariant`, from which
  `RegistrationsCount`, `RolesAreServed` (of the routes behind `RolesGuard`), `LogsTell` and `ErrorsAreKept`, and `BookImplemented`, the
  refinement `Spec => BookSpec`. `AccountsInv` says what is stored (`UserInv`: the unique index, whatever
  two registrations have looked up), what a token stands for (`TokenInv`), who is behind a guard
  (`GuardInv`), what each control point finds, with the context untouched until the request ends
  (`ControlInv`), and that a document is made at the end of its request only (`LogInv`). `RegistrationsCount`
  rests on `UserInv`: the document a login finds is the one its client was told of, and its password stays.

Checked by TLC only: `LockFreed`, `AcceptedSettles`,
`ClosedGivesBack` (liveness under fairness is out of the prover's reach), and the four violations.

## 5. Where code and documents differ

Shown by runs (details under `findings` in `PROJECT.json`):

1. A booking whose hold was refused keeps its PENDING document and can be paid: oversell (`orphan`).
2. The transaction of `confirmBooking` covers none of its writes (`partial`).
3. The sparse index on `checkoutSessionId` does not leave out nulls (`null_sessions`).
4. A crash between hold and `queue.add` leaves units stuck (`stuck`).

Met while reading, and not the subject of a run:

* `releaseHold` is not idempotent, although `availability.service.ts:192` says so: INCRBY comes before any look at the
  hold (`release-hold.lua:12`), so a second release raises the counter again.
* A retry with a known key is answered 409, where `RESERVATION_ENGINE.md:51` and the end-to-end
  test (`test/booking.e2e-spec.ts:124-128`) expect the existing booking.
* `cancelBooking` accepts PENDING, EXPIRED and FAILED bookings (`booking.service.ts:361-378`).
* `confirmBooking` overwrites by `_id` a status that may have changed since it was read
  (`booking.service.ts:259`).
* `processPayment` checks for an existing payment before the gateway's delay and creates after
  it (`payments.service.ts:39-98`), so two requests at once charge twice; so does a retry after a call that ended between the gateway's
  success and `create` (`64-98`), which leaves nothing to be found; a crash between storing and
  emitting loses the confirmation (`98-106`).
* `confirmBooking` builds the ticket codes from `booking.event.toString()` (`booking.service.ts:245`), where `event` is
  the populated document: the code holds the text of the event and not its id, so the unique index does not
  keep a second set of tickets out once the event was edited; and for an event that was removed it throws, so the
  paid booking is left to its expiry job.
* Nothing sets `maxStalledCount` or `attempts` of the expiry job: one that throws, or whose workers died twice, leaves
  its booking PENDING for good.
* `processPayment` does not look at the booking's status (`50-60`): an EXPIRED or FAILED booking is charged
  and never confirmed, where `payments.service.spec.ts:69` expects an error for one that is not pending.
  After a declined attempt the booking is FAILED, so its retry is such a charge.
* A refill of the counter forgets the pending holds (`availability.service.ts:118-143`), after an eviction
  and after a cancellation of the event: `cancelEvent` deletes the counter (`event.service.ts:290`) while a booking is
  between its price and its count, that booking sets the counter from `availableTickets`, and units somebody
  holds are held again. When both are paid, more tickets are valid than the event has units, without any
  failure. This is why `PublishedFits` speaks of a published event, and `MetaFollowsStatus` and `LateIsRefused` of its end.
* `cancelEvent` emits an event nobody listens to (`event.service.ts:261-262, 300`): the bookings of a
  cancelled event stay as they are, and may still be paid.
* Two publications at once set the counter twice (`event.service.ts:224-249`); an update that overlaps a
  cancellation leaves the hash of a cancelled event (`179-180, 291`).
* A publication that ends after its `save` cannot be repeated, since the status is PUBLISHED by then (`232, 242`).
* `update` changes `capacity` without `availableTickets` and the counter (`149-158`): a capacity that is raised in a
  draft and then published is all in the counter, so sales take `availableTickets` below zero. It also
  compares the new capacity with what is available, not with what is sold, so a capacity may be set below
  the tickets that are valid.
* `getEvent` never finds "no event": `hgetall` answers an object (`event.storage.ts:24-37`).
* `quantity` need not be whole (`create-booking.dto.ts:24-26`): the booking is stored and DECRBY then
  refuses the fraction, which leaves the document of a refused hold behind (as in `orphan`).
* A request that a guard rejects (401, 403) never reaches the interceptor and leaves no log, although
  `logging.interceptor.ts:76` says "Always keep errors: 100% of 500s, exceptions, and failures".
* Successes are sampled and `logEvent` is commented out (`logging.interceptor.ts:66, 96-98`), where
  `core/logging/README.md:9` says that every log is written to MongoDB and printed.
* `formatUserLog` asks for `instanceof User` (`log-formatters.helper.ts:17`), which a Mongoose document of
  the model is not, so after a registration or a login the user disappears from the log (`user.service.ts:47, 65`).
* `TokenConfig.ttl` is in milliseconds, as its comment says, and `expiresIn` takes a number as
  seconds (`token.config.ts:25-36`, `jwt.module.ts:12`).
* Of two registrations of one address at once, the second is answered 500, not 409: the duplicate-key error of
  `save` is not caught (`user.service.ts:44`). So is a registration with a role that does not exist.
* `getAllUsers` names a role without the guard that reads it (`user.controller.ts:60-62`).
* `$inc` can take `availableTickets` below its `min: 0`.

## 6. What is not modelled, and the plan

Not modelled for good: the tickets module, the distributed lock service, the Redis module and the
abstract repository (no caller; the application module does not import them, or nothing uses what they
export); wiring and configuration, which keep no state; the reads of bookings and events, which change
nothing and whose results nothing depends on; texts, formatting and the fields of a log that decide nothing.

What could be added:

1. **Payments under administration**: `OnePaymentStored` and `SoldIsPaid` in one composition of `Payments` and
   `EventAdmin`; each is proved of its own composition.
2. **Payments and cancellations in the `admin` run** take TLC beyond five minutes; that `PublishedLedger`
   holds with them is proved. **Several events** in one instance.
3. **A run for `PublishedFits`**: two bookings that compete while the event is administered are more states than
   the `admin` run has room for; that it holds is proved.
4. **The date**: an event that ends while it is administered (`evict` in `EventAdmin`).
