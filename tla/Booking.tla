------------------------------- MODULE Booking -------------------------------
(***************************************************************************)
(* modules/booking/booking.service.ts for one event: createBooking, the    *)
(* payment handlers (confirmBooking, failBooking), the expiry job          *)
(* (expireBooking) and cancelBooking, over Redis (CachingLock,             *)
(* Availability), MongoDB and the BullMQ queue booking-expiry.             *)
(*                                                                         *)
(* The processes of the program are the async calls: control moves at an   *)
(* await, so one step is one command to Redis, MongoDB or BullMQ with the  *)
(* code that follows it up to the next await.  A createBooking call makes  *)
(* at most one booking, so calls and bookings share the names Bookings; a  *)
(* retry by the client is another call with the same KeyOf.                *)
(***************************************************************************)
EXTENDS CachingLock, Availability

CONSTANTS
  Keys,                 \* idempotency keys
  KeyOf,                \* [Bookings -> Keys], the key of each createBooking call
  Events,               \* payment events that may arrive, at most once each
  Cancels,              \* cancelBooking calls that may arrive, at most once each
  NullSessionsCollide,  \* whether the unique index on checkoutSessionId is built
  Env                   \* what the environment may do, a subset of Hazards

(* stray   a payment or a cancellation of a booking the client was not     *)
(*         told is reserved (pay) or sold (cancel)                         *)
(* race    a webhook outlives its lock's TTL; a job or a cancellation gets *)
(*         between a confirmation's read and its writes; two cancellations *)
(*         of one booking overlap                                          *)
(* evict   the counter's key goes: its TTL, eviction, the event's date     *)
(* partial a confirmation stops, its process with it or not, with some of  *)
(*         its writes landed or lagging                                    *)
(* fault   a command to Redis, MongoDB or BullMQ fails elsewhere           *)
(* crash   a process dies between two steps                                *)
(* resend  a client pays again before it was answered (module Payments)    *)
(* early   a client books before the publication is over, overlap two      *)
(*         administrators change the event at once (module EventAdmin)     *)
Hazards == {"stray", "race", "evict", "partial", "fault", "crash",
            "resend", "early", "overlap"}

EventKinds == {"succeeded", "failed"}

ASSUME KeyOfAssumption == KeyOf \in [Bookings -> Keys]
ASSUME KeysAssumption == Keys \cap Bookings = {}
ASSUME EventsAssumption ==
  Events \subseteq [kind : EventKinds, booking : Bookings, n : Nat]
ASSUME CancelsAssumption ==
  Cancels \subseteq [booking : Bookings, byOwner : BOOLEAN, n : Nat]
ASSUME IndexAssumption == NullSessionsCollide \in BOOLEAN
ASSUME EnvAssumption == Env \subseteq Hazards

VARIABLES
  idem,       \* Redis: <<prefix, key>> of the idempotency cache
  meta,       \* Redis: event:<id>:meta, and whether its date has passed
  status,     \* MongoDB: booking status, "absent" while there is no document
  issued,     \* MongoDB: bookings with ticket documents
  valid,      \* MongoDB: those whose tickets are valid
  event,      \* MongoDB: Event.status, "removed" without a document
  available,  \* MongoDB: Event.availableTickets
  job,        \* BullMQ: the expiry job of each booking
  stalls,     \* BullMQ: how often a worker died with it
  rpc,        \* control of each createBooking call
  reply,      \* the HTTP status of its answer, 0 before
  priced,     \* calls that read a price and a date from the meta hash
  count,      \* availableTickets read by a call after a cache miss
  hpc,        \* control of each payment handler
  todo,       \* confirmation writes sent by a handler and not landed
  cpc         \* control of each cancelBooking call

redisVars   == <<locks, slots, slotsCached, holds, owned, idem, meta>>
mongoVars   == <<status, issued, valid, event, available>>
requestVars == <<rpc, reply, priced, count>>
handlerVars == <<hpc, todo>>
vars == <<redisVars, mongoVars, job, stalls, requestVars, handlerVars, cpc>>

EventStatus   == {"draft", "published", "sold_out", "canceled"}
BookingStatus == {"PENDING", "CONFIRMED", "EXPIRED", "FAILED", "CANCELLED"}
InTry == {"find", "event", "slots", "dbSlots", "setSlots",
          "create", "hold", "cache", "enqueue"}
Writes == {"tickets", "status", "counter"}

TypeOK ==
  /\ locks \subseteq Keys \cup Bookings
  /\ AvailabilityTypeOK
  /\ idem \subseteq {"idem", "idempotency"} \X Keys
  /\ meta \in {"open", "past", "none"}
  /\ status \in [Bookings -> BookingStatus \cup {"absent"}]
  /\ issued \subseteq Bookings
  /\ valid \subseteq Bookings
  /\ event \in EventStatus \cup {"removed"}
  /\ available \in Int
  /\ job \in [Bookings -> {"none", "delayed", "releasing", "done"}]
  /\ stalls \in [Bookings -> Nat]
  /\ rpc \in [Bookings -> InTry \cup {"start", "lock", "unlock", "done", "dead"}]
  /\ reply \in [Bookings -> {0, 201, 400, 409, 500}]
  /\ priced \subseteq Bookings
  /\ count \in [Bookings -> Int]
  /\ hpc \in [Events -> {"idle", "lock", "read", "writes", "release",
                         "unlock", "done", "dead"}]
  /\ todo \in [Events -> SUBSET Writes]
  /\ cpc \in [Cancels -> {"idle", "txn", "release", "done", "refused", "dead"}]

(* The event is published and ahead, over, or not published or not there   *)
(* at all: then it has no meta hash, and its counter is not set.           *)
Init ==
  /\ meta \in {"open", "past", "none"}
  /\ event \in IF meta = "none" THEN {"draft", "removed"} ELSE {"published"}
  /\ AvailabilityInit(meta = "open")
  /\ LocksInit
  /\ idem = {}
  /\ status = [b \in Bookings |-> "absent"]
  /\ issued = {}
  /\ valid = {}
  /\ available = Capacity
  /\ job = [b \in Bookings |-> "none"]
  /\ stalls = [b \in Bookings |-> 0]
  /\ rpc = [b \in Bookings |-> "start"]
  /\ reply = [b \in Bookings |-> 0]
  /\ priced = {}
  /\ count = [b \in Bookings |-> 0]
  /\ hpc = [e \in Events |-> "idle"]
  /\ todo = [e \in Events |-> {}]
  /\ cpc = [c \in Cancels |-> "idle"]

------------------------------------------------------------------------------
(* createBooking *)

Goto(r, label) == rpc' = [rpc EXCEPT ![r] = label]
Answer(r, code) == reply' = [reply EXCEPT ![r] = code]

(* A throw inside try, or the return: the answer is fixed, finally is next. *)
Finally(r, code) == Goto(r, "unlock") /\ Answer(r, code)

(* The fast path reads idem:<key>; the cache is written under another       *)
(* prefix (CacheIdempotency), so it never hits.                            *)
CacheHit(r) == <<"idem", KeyOf[r]>> \in idem

CheckIdempotency(r) ==
  /\ rpc[r] = "start"
  /\ IF CacheHit(r)
       THEN Goto(r, "done") /\ Answer(r, 409)
       ELSE Goto(r, "lock") /\ UNCHANGED reply
  /\ UNCHANGED <<redisVars, mongoVars, job, stalls, priced, count, handlerVars, cpc>>

(* Mutant of LockCreation: acquireLock inside try, so finally deletes the   *)
(* lock of the call that was first.                                        *)
MutantLockInTry(r) ==
  /\ rpc[r] = "lock"
  /\ \/ AcquireLock(KeyOf[r]) /\ Goto(r, "find") /\ UNCHANGED reply
     \/ LockBusy(KeyOf[r]) /\ Finally(r, 409)
  /\ UNCHANGED <<availabilityVars, idem, meta, mongoVars, job, stalls, priced, count,
                 handlerVars, cpc>>

LockCreation(r) ==
  /\ rpc[r] = "lock"
  /\ \/ AcquireLock(KeyOf[r]) /\ Goto(r, "find") /\ UNCHANGED reply
     \/ LockBusy(KeyOf[r]) /\ Goto(r, "done") /\ Answer(r, 409)
  /\ UNCHANGED <<availabilityVars, idem, meta, mongoVars, job, stalls, priced, count,
                 handlerVars, cpc>>

KeyTaken(r) == \E q \in Bookings : status[q] # "absent" /\ KeyOf[q] = KeyOf[r]

FindExisting(r) ==
  /\ rpc[r] = "find"
  /\ IF KeyTaken(r) THEN Finally(r, 409) ELSE Goto(r, "event") /\ UNCHANGED reply
  /\ UNCHANGED <<redisVars, mongoVars, job, stalls, priced, count, handlerVars, cpc>>

(* getEvent: hgetall never answers null, so a missing hash is an event      *)
(* without price and date.  Its date compares as not past; the status is    *)
(* never looked at.                                                        *)
GetEvent(r) ==
  /\ rpc[r] = "event"
  /\ IF meta = "past"
       THEN Finally(r, 409) /\ UNCHANGED priced
       ELSE /\ Goto(r, "slots")
            /\ priced' = IF meta = "open" THEN priced \cup {r} ELSE priced
            /\ UNCHANGED reply
  /\ UNCHANGED <<redisVars, mongoVars, job, stalls, count, handlerVars, cpc>>

CheckCount(r, n) ==
  IF n < Qty[r] THEN Finally(r, 400) ELSE Goto(r, "create") /\ UNCHANGED reply

(* availableSlotsCount: GET; a hit decides, a miss goes to MongoDB. *)
CountSlots(r) ==
  /\ rpc[r] = "slots"
  /\ IF slotsCached THEN CheckCount(r, slots) ELSE Goto(r, "dbSlots") /\ UNCHANGED reply
  /\ UNCHANGED <<redisVars, mongoVars, job, stalls, priced, count, handlerVars, cpc>>

ReadAvailable(r) ==
  /\ rpc[r] = "dbSlots"
  /\ IF event = "removed"
       THEN Finally(r, 400) /\ UNCHANGED count
       ELSE /\ count' = [count EXCEPT ![r] = available]
            /\ Goto(r, "setSlots")
            /\ UNCHANGED reply
  /\ UNCHANGED <<redisVars, mongoVars, job, stalls, priced, handlerVars, cpc>>

(* setEventSlots with the number read before, whatever happened since. *)
RefillSlots(r) ==
  /\ rpc[r] = "setSlots"
  /\ SetEventSlots(count[r])
  /\ CheckCount(r, count[r])
  /\ UNCHANGED <<locks, idem, meta, mongoVars, job, stalls, priced, count, handlerVars, cpc>>

(* Mutant of DuplicateKey: the schema without unique: true. *)
MutantNoUniqueIndex(r) == status[r] # "absent"

(* E11000 of bookingModel.create: the unique index on idempotencyKey, and   *)
(* the one on checkoutSessionId.  That one is sparse, but the field has the *)
(* default null, and a sparse index leaves out only documents without the   *)
(* field: where it is built, two bookings collide.                         *)
DuplicateKey(r) ==
  \E q \in Bookings :
    status[q] # "absent" /\ (KeyOf[q] = KeyOf[r] \/ NullSessionsCollide)

(* Mutant of Valid: a missing price counts as 0. *)
MutantFreeOfCharge(r) == TRUE

(* amountTotal is NaN without a price, and the schema refuses it. *)
Valid(r) == r \in priced

CreateDocument(r) ==
  /\ rpc[r] = "create"
  /\ IF Valid(r) /\ ~DuplicateKey(r)
       THEN /\ status' = [status EXCEPT ![r] = "PENDING"]
            /\ Goto(r, "hold")
            /\ UNCHANGED reply
       ELSE Finally(r, 500) /\ UNCHANGED status
  /\ UNCHANGED <<redisVars, issued, valid, event, available, job, stalls, priced, count,
                 handlerVars, cpc>>

(* checkAndHold; when it throws, the PENDING document stays behind. *)
HoldSlots(r) ==
  /\ rpc[r] = "hold"
  /\ \/ CheckAndHold(r) /\ Goto(r, "cache") /\ UNCHANGED reply
     \/ ~EnoughSlots(r) /\ Finally(r, 400) /\ UNCHANGED availabilityVars
  /\ UNCHANGED <<locks, idem, meta, mongoVars, job, stalls, priced, count, handlerVars, cpc>>

CacheIdempotency(r) ==
  /\ rpc[r] = "cache"
  /\ idem' = idem \cup {<<"idempotency", KeyOf[r]>>}
  /\ Goto(r, "enqueue")
  /\ UNCHANGED <<locks, availabilityVars, meta, mongoVars, job, stalls, reply, priced, count,
                 handlerVars, cpc>>

(* Mutant of EnqueueExpiry: the answer does not wait for queue.add. *)
MutantAnswerOnly(r) ==
  /\ rpc[r] = "enqueue"
  /\ Finally(r, 201)
  /\ UNCHANGED <<redisVars, mongoVars, job, stalls, priced, count, handlerVars, cpc>>

EnqueueExpiry(r) ==
  /\ rpc[r] = "enqueue"
  /\ job' = [job EXCEPT ![r] = "delayed"]
  /\ Finally(r, 201)
  /\ UNCHANGED <<redisVars, mongoVars, stalls, priced, count, handlerVars, cpc>>

UnlockCreation(r) ==
  /\ rpc[r] = "unlock"
  /\ ReleaseLock(KeyOf[r])
  /\ Goto(r, "done")
  /\ UNCHANGED <<availabilityVars, idem, meta, mongoVars, job, stalls, reply, priced, count,
                 handlerVars, cpc>>

(* An await rejects: before try and in finally the call ends there, inside  *)
(* try finally is next.  Nothing done so far is undone.                    *)
RequestFails(r) ==
  /\ "fault" \in Env
  /\ rpc[r] \in InTry \cup {"start", "lock", "unlock"}
  /\ Goto(r, IF rpc[r] \in InTry THEN "unlock" ELSE "done")
  /\ Answer(r, 500)
  /\ UNCHANGED <<redisVars, mongoVars, job, stalls, priced, count, handlerVars, cpc>>

RequestDies(r) ==
  /\ "crash" \in Env
  /\ rpc[r] \in InTry \cup {"lock", "unlock"}
  /\ Goto(r, "dead")
  /\ UNCHANGED <<redisVars, mongoVars, job, stalls, reply, priced, count, handlerVars, cpc>>

RequestStep(r) ==
  \/ CheckIdempotency(r) \/ LockCreation(r) \/ FindExisting(r) \/ GetEvent(r)
  \/ CountSlots(r) \/ ReadAvailable(r) \/ RefillSlots(r) \/ CreateDocument(r)
  \/ HoldSlots(r) \/ CacheIdempotency(r) \/ EnqueueExpiry(r) \/ UnlockCreation(r)

------------------------------------------------------------------------------
(* Payment events: PaymentEventListener, handlePaymentSuccess/Failed *)

(* updateOne with $inc on the event: the schema's min: 0 does not apply,    *)
(* and without the document nothing is matched.                            *)
IncAvailable(n) ==
  available' = IF event = "removed" THEN available ELSE available + n

HandlerGoto(e, label) == hpc' = [hpc EXCEPT ![e] = label]

(* The gateway answered for a booking that getBookingById found, whatever   *)
(* its status; without stray, one the client was told is reserved.         *)
PaymentEvent(e) ==
  /\ hpc[e] = "idle"
  /\ status[e.booking] # "absent"
  /\ "stray" \in Env \/ reply[e.booking] = 201
  /\ HandlerGoto(e, "lock")
  /\ UNCHANGED <<redisVars, mongoVars, job, stalls, requestVars, todo, cpc>>

(* Mutant of AcquireWebhookLock: acquireLock inside try. *)
MutantDropInTry(e) ==
  /\ hpc[e] = "lock"
  /\ \/ AcquireLock(e.booking) /\ HandlerGoto(e, "read")
     \/ LockBusy(e.booking) /\ HandlerGoto(e, "unlock")
  /\ UNCHANGED <<availabilityVars, idem, meta, mongoVars, job, stalls, requestVars, todo, cpc>>

(* A busy lock drops the event. *)
AcquireWebhookLock(e) ==
  /\ hpc[e] = "lock"
  /\ \/ AcquireLock(e.booking) /\ HandlerGoto(e, "read")
     \/ LockBusy(e.booking) /\ HandlerGoto(e, "done")
  /\ UNCHANGED <<availabilityVars, idem, meta, mongoVars, job, stalls, requestVars, todo, cpc>>

(* Mutant of IsPending: confirmBooking without its check of the status. *)
MutantAnyBooking(b) == status[b] # "absent"

IsPending(b) == status[b] = "PENDING"

(* confirmBooking up to Promise.all, which sends the three writes: none of  *)
(* them carries the session, so the transaction covers nothing.  populate   *)
(* leaves null for an event that was removed, and the ticket codes ask null *)
(* for its text: that throws before anything is written.                   *)
ReadForConfirm(e) ==
  /\ hpc[e] = "read" /\ e.kind = "succeeded"
  /\ IF IsPending(e.booking) /\ event # "removed"
       THEN HandlerGoto(e, "writes") /\ todo' = [todo EXCEPT ![e] = Writes]
       ELSE HandlerGoto(e, "unlock") /\ UNCHANGED todo
  /\ UNCHANGED <<redisVars, mongoVars, job, stalls, requestVars, cpc>>

Landed(e, w) == w \in todo[e] /\ todo' = [todo EXCEPT ![e] = @ \ {w}]

(* insertMany.  A ticketCode is the text of the event, as the confirmation  *)
(* read it, and the booking's id: a second set of tickets collides with the *)
(* first, and that rejection ends the confirmation, unless the title, the   *)
(* price, the date or the capacity was edited in between.  What was edited  *)
(* is not kept, so either may happen.                                      *)
WriteTickets(e) ==
  /\ Landed(e, "tickets")
  /\ \/ /\ e.booking \in issued
        /\ HandlerGoto(e, IF hpc[e] = "writes" THEN "unlock" ELSE hpc[e])
        /\ UNCHANGED <<issued, valid>>
     \/ /\ issued' = issued \cup {e.booking}
        /\ valid' = valid \cup {e.booking}
        /\ UNCHANGED hpc
  /\ UNCHANGED <<redisVars, status, event, available, job, stalls, requestVars, cpc>>

(* updateOne by _id alone: the status is overwritten, whatever it is now. *)
WriteStatus(e) ==
  /\ Landed(e, "status")
  /\ status' = [status EXCEPT ![e.booking] = "CONFIRMED"]
  /\ UNCHANGED <<redisVars, issued, valid, event, available, job, stalls, requestVars, hpc, cpc>>

WriteCounter(e) ==
  /\ Landed(e, "counter")
  /\ IncAvailable(-Qty[e.booking])
  /\ UNCHANGED <<redisVars, status, issued, valid, event, job, stalls, requestVars, hpc, cpc>>

CommitConfirm(e) ==
  /\ hpc[e] = "writes" /\ todo[e] = {}
  /\ HandlerGoto(e, "unlock")
  /\ UNCHANGED <<redisVars, mongoVars, job, stalls, requestVars, todo, cpc>>

(* A write is lost: abortTransaction undoes nothing, the handler unlocks,   *)
(* and the writes in S may still land.  A death among the writes is this    *)
(* and HandlerDies at "unlock".                                            *)
ConfirmFails(e, S) ==
  /\ "partial" \in Env
  /\ hpc[e] = "writes"
  /\ S \subseteq todo[e]
  /\ HandlerGoto(e, "unlock")
  /\ todo' = [todo EXCEPT ![e] = S]
  /\ UNCHANGED <<redisVars, mongoVars, job, stalls, requestVars, cpc>>

(* failBooking: findOneAndUpdate filtered by PENDING, one step. *)
FailDocument(e) ==
  /\ hpc[e] = "read" /\ e.kind = "failed"
  /\ IF IsPending(e.booking)
       THEN /\ status' = [status EXCEPT ![e.booking] = "FAILED"]
            /\ HandlerGoto(e, "release")
       ELSE HandlerGoto(e, "unlock") /\ UNCHANGED status
  /\ UNCHANGED <<redisVars, issued, valid, event, available, job, stalls, requestVars, todo, cpc>>

ReleaseFailed(e) ==
  /\ hpc[e] = "release"
  /\ ReleaseHold(e.booking)
  /\ HandlerGoto(e, "unlock")
  /\ UNCHANGED <<locks, idem, meta, mongoVars, job, stalls, requestVars, todo, cpc>>

UnlockWebhook(e) ==
  /\ hpc[e] = "unlock"
  /\ ReleaseLock(e.booking)
  /\ HandlerGoto(e, "done")
  /\ UNCHANGED <<availabilityVars, idem, meta, mongoVars, job, stalls, requestVars, todo, cpc>>

(* A rejected await: inside try finally is next, else the handler ends. The *)
(* event is not redelivered.                                               *)
HandlerFails(e) ==
  /\ "fault" \in Env
  /\ hpc[e] \in {"lock", "read", "release", "unlock"}
  /\ HandlerGoto(e, IF hpc[e] \in {"read", "release"} THEN "unlock" ELSE "done")
  /\ UNCHANGED <<redisVars, mongoVars, job, stalls, requestVars, todo, cpc>>

HandlerDies(e) ==
  /\ "crash" \in Env
  /\ hpc[e] \in {"lock", "read", "release", "unlock"}
  /\ HandlerGoto(e, "dead")
  /\ UNCHANGED <<redisVars, mongoVars, job, stalls, requestVars, todo, cpc>>

HandlerStep(e) ==
  \/ AcquireWebhookLock(e) \/ ReadForConfirm(e)
  \/ WriteTickets(e) \/ WriteStatus(e) \/ WriteCounter(e) \/ CommitConfirm(e)
  \/ FailDocument(e) \/ ReleaseFailed(e) \/ UnlockWebhook(e)

------------------------------------------------------------------------------
(* The expiry job: BookingExpiryProcessor, expireBooking *)

(* No confirmation has writes on their way to b. *)
Quiet(b) == \A e \in Events : e.booking = b => todo[e] = {}

(* Mutant of ExpireDocument: a findById and a save in one step, with no     *)
(* look at the status.                                                     *)
MutantExpireAny(b) ==
  /\ job[b] = "delayed"
  /\ status' = [status EXCEPT ![b] = "EXPIRED"]
  /\ job' = [job EXCEPT ![b] = "releasing"]
  /\ UNCHANGED <<redisVars, issued, valid, event, available, stalls, requestVars,
                 handlerVars, cpc>>

(* findOneAndUpdate filtered by PENDING, one step; the delay ran out at     *)
(* some moment after queue.add.                                            *)
ExpireDocument(b) ==
  /\ job[b] = "delayed"
  /\ "race" \in Env \/ Quiet(b)
  /\ IF IsPending(b)
       THEN /\ status' = [status EXCEPT ![b] = "EXPIRED"]
            /\ job' = [job EXCEPT ![b] = "releasing"]
       ELSE job' = [job EXCEPT ![b] = "done"] /\ UNCHANGED status
  /\ UNCHANGED <<redisVars, issued, valid, event, available, stalls, requestVars,
                 handlerVars, cpc>>

(* Mutant of ReleaseExpired: the job ends with the document. *)
MutantNoRelease(b) ==
  /\ job[b] = "releasing"
  /\ job' = [job EXCEPT ![b] = "done"]
  /\ UNCHANGED <<redisVars, mongoVars, stalls, requestVars, handlerVars, cpc>>

ReleaseExpired(b) ==
  /\ job[b] = "releasing"
  /\ ReleaseHold(b)
  /\ job' = [job EXCEPT ![b] = "done"]
  /\ UNCHANGED <<locks, idem, meta, mongoVars, stalls, requestVars, handlerVars, cpc>>

(* BullMQ makes one attempt by default: a job that throws has failed. *)
JobFails(b) ==
  /\ "fault" \in Env
  /\ job[b] \in {"delayed", "releasing"}
  /\ job' = [job EXCEPT ![b] = "done"]
  /\ UNCHANGED <<redisVars, mongoVars, stalls, requestVars, handlerVars, cpc>>

(* How many dead workers BullMQ forgives a job: maxStalledCount, which      *)
(* neither the processor nor the queue module sets.                        *)
MaxStalled == 1

(* A worker that dies, before or after the update, leaves a stalled job: it *)
(* is run again from the start, or has failed if it stalled before.        *)
WorkerDies(b) ==
  /\ "crash" \in Env
  /\ job[b] \in {"delayed", "releasing"}
  /\ stalls' = [stalls EXCEPT ![b] = @ + 1]
  /\ job' = [job EXCEPT ![b] = IF stalls[b] < MaxStalled THEN "delayed" ELSE "done"]
  /\ UNCHANGED <<redisVars, mongoVars, requestVars, handlerVars, cpc>>

JobStep(b) == ExpireDocument(b) \/ ReleaseExpired(b)

------------------------------------------------------------------------------
(* cancelBooking *)

CancelGoto(c, label) == cpc' = [cpc EXCEPT ![c] = label]

(* The environment without stray cancels what is sold, without race one     *)
(* call at a time and no confirmation under way.                           *)
CalledInTurn(c) ==
  /\ "stray" \in Env \/ status[c.booking] = "CONFIRMED"
  /\ "race" \in Env \/ /\ Quiet(c.booking)
                       /\ \A d \in Cancels : d.booking = c.booking => cpc[d] # "txn"

(* Not found, already cancelled, not the owner's; any other status goes. *)
Cancellable(c) == /\ status[c.booking] \notin {"absent", "CANCELLED"}
                  /\ c.byOwner

FindForCancel(c) ==
  /\ cpc[c] = "idle"
  /\ IF Cancellable(c)
       THEN CalledInTurn(c) /\ CancelGoto(c, "txn")
       ELSE CancelGoto(c, "refused")
  /\ UNCHANGED <<redisVars, mongoVars, job, stalls, requestVars, handlerVars>>

(* Mutant of CommitCancel: the tickets are not invalidated. *)
MutantKeepTickets(c) ==
  /\ cpc[c] = "txn"
  /\ status' = [status EXCEPT ![c.booking] = "CANCELLED"]
  /\ IncAvailable(Qty[c.booking])
  /\ CancelGoto(c, "release")
  /\ UNCHANGED <<redisVars, issued, valid, event, job, stalls, requestVars, handlerVars>>

(* The transaction, with the session in all three writes: it takes effect   *)
(* at its commit.  save() sets the status it was given, not what it reads.  *)
CommitCancel(c) ==
  /\ cpc[c] = "txn"
  /\ status' = [status EXCEPT ![c.booking] = "CANCELLED"]
  /\ valid' = valid \ {c.booking}
  /\ IncAvailable(Qty[c.booking])
  /\ CancelGoto(c, "release")
  /\ UNCHANGED <<redisVars, issued, event, job, stalls, requestVars, handlerVars>>

ReleaseCancelled(c) ==
  /\ cpc[c] = "release"
  /\ ReleaseHold(c.booking)
  /\ CancelGoto(c, "done")
  /\ UNCHANGED <<locks, idem, meta, mongoVars, job, stalls, requestVars, handlerVars>>

(* The transaction aborts and 500 is answered, or releaseHold throws. *)
CancelFails(c) ==
  /\ "fault" \in Env
  /\ cpc[c] \in {"txn", "release"}
  /\ CancelGoto(c, "refused")
  /\ UNCHANGED <<redisVars, mongoVars, job, stalls, requestVars, handlerVars>>

CancelDies(c) ==
  /\ "crash" \in Env
  /\ cpc[c] \in {"txn", "release"}
  /\ CancelGoto(c, "dead")
  /\ UNCHANGED <<redisVars, mongoVars, job, stalls, requestVars, handlerVars>>

CancelStep(c) == CommitCancel(c) \/ ReleaseCancelled(c)

------------------------------------------------------------------------------
(* Time and Redis *)

HoldsWebhookLock(e) == hpc[e] \in {"read", "writes", "release", "unlock"}

(* Nothing bounds a section: the creation lock's 10 s may always run out.   *)
(* The webhook lock's 30 s run out under a live handler only with race.    *)
LockTimeout(k) ==
  /\ LockExpires(k)
  /\ "race" \in Env \/ \A e \in Events : e.booking = k => ~HoldsWebhookLock(e)
  /\ UNCHANGED <<availabilityVars, idem, meta, mongoVars, job, stalls, requestVars,
                 handlerVars, cpc>>

HoldTimeout(b) ==
  /\ HoldExpires(b)
  /\ UNCHANGED <<locks, idem, meta, mongoVars, job, stalls, requestVars, handlerVars, cpc>>

SlotsEvicted ==
  /\ "evict" \in Env
  /\ SlotsLost
  /\ UNCHANGED <<locks, idem, meta, mongoVars, job, stalls, requestVars, handlerVars, cpc>>

(* The date of the event passes. The counter's TTL was floored to a whole   *)
(* second before the date, so by then the counter is gone.                 *)
EventDatePasses ==
  /\ "evict" \in Env
  /\ meta = "open"
  /\ ~slotsCached
  /\ meta' = "past"
  /\ UNCHANGED <<locks, availabilityVars, idem, mongoVars, job, stalls, requestVars,
                 handlerVars, cpc>>

------------------------------------------------------------------------------
RequestNext == \E r \in Bookings : RequestStep(r) \/ RequestFails(r) \/ RequestDies(r)
HandlerNext == \E e \in Events : \/ HandlerStep(e) \/ HandlerFails(e) \/ HandlerDies(e)
                                 \/ \E S \in SUBSET Writes : ConfirmFails(e, S)
JobNext     == \E b \in Bookings : JobStep(b) \/ JobFails(b) \/ WorkerDies(b)
CancelNext  == \E c \in Cancels :
                 FindForCancel(c) \/ CancelStep(c) \/ CancelFails(c) \/ CancelDies(c)
RedisNext   == \/ \E k \in Keys \cup Bookings : LockTimeout(k)
               \/ \E b \in Bookings : HoldTimeout(b)
               \/ SlotsEvicted \/ EventDatePasses

(* The service with its payment events delivered from outside. *)
ServiceNext == RequestNext \/ HandlerNext \/ JobNext \/ CancelNext \/ RedisNext
Next == ServiceNext \/ \E e \in Events : PaymentEvent(e)

Spec == Init /\ [][Next]_vars

(* A pending await of a live process resolves, a delayed job is run, Redis  *)
(* expires what has a TTL.  Clients and the gateway need not act.           *)
Fairness == /\ \A r \in Bookings : WF_vars(RequestStep(r))
            /\ \A e \in Events : WF_vars(HandlerStep(e))
            /\ \A b \in Bookings : WF_vars(JobStep(b))
            /\ \A c \in Cancels : WF_vars(CancelStep(c))
            /\ \A k \in Keys \cup Bookings : WF_vars(LockTimeout(k))

FairSpec == Spec /\ Fairness

------------------------------------------------------------------------------
(* Properties in every environment *)

Exists(b) == status[b] # "absent"

(* One booking per idempotency key, although two calls with one key can be  *)
(* past findOne together once the creation lock has run out                *)
(* (booking.service.ts:68-104, booking.schema.ts:26).                      *)
UniqueKey == \A b, d \in Bookings :
               Exists(b) /\ Exists(d) /\ KeyOf[b] = KeyOf[d] => b = d

(* A sale is only undone by a cancellation: an expiry job or a failed       *)
(* payment that comes after the confirmation leaves the booking alone.     *)
SoldStaysSold ==
  [][\A b \in Bookings :
       status[b] = "CONFIRMED" => status'[b] \in {"CONFIRMED", "CANCELLED"}]_vars

(* "Cancels a CONFIRMED booking" (booking.service.ts:361), and any other.    *)
(* Whatever was cancelled, the job that was queued for it and a payment     *)
(* that fails later release nothing, and only a confirmation that read it  *)
(* before the cancellation can still overwrite the status                  *)
(* (booking.service.ts:257-260, 295-300, 330-335).                         *)
CancelledIsClosed ==
  [][\A b \in Bookings : status[b] = "CANCELLED" =>
       /\ \/ status'[b] = "CANCELLED"
          \/ \E e \in Events : e.booking = b /\ "status" \in todo[e]
       /\ job'[b] = "releasing" => job[b] = "releasing"
       /\ \A e \in Events :
            e.booking = b /\ hpc'[e] = "release" => hpc[e] = "release"]_vars

(* Of the expiry job and the failed-payment handlers, at most one is about  *)
(* to release a booking: the filtered findOneAndUpdate elects it           *)
(* (booking.service.ts:295-300, 330-335).                                  *)
OneReleaser ==
  \A b \in Bookings, e \in Events :
    e.booking = b /\ hpc[e] = "release" =>
      /\ job[b] # "releasing"
      /\ \A f \in Events : f.booking = b /\ hpc[f] = "release" => f = e

(* A client that was answered 201 has a booking document, and the job that  *)
(* will close it is in the queue or has run.                               *)
AcceptedIsScheduled ==
  \A r \in Bookings : reply[r] = 201 => Exists(r) /\ job[r] # "none"

(* An event that is not published gets no booking.  Nothing in              *)
(* createBooking looks at the status: only the price that the missing hash *)
(* does not have stops it (event.storage.ts:24-37, booking.schema.ts:41).  *)
UnpublishedNotBooked == meta = "none" => \A b \in Bookings : ~Exists(b)

(* Both uses of the lock are those of LockClients: the handlers of a        *)
(* booking take lock:<booking>, the calls with a key lock:creating:<key>.  *)
WebhookLock == INSTANCE LockClients WITH
  Clients <- Events, Keys <- Bookings, OutliveTTL <- "race" \in Env,
  locks <- locks \cap Bookings,
  pc <- [e \in Events |-> IF HoldsWebhookLock(e) THEN "section"
                          ELSE IF hpc[e] = "dead" THEN "dead" ELSE "idle"],
  key <- [e \in Events |-> e.booking]

CreationLock == INSTANCE LockClients WITH
  Clients <- Bookings, OutliveTTL <- TRUE,
  locks <- locks \cap Keys,
  pc <- [r \in Bookings |-> IF rpc[r] \in InTry \cup {"unlock"} THEN "section"
                            ELSE IF rpc[r] = "dead" THEN "dead" ELSE "idle"],
  key <- KeyOf

(* Whatever fails, no path through a handler deletes a lock that it did not  *)
(* take, or works without it; a lock that stays behind is left to its TTL  *)
(* (booking.service.ts:476-516).                                           *)
WebhookLockUse == WebhookLock!Spec

(* Nor does a path through createBooking (booking.service.ts:70-74, 205-206). *)
CreationLockUse == CreationLock!Spec

(* While no handler outlives its lock, two handlers of a booking, whatever   *)
(* they were told, are never inside it together (booking.service.ts:475-516). *)
OneHandler == WebhookLock!Mutex

(* An accepted booking that is still open has its job waiting, also when     *)
(* the worker died with it: whoever took the job out of the queue closed    *)
(* the booking or found it closed.  Only when its worker dies again is the  *)
(* job given up; with "fault" its one attempt may be lost                  *)
(* (booking-expiry.processor.ts:16-25, booking.service.ts:191-195,          *)
(* 294-308).                                                               *)
OpenAwaitsJob ==
  \A b \in Bookings :
    reply[b] = 201 /\ status[b] = "PENDING" =>
      job[b] = "delayed" \/ stalls[b] > MaxStalled

(* Who is going to give the units of a booking back, or has sold them. *)
Keeper(b) ==
  \/ rpc[b] \in {"cache", "enqueue"}
  \/ status[b] = "PENDING" /\ job[b] = "delayed"
  \/ status[b] = "CONFIRMED"
  \/ job[b] = "releasing"
  \/ \E e \in Events : e.booking = b /\ hpc[e] = "release"
  \/ \E c \in Cancels : c.booking = b /\ cpc[c] = "release"

(* "Slots are never stuck" (RESERVATION_ENGINE.md:44), as long as no command  *)
(* fails and no process dies: units that were taken are sold, or somebody  *)
(* is on the way to give them back, although a lock may run out, jobs and  *)
(* cancellations get into confirmations, and writes are lost.              *)
NothingStranded == \A b \in owned : Keeper(b)

(* "sparse so null values are excluded" (booking.schema.ts:54): a document   *)
(* is refused as a duplicate only for its own idempotency key.             *)
NullSessionsExcluded ==
  \A r \in Bookings :
    r \in priced /\ reply[r] = 500 =>
      \E q \in Bookings \ {r} : Exists(q) /\ KeyOf[q] = KeyOf[r]

------------------------------------------------------------------------------
(* Properties in the environment of faults and crashes, without the other   *)
(* hazards                                                                 *)

(* Every unit is in the counter or with exactly one booking. *)
Ledger == slotsCached => slots + Cardinality(Units(owned)) = Capacity

(* The counter never goes below zero: check-and-hold.lua compares and takes  *)
(* in one step, and nobody else takes.                                     *)
SlotsNonNegative == slots >= 0

(* Zero over-sell: the valid tickets fit in the event. *)
NoOversell == Cardinality(Units(valid)) <= Capacity

(* A booking that was accepted and is still open or sold has its units out  *)
(* of the counter: no release of another step gave them away.              *)
SoldIsHeld ==
  \A b \in Bookings :
    \/ b \in valid
    \/ reply[b] = 201 /\ status[b] \in {"PENDING", "CONFIRMED"}
    => b \in owned

(* The three confirmation writes are one, seen when none is on its way: the *)
(* tickets are issued exactly for the sold, and availableTickets counts    *)
(* exactly the sold.                                                       *)
ConfirmedAsAWhole ==
  (\A b \in Bookings : Quiet(b)) =>
    /\ valid = {b \in Bookings : status[b] = "CONFIRMED"}
    /\ available = Capacity - Cardinality(Units(valid))

(* The service implements the sale: reserved is what a hold took, sold what *)
(* has valid tickets, withdrawn what a cancellation has not released yet.  *)
SaleStage == [b \in Bookings |->
  IF b \in valid THEN "sold"
  ELSE IF b \notin owned THEN "out"
  ELSE IF b \in issued THEN "withdrawn" ELSE "reserved"]

Sale == INSTANCE TicketSale WITH stage <- SaleStage

(* Every step of holds, confirmations, cancellations and releases is a step *)
(* of the abstract sale, or leaves it alone.                               *)
SaleSpec == Sale!Spec
------------------------------------------------------------------------------
(* Liveness, under Fairness *)

(* An accepted booking does not stay open: it is paid, declined, cancelled  *)
(* or, at the latest when its job runs, expired.                           *)
AcceptedSettles ==
  \A b \in Bookings : reply[b] = 201 ~> status[b] # "PENDING"

(* Whatever closes a booking also returns its units. *)
ClosedGivesBack ==
  \A b \in Bookings :
    status[b] \in {"EXPIRED", "FAILED", "CANCELLED"} ~> b \notin owned

(* "BullMQ Delayed Jobs (TTL based) ensure slots are never stuck"           *)
(* (RESERVATION_ENGINE.md:44): units that were taken are sold or returned. *)
SlotsNeverStuck ==
  \A b \in Bookings : b \in owned ~> status[b] = "CONFIRMED" \/ b \notin owned
==============================================================================
