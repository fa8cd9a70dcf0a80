---------------------------- MODULE BookingProofs ----------------------------
(***************************************************************************)
(* Proofs about Booking that hold in every environment: type correctness,  *)
(* one booking per key, one releaser, scheduled bookings, nothing booked   *)
(* for an unpublished event, sales that only a cancellation undoes, and    *)
(* locks that are used as LockClients says.  Then those that need only one *)
(* hazard excluded, or the few of SteadyEnv.  The lemmas about one step    *)
(* ask for no more than EngineParts, so that EventAdmin can use them.      *)
(***************************************************************************)
EXTENDS BookingInvariants, TLAPS

(* The constants, as the proofs use them. *)
LEMMA ConstantTypes ==
  /\ Capacity \in Nat
  /\ \A b \in Bookings : Qty[b] \in Nat \ {0} /\ KeyOf[b] \in Keys
  /\ \A e \in Events : e.booking \in Bookings
  /\ \A c \in Cancels : c.booking \in Bookings
BY QtyAssumption, KeyOfAssumption, EventsAssumption, CancelsAssumption,
   CapacityAssumption

USE ConstantTypes

(* One step of a request keeps every variable in its type. *)
LEMMA RequestTypes ==
  ASSUME TypeOK, NEW r \in Bookings, RequestStep(r) \/ RequestFails(r) \/ RequestDies(r)
  PROVE  TypeOK'
<1> USE DEF TypeOK, AvailabilityTypeOK, availabilityVars, redisVars, mongoVars,
            requestVars, handlerVars, Goto, Answer, Finally, InTry, BookingStatus
<1>1. CASE CheckIdempotency(r) BY <1>1 DEF CheckIdempotency
<1>2. CASE LockCreation(r) BY <1>2 DEF LockCreation, AcquireLock, LockBusy
<1>3. CASE FindExisting(r) BY <1>3 DEF FindExisting
<1>4. CASE GetEvent(r) BY <1>4 DEF GetEvent
<1>5. CASE CountSlots(r)
  <2>1. CASE slotsCached BY <1>5, <2>1 DEF CountSlots, CheckCount
  <2>2. CASE ~slotsCached BY <1>5, <2>2 DEF CountSlots, CheckCount
  <2>3. QED BY <2>1, <2>2
<1>6. CASE ReadAvailable(r) BY <1>6 DEF ReadAvailable
<1>7. CASE RefillSlots(r)
  <2>1. count[r] \in Int BY DEF TypeOK
  <2>2. slots' \in Int /\ slotsCached' \in BOOLEAN
    BY <1>7, <2>1 DEF RefillSlots, SetEventSlots
  <2>3. QED BY <1>7, <2>2 DEF RefillSlots, CheckCount, SetEventSlots
<1>8. CASE CreateDocument(r) BY <1>8 DEF CreateDocument
<1>9. CASE HoldSlots(r) BY <1>9 DEF HoldSlots, CheckAndHold, EnoughSlots
<1>10. CASE CacheIdempotency(r) BY <1>10 DEF CacheIdempotency
<1>11. CASE EnqueueExpiry(r) BY <1>11 DEF EnqueueExpiry
<1>12. CASE UnlockCreation(r) BY <1>12 DEF UnlockCreation, ReleaseLock
<1>13. CASE RequestFails(r) BY <1>13 DEF RequestFails
<1>14. CASE RequestDies(r) BY <1>14 DEF RequestDies
<1>15. QED
  BY <1>1, <1>2, <1>3, <1>4, <1>5, <1>6, <1>7, <1>8, <1>9, <1>10, <1>11, <1>12,
     <1>13, <1>14 DEF RequestStep

(* One step of a payment handler, its start and its failures do too. *)
LEMMA HandlerTypes ==
  ASSUME TypeOK, NEW e \in Events,
         \/ PaymentEvent(e) \/ HandlerStep(e) \/ HandlerFails(e) \/ HandlerDies(e)
         \/ \E S \in SUBSET Writes : ConfirmFails(e, S)
  PROVE  TypeOK'
<1> USE DEF TypeOK, AvailabilityTypeOK, availabilityVars, redisVars, mongoVars,
            requestVars, handlerVars, HandlerGoto, BookingStatus
<1>1. CASE PaymentEvent(e) BY <1>1 DEF PaymentEvent
<1>2. CASE AcquireWebhookLock(e) BY <1>2 DEF AcquireWebhookLock, AcquireLock, LockBusy
<1>3. CASE ReadForConfirm(e) BY <1>3 DEF ReadForConfirm
<1>4. CASE WriteTickets(e) BY <1>4 DEF WriteTickets, Landed
<1>5. CASE WriteStatus(e) BY <1>5 DEF WriteStatus, Landed
<1>6. CASE WriteCounter(e) BY <1>6 DEF WriteCounter, IncAvailable, Landed
<1>7. CASE CommitConfirm(e) BY <1>7 DEF CommitConfirm
<1>8. CASE FailDocument(e) BY <1>8 DEF FailDocument
<1>9. CASE ReleaseFailed(e) BY <1>9 DEF ReleaseFailed, ReleaseHold
<1>10. CASE UnlockWebhook(e) BY <1>10 DEF UnlockWebhook, ReleaseLock
<1>11. CASE HandlerFails(e) BY <1>11 DEF HandlerFails
<1>12. CASE HandlerDies(e) BY <1>12 DEF HandlerDies
<1>13. ASSUME NEW S \in SUBSET Writes, ConfirmFails(e, S) PROVE TypeOK'
  BY <1>13 DEF ConfirmFails
<1>14. QED
  BY <1>1, <1>2, <1>3, <1>4, <1>5, <1>6, <1>7, <1>8, <1>9, <1>10, <1>11, <1>12,
     <1>13 DEF HandlerStep

(* And a step of an expiry job or a cancellation, and what time does. *)
LEMMA OtherTypes ==
  ASSUME TypeOK, JobNext \/ CancelNext \/ RedisNext
  PROVE  TypeOK'
<1> USE DEF TypeOK, AvailabilityTypeOK, availabilityVars, redisVars, mongoVars,
            requestVars, handlerVars, CancelGoto, BookingStatus
<1>1. ASSUME NEW b \in Bookings, ExpireDocument(b) PROVE TypeOK'
  BY <1>1 DEF ExpireDocument
<1>2. ASSUME NEW b \in Bookings, ReleaseExpired(b) PROVE TypeOK'
  BY <1>2 DEF ReleaseExpired, ReleaseHold
<1>3. ASSUME NEW b \in Bookings, JobFails(b) \/ WorkerDies(b) PROVE TypeOK'
  BY <1>3 DEF JobFails, WorkerDies
<1>4. ASSUME NEW c \in Cancels, FindForCancel(c) PROVE TypeOK'
  BY <1>4 DEF FindForCancel
<1>5. ASSUME NEW c \in Cancels, CommitCancel(c) PROVE TypeOK'
  BY <1>5 DEF CommitCancel, IncAvailable
<1>6. ASSUME NEW c \in Cancels, ReleaseCancelled(c) PROVE TypeOK'
  BY <1>6 DEF ReleaseCancelled, ReleaseHold
<1>7. ASSUME NEW c \in Cancels, CancelFails(c) \/ CancelDies(c) PROVE TypeOK'
  BY <1>7 DEF CancelFails, CancelDies
<1>8. ASSUME NEW k \in Keys \cup Bookings, LockTimeout(k) PROVE TypeOK'
  BY <1>8 DEF LockTimeout, LockExpires
<1>9. ASSUME NEW b \in Bookings, HoldTimeout(b) PROVE TypeOK'
  BY <1>9 DEF HoldTimeout, HoldExpires
<1>10. CASE SlotsEvicted
  <2>1. slotsCached' \in BOOLEAN BY <1>10, Zenon DEF SlotsEvicted, SlotsLost, DeleteEventSlots
  <2>2. QED BY <1>10, <2>1 DEF SlotsEvicted, SlotsLost, DeleteEventSlots
<1>11. CASE EventDatePasses BY <1>11 DEF EventDatePasses
<1>12. QED
  BY <1>1, <1>2, <1>3, <1>4, <1>5, <1>6, <1>7, <1>8, <1>9, <1>10, <1>11
     DEF JobNext, JobStep, CancelNext, CancelStep, RedisNext

(* Together: a step of the service keeps every variable in its type. *)
LEMMA TypeStep ==
  ASSUME TypeOK, [Next]_vars
  PROVE  TypeOK'
<1>1. CASE UNCHANGED vars
  BY <1>1 DEF vars, redisVars, mongoVars, requestVars, handlerVars, TypeOK,
              AvailabilityTypeOK
<1>2. CASE RequestNext BY <1>2, RequestTypes DEF RequestNext
<1>3. CASE HandlerNext \/ \E e \in Events : PaymentEvent(e)
  BY <1>3, HandlerTypes DEF HandlerNext
<1>4. CASE JobNext \/ CancelNext \/ RedisNext BY <1>4, OtherTypes
<1>5. QED BY <1>1, <1>2, <1>3, <1>4 DEF Next, ServiceNext

(* The initial state has every variable in its type. *)
LEMMA InitTypes == ASSUME Init PROVE TypeOK
<1>1. AvailabilityTypeOK
  <2>1. slotsCached \in BOOLEAN /\ slots \in Int
    BY DEF Init, AvailabilityInit
  <2>2. QED BY <2>1 DEF AvailabilityTypeOK, Init, AvailabilityInit
<1>2. QED
  BY <1>1 DEF Init, LocksInit, TypeOK, EventStatus, BookingStatus, InTry

(* Every variable keeps its type, in every environment and for every set   *)
(* of bookings, events and cancellations.                                  *)
THEOREM TypeCorrect == Spec => []TypeOK
<1>1. Init => TypeOK
  BY InitTypes
<1>2. TypeOK /\ [Next]_vars => TypeOK'
  BY TypeStep
<1>3. QED BY <1>1, <1>2, PTL DEF Spec

------------------------------------------------------------------------------
(* The parts of AnyEnvInv that no administration of the event disturbs. *)
EngineParts == /\ UniqueKey
               /\ WorkOnExisting
               /\ ReleaserFoundPending
               /\ OneReleaser
               /\ AcceptedHasJob

(* The facts about data that a request reads are kept by its steps. *)
LEMMA RequestKeepsParts ==
  ASSUME TypeOK, EngineParts, NEW r \in Bookings,
         RequestStep(r) \/ RequestFails(r) \/ RequestDies(r)
  PROVE  EngineParts'
<1> USE DEF TypeOK, EngineParts, UniqueKey, WorkOnExisting, ReleaserFoundPending,
            OneReleaser, AcceptedHasJob, Exists, redisVars,
            mongoVars, requestVars, handlerVars, Goto, Answer, Finally, InTry
<1>1. CASE CheckIdempotency(r) BY <1>1 DEF CheckIdempotency
<1>2. CASE LockCreation(r) BY <1>2 DEF LockCreation
<1>3. CASE FindExisting(r) BY <1>3 DEF FindExisting
<1>4. CASE GetEvent(r) BY <1>4 DEF GetEvent
<1>5. CASE CountSlots(r) BY <1>5 DEF CountSlots, CheckCount
<1>6. CASE ReadAvailable(r) BY <1>6 DEF ReadAvailable
<1>7. CASE RefillSlots(r) BY <1>7 DEF RefillSlots, CheckCount
<1>8. CASE CreateDocument(r)
  <2>1. CASE Valid(r) /\ ~DuplicateKey(r)
    <3>1. /\ status' = [status EXCEPT ![r] = "PENDING"]
          /\ rpc' = [rpc EXCEPT ![r] = "hold"]
          /\ UNCHANGED <<job, reply, hpc, todo, cpc>>
      BY <1>8, <2>1 DEF CreateDocument
    <3>2. status[r] = "absent" /\ \A q \in Bookings : Exists(q) => KeyOf[q] # KeyOf[r]
      BY <2>1 DEF DuplicateKey
    <3>3. QED BY <3>1, <3>2
  <2>2. CASE ~(Valid(r) /\ ~DuplicateKey(r))
    BY <1>8, <2>2 DEF CreateDocument
  <2>3. QED BY <2>1, <2>2
<1>9. CASE HoldSlots(r) BY <1>9 DEF HoldSlots
<1>10. CASE CacheIdempotency(r) BY <1>10 DEF CacheIdempotency
<1>11. CASE EnqueueExpiry(r) BY <1>11 DEF EnqueueExpiry
<1>12. CASE UnlockCreation(r) BY <1>12 DEF UnlockCreation
<1>13. CASE RequestFails(r) BY <1>13 DEF RequestFails
<1>14. CASE RequestDies(r) BY <1>14 DEF RequestDies
<1>15. QED
  BY <1>1, <1>2, <1>3, <1>4, <1>5, <1>6, <1>7, <1>8, <1>9, <1>10, <1>11, <1>12, <1>13, <1>14
     DEF RequestStep

(* A payment handler works on a booking that exists; a failed payment that    *)
(* found PENDING finds no other releaser.                                  *)
LEMMA HandlerKeepsParts ==
  ASSUME TypeOK, EngineParts, NEW e \in Events,
         \/ PaymentEvent(e) \/ HandlerStep(e) \/ HandlerFails(e) \/ HandlerDies(e)
         \/ \E S \in SUBSET Writes : ConfirmFails(e, S)
  PROVE  EngineParts'
<1> USE DEF TypeOK, EngineParts, UniqueKey, WorkOnExisting, ReleaserFoundPending,
            OneReleaser, AcceptedHasJob, Exists, redisVars,
            mongoVars, requestVars, handlerVars, HandlerGoto
<1>1. CASE PaymentEvent(e) BY <1>1 DEF PaymentEvent
<1>2. CASE AcquireWebhookLock(e) BY <1>2 DEF AcquireWebhookLock
<1>3. CASE ReadForConfirm(e) BY <1>3 DEF ReadForConfirm
<1>4. CASE WriteTickets(e) BY <1>4 DEF WriteTickets, Landed
<1>5. CASE WriteStatus(e) BY <1>5 DEF WriteStatus, Landed
<1>6. CASE WriteCounter(e) BY <1>6 DEF WriteCounter, IncAvailable, Landed
<1>7. CASE CommitConfirm(e) BY <1>7 DEF CommitConfirm
<1>8. CASE FailDocument(e)
  <2>1. CASE IsPending(e.booking)
    <3>1. /\ status' = [status EXCEPT ![e.booking] = "FAILED"]
          /\ hpc' = [hpc EXCEPT ![e] = "release"]
          /\ UNCHANGED <<job, reply, rpc, todo, cpc>>
      BY <1>8, <2>1 DEF FailDocument
    <3>2. status[e.booking] = "PENDING" /\ hpc[e] = "read"
      BY <1>8, <2>1 DEF FailDocument, IsPending
    <3>3. \A f \in Events : hpc[f] = "release" => f.booking # e.booking
      BY <3>2
    <3>4. /\ UniqueKey' /\ WorkOnExisting' /\ ReleaserFoundPending'
          /\ AcceptedHasJob'
      BY <3>1, <3>2
    <3>5. OneReleaser'
      BY <3>1, <3>2, <3>3
    <3>6. QED BY <3>4, <3>5
  <2>2. CASE ~IsPending(e.booking)
    BY <1>8, <2>2 DEF FailDocument
  <2>3. QED BY <2>1, <2>2
<1>9. CASE ReleaseFailed(e) BY <1>9 DEF ReleaseFailed
<1>10. CASE UnlockWebhook(e) BY <1>10 DEF UnlockWebhook
<1>11. CASE HandlerFails(e) BY <1>11 DEF HandlerFails
<1>12. CASE HandlerDies(e) BY <1>12 DEF HandlerDies
<1>13. ASSUME NEW S \in SUBSET Writes, ConfirmFails(e, S) PROVE EngineParts'
  BY <1>13 DEF ConfirmFails
<1>14. QED
  BY <1>1, <1>2, <1>3, <1>4, <1>5, <1>6, <1>7, <1>8, <1>9, <1>10, <1>11, <1>12,
     <1>13 DEF HandlerStep

(* So does an expiry job; cancellations and Redis take nothing from the parts. *)
LEMMA OtherKeepsParts ==
  ASSUME TypeOK, EngineParts, JobNext \/ CancelNext \/ RedisNext
  PROVE  EngineParts'
<1> USE DEF TypeOK, EngineParts, UniqueKey, WorkOnExisting, ReleaserFoundPending,
            OneReleaser, AcceptedHasJob, Exists, redisVars,
            mongoVars, requestVars, handlerVars, CancelGoto
<1>1. ASSUME NEW b \in Bookings, ExpireDocument(b) PROVE EngineParts'
  <2>1. CASE IsPending(b)
    <3>1. /\ status[b] = "PENDING"
          /\ status' = [status EXCEPT ![b] = "EXPIRED"]
          /\ job' = [job EXCEPT ![b] = "releasing"]
          /\ UNCHANGED <<rpc, reply, hpc, todo, cpc>>
      BY <1>1, <2>1 DEF ExpireDocument, IsPending
    <3>2. QED BY <3>1
  <2>2. CASE ~IsPending(b)
    BY <1>1, <2>2 DEF ExpireDocument
  <2>3. QED BY <2>1, <2>2
<1>2. ASSUME NEW b \in Bookings, ReleaseExpired(b) PROVE EngineParts'
  BY <1>2 DEF ReleaseExpired
<1>3. ASSUME NEW b \in Bookings, JobFails(b) \/ WorkerDies(b) PROVE EngineParts'
  BY <1>3 DEF JobFails, WorkerDies
<1>4. ASSUME NEW c \in Cancels, FindForCancel(c) PROVE EngineParts'
  BY <1>4 DEF FindForCancel, Cancellable
<1>5. ASSUME NEW c \in Cancels, CommitCancel(c) PROVE EngineParts'
  BY <1>5 DEF CommitCancel, IncAvailable
<1>6. ASSUME NEW c \in Cancels, ReleaseCancelled(c) PROVE EngineParts'
  BY <1>6 DEF ReleaseCancelled
<1>7. ASSUME NEW c \in Cancels, CancelFails(c) \/ CancelDies(c) PROVE EngineParts'
  BY <1>7 DEF CancelFails, CancelDies
<1>8. CASE RedisNext
  BY <1>8 DEF RedisNext, LockTimeout, HoldTimeout, SlotsEvicted, EventDatePasses
<1>9. QED
  BY <1>1, <1>2, <1>3, <1>4, <1>5, <1>6, <1>7, <1>8
     DEF JobNext, JobStep, CancelNext, CancelStep

(* Together: a step of the service keeps the parts. *)
LEMMA StepKeepsParts ==
  ASSUME TypeOK, EngineParts, [Next]_vars
  PROVE  EngineParts'
<1>1. CASE UNCHANGED vars
  BY <1>1 DEF vars, redisVars, mongoVars, requestVars, handlerVars, EngineParts,
              UniqueKey, WorkOnExisting, ReleaserFoundPending, OneReleaser,
              AcceptedHasJob, Exists
<1>2. CASE RequestNext BY <1>2, RequestKeepsParts DEF RequestNext
<1>3. CASE HandlerNext \/ \E e \in Events : PaymentEvent(e)
  BY <1>3, HandlerKeepsParts DEF HandlerNext
<1>4. CASE JobNext \/ CancelNext \/ RedisNext BY <1>4, OtherKeepsParts
<1>5. QED BY <1>1, <1>2, <1>3, <1>4 DEF Next, ServiceNext

(* A document is stored only by the call it belongs to, and only with a     *)
(* price; a price is read only from the hash; and the hash is not touched   *)
(* but by the date.                                                        *)
LEMMA StepStores ==
  ASSUME TypeOK, WorkOnExisting, [Next]_vars
  PROVE  /\ \A b \in Bookings : Exists(b)' /\ ~Exists(b) => Valid(b)
         /\ \A r \in Bookings :
              r \in priced' /\ r \notin priced => meta = "open" /\ rpc[r] = "event"
         /\ meta' = meta \/ ("evict" \in Env /\ meta = "open" /\ meta' = "past")
         /\ event' = event
<1> DEFINE Stores == /\ \A b \in Bookings : Exists(b)' /\ ~Exists(b) => Valid(b)
                     /\ \A r \in Bookings :
                          r \in priced' /\ r \notin priced =>
                            meta = "open" /\ rpc[r] = "event"
                     /\ meta' = meta \/ ("evict" \in Env /\ meta = "open" /\ meta' = "past")
                     /\ event' = event
<1> SUFFICES Stores
  OBVIOUS
<1> USE DEF TypeOK, Exists, redisVars, mongoVars, requestVars, handlerVars
<1>1. CASE RequestNext
  <2>1. PICK r \in Bookings : RequestStep(r) \/ RequestFails(r) \/ RequestDies(r)
    BY <1>1 DEF RequestNext
  <2>2. CASE CreateDocument(r) BY <2>2 DEF CreateDocument
  <2>3. CASE GetEvent(r) BY <2>3 DEF GetEvent
  <2>4. CASE ~CreateDocument(r) /\ ~GetEvent(r)
    <3>1. UNCHANGED <<status, priced, meta, event>>
      BY <2>1, <2>4 DEF RequestStep, RequestFails, RequestDies, CheckIdempotency,
         LockCreation, FindExisting, CountSlots, ReadAvailable, RefillSlots, HoldSlots,
         CacheIdempotency, EnqueueExpiry, UnlockCreation
    <3>2. QED BY <3>1
  <2>5. QED BY <2>2, <2>3, <2>4
<1>2. CASE HandlerNext \/ \E e \in Events : PaymentEvent(e)
  <2>1. PICK e \in Events : \/ PaymentEvent(e) \/ HandlerStep(e) \/ HandlerFails(e)
                            \/ HandlerDies(e) \/ \E S \in SUBSET Writes : ConfirmFails(e, S)
    BY <1>2 DEF HandlerNext
  <2>2. CASE WriteStatus(e)
    BY <2>2 DEF WriteStatus, Landed, WorkOnExisting
  <2>3. CASE FailDocument(e)
    BY <2>3 DEF FailDocument, IsPending
  <2>4. CASE ~WriteStatus(e) /\ ~FailDocument(e)
    <3>1. UNCHANGED <<status, priced, meta, event>>
      BY <2>1, <2>4 DEF HandlerStep, PaymentEvent, AcquireWebhookLock, ReadForConfirm,
         WriteTickets, WriteCounter, CommitConfirm, ReleaseFailed, UnlockWebhook,
         HandlerFails, HandlerDies, ConfirmFails
    <3>2. QED BY <3>1
  <2>5. QED BY <2>2, <2>3, <2>4
<1>3. CASE JobNext
  BY <1>3 DEF JobNext, JobStep, ExpireDocument, ReleaseExpired, JobFails, WorkerDies,
     IsPending
<1>4. CASE CancelNext
  BY <1>4 DEF CancelNext, CancelStep, FindForCancel, CommitCancel, ReleaseCancelled,
     CancelFails, CancelDies, WorkOnExisting
<1>5. CASE RedisNext \/ UNCHANGED vars
  BY <1>5 DEF RedisNext, LockTimeout, HoldTimeout, SlotsEvicted, EventDatePasses, vars
<1>6. QED BY <1>1, <1>2, <1>3, <1>4, <1>5 DEF ServiceNext, Next

(* Of AnyEnvInv, the step lemmas below need the parts only. *)
LEMMA AnyEnvHasParts == AnyEnvInv => TypeOK /\ EngineParts
BY DEF AnyEnvInv, EngineParts

(* The invariant of every environment. *)
THEOREM AnyEnvInvariant == Spec => []AnyEnvInv
<1>1. Init => EngineParts /\ UnpublishedHasNoPrice
  BY DEF Init, EngineParts, UniqueKey, WorkOnExisting, ReleaserFoundPending,
         OneReleaser, AcceptedHasJob, UnpublishedHasNoPrice, Exists
<1>2. TypeOK /\ EngineParts /\ [Next]_vars => EngineParts'
  BY StepKeepsParts
<1>3. TypeOK /\ EngineParts /\ UnpublishedHasNoPrice /\ [Next]_vars =>
        UnpublishedHasNoPrice'
  <2> SUFFICES ASSUME TypeOK, EngineParts, UnpublishedHasNoPrice, [Next]_vars,
                      meta' = "none"
               PROVE  priced' = {} /\ \A b \in Bookings : ~Exists(b)'
    BY DEF UnpublishedHasNoPrice, Exists
  <2>1. meta = "none" /\ priced = {} /\ \A b \in Bookings : ~Exists(b)
    BY StepStores DEF EngineParts, UnpublishedHasNoPrice
  <2>2. \A r \in Bookings : r \notin priced'
    BY <2>1, StepStores DEF EngineParts
  <2>3. priced' \subseteq Bookings
    <3>1. TypeOK' BY TypeStep
    <3>2. QED BY <3>1 DEF TypeOK
  <2>4. QED BY <2>1, <2>2, <2>3, StepStores DEF EngineParts, Valid
<1>4. TypeOK /\ EngineParts /\ UnpublishedHasNoPrice => AnyEnvInv
  BY DEF EngineParts, AnyEnvInv
<1>5. QED BY <1>1, <1>2, <1>3, <1>4, TypeCorrect, PTL DEF Spec

(* No environment makes two bookings with one idempotency key: the unique   *)
(* index decides when the creation lock has run out.                       *)
THEOREM KeyIsUnique == Spec => []UniqueKey
<1>1. AnyEnvInv => UniqueKey BY DEF AnyEnvInv
<1>2. QED BY <1>1, AnyEnvInvariant, PTL

(* The expiry job and the failed payments never release a booking twice. *)
THEOREM ReleaserIsOne == Spec => []OneReleaser
<1>1. AnyEnvInv => OneReleaser BY DEF AnyEnvInv
<1>2. QED BY <1>1, AnyEnvInvariant, PTL

(* 201 is answered only for a stored booking whose expiry job is queued. *)
THEOREM AcceptedBookings == Spec => []AcceptedIsScheduled
<1>1. AnyEnvInv => AcceptedIsScheduled
  BY DEF AnyEnvInv, AcceptedIsScheduled, AcceptedHasJob, WorkOnExisting
<1>2. QED BY <1>1, AnyEnvInvariant, PTL

(* Drafts get no booking, although their status is never checked. *)
THEOREM UnpublishedBookings == Spec => []UnpublishedNotBooked
<1>1. AnyEnvInv => UnpublishedNotBooked
  BY DEF AnyEnvInv, UnpublishedNotBooked, UnpublishedHasNoPrice
<1>2. QED BY <1>1, AnyEnvInvariant, PTL

(* Neither job nor failed payment touches a booking that is not PENDING. *)
LEMMA SaleStep ==
  ASSUME TypeOK, Next
  PROVE  \A b \in Bookings :
           status[b] = "CONFIRMED" => status'[b] \in {"CONFIRMED", "CANCELLED"}
<1> DEFINE Final == \A b \in Bookings :
             status[b] = "CONFIRMED" => status'[b] \in {"CONFIRMED", "CANCELLED"}
<1> SUFFICES Final
  OBVIOUS
<1> USE DEF TypeOK, mongoVars, IsPending
<1>1. CASE UNCHANGED status BY <1>1
<1>2. ASSUME NEW r \in Bookings, CreateDocument(r) PROVE Final
  <2>1. CASE DuplicateKey(r) BY <1>2, <2>1 DEF CreateDocument
  <2>2. CASE ~DuplicateKey(r) BY <1>2, <2>2 DEF CreateDocument, DuplicateKey
  <2>3. QED BY <2>1, <2>2
<1>3. ASSUME NEW e \in Events, WriteStatus(e) PROVE Final BY <1>3 DEF WriteStatus
<1>4. ASSUME NEW e \in Events, FailDocument(e) PROVE Final BY <1>4 DEF FailDocument
<1>5. ASSUME NEW b \in Bookings, ExpireDocument(b) PROVE Final BY <1>5 DEF ExpireDocument
<1>6. ASSUME NEW c \in Cancels, CommitCancel(c) PROVE Final BY <1>6 DEF CommitCancel
<1>7. \/ UNCHANGED status
      \/ \E b \in Bookings : CreateDocument(b) \/ ExpireDocument(b)
      \/ \E e \in Events : WriteStatus(e) \/ FailDocument(e)
      \/ \E c \in Cancels : CommitCancel(c)
  <2>1. CASE RequestNext
    BY <2>1 DEF RequestNext, RequestStep, CheckIdempotency, LockCreation,
       FindExisting, GetEvent, CountSlots, ReadAvailable, RefillSlots, HoldSlots,
       CacheIdempotency, EnqueueExpiry, UnlockCreation, RequestFails, RequestDies
  <2>2. CASE HandlerNext \/ \E e \in Events : PaymentEvent(e)
    BY <2>2 DEF HandlerNext, HandlerStep, PaymentEvent, AcquireWebhookLock,
       ReadForConfirm, WriteTickets, WriteCounter, CommitConfirm, ReleaseFailed,
       UnlockWebhook, HandlerFails, HandlerDies, ConfirmFails
  <2>3. CASE JobNext \/ CancelNext \/ RedisNext
    BY <2>3 DEF JobNext, JobStep, ReleaseExpired, JobFails, WorkerDies, CancelNext,
       CancelStep, FindForCancel, ReleaseCancelled, CancelFails, CancelDies,
       RedisNext, LockTimeout, HoldTimeout, SlotsEvicted, EventDatePasses
  <2>4. QED BY <2>1, <2>2, <2>3 DEF Next, ServiceNext
<1>8. QED BY <1>1, <1>2, <1>3, <1>4, <1>5, <1>6, <1>7

(* No step takes a confirmed booking anywhere but to cancelled. *)
THEOREM SaleIsFinal == Spec => SoldStaysSold
<1> DEFINE Final == \A b \in Bookings :
             status[b] = "CONFIRMED" => status'[b] \in {"CONFIRMED", "CANCELLED"}
<1>1. TypeOK /\ [Next]_vars => [Final]_vars
  BY SaleStep
<1>2. QED BY <1>1, TypeCorrect, PTL DEF Spec, SoldStaysSold

(* A step that finds a booking CANCELLED elects no releaser of it. *)
LEMMA CancelledStep ==
  ASSUME TypeOK, Next
  PROVE  \A b \in Bookings : status[b] = "CANCELLED" =>
           /\ \/ status'[b] = "CANCELLED"
              \/ \E e \in Events : e.booking = b /\ "status" \in todo[e]
           /\ job'[b] = "releasing" => job[b] = "releasing"
           /\ \A e \in Events :
                e.booking = b /\ hpc'[e] = "release" => hpc[e] = "release"
<1> DEFINE Closed == \A b \in Bookings : status[b] = "CANCELLED" =>
             /\ \/ status'[b] = "CANCELLED"
                \/ \E e \in Events : e.booking = b /\ "status" \in todo[e]
             /\ job'[b] = "releasing" => job[b] = "releasing"
             /\ \A e \in Events :
                  e.booking = b /\ hpc'[e] = "release" => hpc[e] = "release"
<1> SUFFICES Closed
  OBVIOUS
<1> USE DEF TypeOK, mongoVars, requestVars, handlerVars, IsPending, HandlerGoto
<1>1. CASE RequestNext
  <2>1. UNCHANGED hpc
    BY <1>1 DEF RequestNext, RequestStep, CheckIdempotency, LockCreation, FindExisting,
       GetEvent, CountSlots, ReadAvailable, RefillSlots, CreateDocument, HoldSlots,
       CacheIdempotency, EnqueueExpiry, UnlockCreation, RequestFails, RequestDies
  <2>2. UNCHANGED job \/ \E r \in Bookings : job' = [job EXCEPT ![r] = "delayed"]
    BY <1>1 DEF RequestNext, RequestStep, CheckIdempotency, LockCreation, FindExisting,
       GetEvent, CountSlots, ReadAvailable, RefillSlots, CreateDocument, HoldSlots,
       CacheIdempotency, EnqueueExpiry, UnlockCreation, RequestFails, RequestDies
  <2>3. \/ UNCHANGED status
        \/ \E r \in Bookings : CreateDocument(r)
    BY <1>1 DEF RequestNext, RequestStep, CheckIdempotency, LockCreation, FindExisting,
       GetEvent, CountSlots, ReadAvailable, RefillSlots, HoldSlots,
       CacheIdempotency, EnqueueExpiry, UnlockCreation, RequestFails, RequestDies
  <2>4. ASSUME NEW b \in Bookings, status[b] = "CANCELLED" PROVE status'[b] = "CANCELLED"
    <3>1. ASSUME NEW r \in Bookings, CreateDocument(r) PROVE status'[b] = "CANCELLED"
      <4>1. CASE DuplicateKey(r) BY <3>1, <4>1, <2>4 DEF CreateDocument
      <4>2. CASE ~DuplicateKey(r)
        BY <3>1, <4>2, <2>4 DEF CreateDocument, DuplicateKey
      <4>3. QED BY <4>1, <4>2
    <3>2. QED BY <2>3, <2>4, <3>1
  <2>5. QED BY <2>1, <2>2, <2>4
<1>2. ASSUME NEW e \in Events, PaymentEvent(e) \/ HandlerFails(e) \/ HandlerDies(e)
                               \/ \E S \in SUBSET Writes : ConfirmFails(e, S)
      PROVE  Closed
  BY <1>2 DEF PaymentEvent, HandlerFails, HandlerDies, ConfirmFails
<1>3. ASSUME NEW e \in Events, HandlerStep(e) PROVE Closed
  <2>1. CASE WriteStatus(e) BY <2>1 DEF WriteStatus, Landed
  <2>2. CASE FailDocument(e)
    <3>1. CASE IsPending(e.booking) BY <2>2, <3>1 DEF FailDocument
    <3>2. CASE ~IsPending(e.booking) BY <2>2, <3>2 DEF FailDocument
    <3>3. QED BY <3>1, <3>2
  <2>3. CASE AcquireWebhookLock(e) BY <2>3 DEF AcquireWebhookLock
  <2>4. CASE ReadForConfirm(e) BY <2>4 DEF ReadForConfirm
  <2>5. CASE WriteTickets(e) \/ WriteCounter(e) \/ CommitConfirm(e)
    BY <2>5 DEF WriteTickets, WriteCounter, CommitConfirm, Landed
  <2>6. CASE ReleaseFailed(e) \/ UnlockWebhook(e)
    BY <2>6 DEF ReleaseFailed, UnlockWebhook
  <2>7. QED BY <1>3, <2>1, <2>2, <2>3, <2>4, <2>5, <2>6 DEF HandlerStep
<1>4. ASSUME NEW b \in Bookings, ExpireDocument(b) PROVE Closed
  <2>1. CASE IsPending(b) BY <1>4, <2>1 DEF ExpireDocument
  <2>2. CASE ~IsPending(b) BY <1>4, <2>2 DEF ExpireDocument
  <2>3. QED BY <2>1, <2>2
<1>5. ASSUME NEW b \in Bookings, ReleaseExpired(b) \/ JobFails(b) \/ WorkerDies(b)
      PROVE  Closed
  BY <1>5 DEF ReleaseExpired, JobFails, WorkerDies
<1>6. CASE CancelNext
  <2>1. UNCHANGED <<job, hpc>>
    BY <1>6 DEF CancelNext, CancelStep, FindForCancel, CommitCancel, ReleaseCancelled,
       CancelFails, CancelDies
  <2>2. UNCHANGED status \/ \E c \in Cancels : status' = [status EXCEPT ![c.booking] = "CANCELLED"]
    BY <1>6 DEF CancelNext, CancelStep, FindForCancel, CommitCancel, ReleaseCancelled,
       CancelFails, CancelDies
  <2>3. QED BY <2>1, <2>2
<1>7. CASE RedisNext
  BY <1>7 DEF RedisNext, LockTimeout, HoldTimeout, SlotsEvicted, EventDatePasses
<1>8. QED
  BY <1>1, <1>2, <1>3, <1>4, <1>5, <1>6, <1>7
     DEF Next, ServiceNext, HandlerNext, JobNext, JobStep

(* In every environment a step takes a booking out of CANCELLED only while a *)
(* confirmation that read it before has its write of the status under way, *)
(* and no job and no failed payment sets out to release what is cancelled. *)
THEOREM CancelledStays == Spec => CancelledIsClosed
<1> DEFINE Closed == \A b \in Bookings : status[b] = "CANCELLED" =>
             /\ \/ status'[b] = "CANCELLED"
                \/ \E e \in Events : e.booking = b /\ "status" \in todo[e]
             /\ job'[b] = "releasing" => job[b] = "releasing"
             /\ \A e \in Events :
                  e.booking = b /\ hpc'[e] = "release" => hpc[e] = "release"
<1>1. TypeOK /\ [Next]_vars => [Closed]_vars
  BY CancelledStep
<1>2. QED BY <1>1, TypeCorrect, PTL DEF Spec, CancelledIsClosed

------------------------------------------------------------------------------
(* The use of the lock *)

(* The steps that move a lock or a handler. *)
LEMMA LockMovers ==
  ASSUME [Next]_vars
  PROVE  \/ UNCHANGED <<locks, hpc>>
         \/ UNCHANGED hpc /\ \E r \in Bookings : LockCreation(r) \/ UnlockCreation(r)
         \/ \E e \in Events : \/ PaymentEvent(e) \/ HandlerStep(e) \/ HandlerFails(e)
                              \/ HandlerDies(e) \/ \E S \in SUBSET Writes : ConfirmFails(e, S)
         \/ UNCHANGED hpc /\ \E k \in Keys \cup Bookings : LockTimeout(k)
<1> USE DEF redisVars, handlerVars, availabilityVars
<1>1. CASE RequestNext
  BY <1>1 DEF RequestNext, RequestStep, CheckIdempotency, LockCreation, FindExisting,
     GetEvent, CountSlots, ReadAvailable, RefillSlots, CreateDocument, HoldSlots,
     CacheIdempotency, EnqueueExpiry, UnlockCreation, RequestFails, RequestDies
<1>2. CASE HandlerNext \/ \E e \in Events : PaymentEvent(e)
  BY <1>2 DEF HandlerNext
<1>3. CASE JobNext \/ CancelNext
  BY <1>3 DEF JobNext, JobStep, ExpireDocument, ReleaseExpired, JobFails, WorkerDies,
     CancelNext, CancelStep, FindForCancel, CommitCancel, ReleaseCancelled, CancelFails,
     CancelDies
<1>4. CASE RedisNext \/ UNCHANGED vars
  BY <1>4 DEF RedisNext, LockTimeout, HoldTimeout, SlotsEvicted, EventDatePasses, vars
<1>5. QED BY <1>1, <1>2, <1>3, <1>4 DEF ServiceNext, Next

(* A handler takes the lock and leaves its section as a client of the lock    *)
(* does; inside, it only moves from one await to the next.                 *)
LEMMA HandlerUsesLock ==
  ASSUME TypeOK, NEW e \in Events,
         \/ PaymentEvent(e) \/ HandlerStep(e) \/ HandlerFails(e) \/ HandlerDies(e)
         \/ \E S \in SUBSET Writes : ConfirmFails(e, S)
  PROVE  [WebhookLock!Next]_WebhookLock!vars
<1> DEFINE Pc == [f \in Events |-> IF HoldsWebhookLock(f) THEN "section"
                                  ELSE IF hpc[f] = "dead" THEN "dead" ELSE "idle"]
           Inside == {"read", "writes", "release", "unlock"}
<1> USE DEF TypeOK, redisVars, availabilityVars, HandlerGoto, HoldsWebhookLock
<1>a. ASSUME HandlerGoto(e, "read") PROVE Pc' = [Pc EXCEPT ![e] = "section"]
  <2>1. \A f \in Events : Pc'[f] = IF f = e THEN "section" ELSE Pc[f]
    BY <1>a
  <2>2. QED BY <2>1
<1>b. ASSUME HandlerGoto(e, "done") PROVE Pc' = [Pc EXCEPT ![e] = "idle"]
  <2>1. \A f \in Events : Pc'[f] = IF f = e THEN "idle" ELSE Pc[f]
    BY <1>b
  <2>2. QED BY <2>1
<1>c. ASSUME HandlerGoto(e, "dead") PROVE Pc' = [Pc EXCEPT ![e] = "dead"]
  <2>1. \A f \in Events : Pc'[f] = IF f = e THEN "dead" ELSE Pc[f]
    BY <1>c
  <2>2. QED BY <2>1
<1>1. ASSUME locks' = locks,
             \/ hpc' = hpc
             \/ \E to \in {"lock", "done"} : hpc[e] \in {"idle", "lock"} /\ HandlerGoto(e, to)
             \/ \E to \in Inside : hpc[e] \in Inside /\ HandlerGoto(e, to)
      PROVE  UNCHANGED WebhookLock!vars
  <2>1. Pc' = Pc BY <1>1
  <2>2. QED BY <1>1, <2>1 DEF WebhookLock!vars
<1>2. CASE PaymentEvent(e) BY <1>1, <1>2 DEF PaymentEvent
<1>3. CASE AcquireWebhookLock(e)
  <2>1. CASE AcquireLock(e.booking) /\ HandlerGoto(e, "read")
    <3>1. Pc[e] = "idle" /\ Pc' = [Pc EXCEPT ![e] = "section"]
      BY <1>3, <2>1, <1>a DEF AcquireWebhookLock
    <3>2. WebhookLock!AcquireLock(e.booking)
      BY <2>1 DEF AcquireLock, WebhookLock!AcquireLock
    <3>3. WebhookLock!Enter(e, e.booking)
      BY <3>1, <3>2 DEF WebhookLock!Enter
    <3>4. QED BY <3>3 DEF WebhookLock!Next
  <2>2. CASE LockBusy(e.booking) /\ HandlerGoto(e, "done")
    BY <1>1, <1>3, <2>2 DEF AcquireWebhookLock, LockBusy
  <2>3. QED BY <1>3, <2>1, <2>2 DEF AcquireWebhookLock
<1>4. CASE ReadForConfirm(e) BY <1>1, <1>4 DEF ReadForConfirm
<1>5. CASE WriteTickets(e) BY <1>1, <1>5 DEF WriteTickets
<1>6. CASE WriteStatus(e) \/ WriteCounter(e) BY <1>1, <1>6 DEF WriteStatus, WriteCounter
<1>7. CASE CommitConfirm(e) BY <1>1, <1>7 DEF CommitConfirm
<1>8. CASE FailDocument(e) BY <1>1, <1>8 DEF FailDocument
<1>9. CASE ReleaseFailed(e) BY <1>1, <1>9 DEF ReleaseFailed
<1>10. CASE UnlockWebhook(e)
  <2>1. Pc[e] = "section" /\ Pc' = [Pc EXCEPT ![e] = "idle"]
    BY <1>10, <1>b DEF UnlockWebhook
  <2>2. WebhookLock!ReleaseLock(e.booking)
    BY <1>10 DEF UnlockWebhook, ReleaseLock, WebhookLock!ReleaseLock
  <2>3. WebhookLock!Leave(e)
    BY <2>1, <2>2 DEF WebhookLock!Leave
  <2>4. QED BY <2>3 DEF WebhookLock!Next
<1>11. CASE HandlerFails(e)
  <2>1. CASE hpc[e] = "unlock"
    <3>1. Pc[e] = "section" /\ Pc' = [Pc EXCEPT ![e] = "idle"] /\ locks' = locks
      BY <1>11, <2>1, <1>b DEF HandlerFails
    <3>2. WebhookLock!LeaveUnreleased(e)
      BY <3>1 DEF WebhookLock!LeaveUnreleased
    <3>3. QED BY <3>2 DEF WebhookLock!Next
  <2>2. CASE hpc[e] # "unlock" BY <1>1, <1>11, <2>2 DEF HandlerFails
  <2>3. QED BY <2>1, <2>2
<1>12. CASE HandlerDies(e)
  <2>1. Pc[e] # "dead" /\ Pc' = [Pc EXCEPT ![e] = "dead"] /\ locks' = locks
    BY <1>12, <1>c DEF HandlerDies
  <2>2. WebhookLock!Die(e)
    BY <2>1 DEF WebhookLock!Die
  <2>3. QED BY <2>2 DEF WebhookLock!Next
<1>13. ASSUME NEW S \in SUBSET Writes, ConfirmFails(e, S)
       PROVE  [WebhookLock!Next]_WebhookLock!vars
  BY <1>1, <1>13 DEF ConfirmFails
<1>14. QED
  BY <1>2, <1>3, <1>4, <1>5, <1>6, <1>7, <1>8, <1>9, <1>10, <1>11, <1>12, <1>13
     DEF HandlerStep

(* At the start no handler is inside a webhook lock. *)
LEMMA WebhookLockInit == Init => WebhookLock!Init
BY DEF Init, WebhookLock!Init, WebhookLock!LocksInit, LocksInit, HoldsWebhookLock

(* A step of the service is a step of the clients of the webhook locks. *)
LEMMA WebhookLockStep ==
  ASSUME TypeOK, [Next]_vars
  PROVE  [WebhookLock!Next]_WebhookLock!vars
<1>1. ASSUME UNCHANGED <<locks \cap Bookings, hpc>> PROVE UNCHANGED WebhookLock!vars
  BY <1>1 DEF WebhookLock!vars, HoldsWebhookLock
<1>2. ASSUME NEW r \in Bookings, LockCreation(r) \/ UnlockCreation(r)
      PROVE  UNCHANGED <<locks \cap Bookings, hpc>>
  BY <1>2, KeysAssumption DEF LockCreation, UnlockCreation, AcquireLock, LockBusy,
     ReleaseLock, handlerVars
<1>3. ASSUME NEW k \in Keys \cup Bookings, LockTimeout(k)
      PROVE  [WebhookLock!Next]_WebhookLock!vars
  <2>1. locks' = locks \ {k} /\ k \in locks /\ UNCHANGED hpc
    BY <1>3 DEF LockTimeout, LockExpires, handlerVars
  <2>2. CASE k \in Keys
    BY <1>1, <2>1, <2>2, KeysAssumption
  <2>3. CASE k \in Bookings
    <3>1. WebhookLock!LockExpires(k)
      BY <2>1, <2>3 DEF WebhookLock!LockExpires
    <3>2. "race" \in Env \/ \A e \in Events : ~WebhookLock!Holds(e, k)
      BY <1>3, <2>3 DEF LockTimeout, WebhookLock!Holds
    <3>3. WebhookLock!Expire(k)
      BY <2>1, <3>1, <3>2 DEF WebhookLock!Expire, HoldsWebhookLock
    <3>4. QED BY <2>3, <3>3 DEF WebhookLock!Next
  <2>4. QED BY <2>2, <2>3
<1>4. QED BY <1>1, <1>2, <1>3, LockMovers, HandlerUsesLock

(* The handlers of a booking use lock:<booking> as clients of the lock do,    *)
(* whatever the environment: a handler that was refused ends without the   *)
(* DEL, one that died leaves its key to the TTL.                           *)
THEOREM WebhookLocksImplemented == Spec => WebhookLockUse
<1>1. Init => WebhookLock!Init
  BY WebhookLockInit
<1>2. TypeOK /\ [Next]_vars => [WebhookLock!Next]_WebhookLock!vars
  BY WebhookLockStep
<1>3. QED BY <1>1, <1>2, TypeCorrect, PTL DEF Spec, WebhookLockUse, WebhookLock!Spec

(* While no handler outlives its lock, two of one booking are never inside  *)
(* it together.                                                            *)
THEOREM HandlersExclude == ASSUME "race" \notin Env PROVE Spec => []OneHandler
<1>1. WebhookLock!Spec => []WebhookLock!Mutex
  BY WebhookLock!LockExcludes
<1>2. QED BY <1>1, WebhookLocksImplemented, PTL DEF OneHandler, WebhookLockUse

(* A call takes the creation lock before its try and leaves its section as a  *)
(* client of the lock does.                                                *)
LEMMA RequestUsesLock ==
  ASSUME TypeOK, NEW r \in Bookings, RequestStep(r) \/ RequestFails(r) \/ RequestDies(r)
  PROVE  [CreationLock!Next]_CreationLock!vars
<1> DEFINE Inside == InTry \cup {"unlock"}
           Pc == [q \in Bookings |-> IF rpc[q] \in Inside THEN "section"
                                    ELSE IF rpc[q] = "dead" THEN "dead" ELSE "idle"]
<1> USE DEF TypeOK, redisVars, availabilityVars, Goto, Finally, InTry
<1>a. ASSUME Goto(r, "find") PROVE Pc' = [Pc EXCEPT ![r] = "section"]
  <2>1. \A q \in Bookings : Pc'[q] = IF q = r THEN "section" ELSE Pc[q]
    BY <1>a
  <2>2. QED BY <2>1
<1>b. ASSUME Goto(r, "done") PROVE Pc' = [Pc EXCEPT ![r] = "idle"]
  <2>1. \A q \in Bookings : Pc'[q] = IF q = r THEN "idle" ELSE Pc[q]
    BY <1>b
  <2>2. QED BY <2>1
<1>c. ASSUME Goto(r, "dead") PROVE Pc' = [Pc EXCEPT ![r] = "dead"]
  <2>1. \A q \in Bookings : Pc'[q] = IF q = r THEN "dead" ELSE Pc[q]
    BY <1>c
  <2>2. QED BY <2>1
<1>1. ASSUME locks' = locks,
             \/ \E to \in {"lock", "done"} : rpc[r] \in {"start", "lock"} /\ Goto(r, to)
             \/ \E to \in Inside : rpc[r] \in Inside /\ Goto(r, to)
      PROVE  UNCHANGED CreationLock!vars
  <2>1. Pc' = Pc BY <1>1
  <2>2. QED BY <1>1, <2>1 DEF CreationLock!vars
<1>2. CASE CheckIdempotency(r) BY <1>1, <1>2 DEF CheckIdempotency
<1>3. CASE LockCreation(r)
  <2>1. CASE AcquireLock(KeyOf[r]) /\ Goto(r, "find")
    <3>1. Pc[r] = "idle" /\ Pc' = [Pc EXCEPT ![r] = "section"]
      BY <1>3, <2>1, <1>a DEF LockCreation
    <3>2. CreationLock!AcquireLock(KeyOf[r])
      BY <2>1 DEF AcquireLock, CreationLock!AcquireLock
    <3>3. KeyOf = [KeyOf EXCEPT ![r] = KeyOf[r]]
      BY KeyOfAssumption
    <3>4. CreationLock!Enter(r, KeyOf[r])
      BY <3>1, <3>2, <3>3 DEF CreationLock!Enter
    <3>5. QED BY <3>4 DEF CreationLock!Next
  <2>2. CASE LockBusy(KeyOf[r]) /\ Goto(r, "done")
    BY <1>1, <1>3, <2>2 DEF LockCreation, LockBusy
  <2>3. QED BY <1>3, <2>1, <2>2 DEF LockCreation
<1>4. CASE FindExisting(r) \/ GetEvent(r) BY <1>1, <1>4 DEF FindExisting, GetEvent
<1>5. CASE CountSlots(r) BY <1>1, <1>5 DEF CountSlots, CheckCount
<1>6. CASE ReadAvailable(r) BY <1>1, <1>6 DEF ReadAvailable
<1>7. CASE RefillSlots(r) BY <1>1, <1>7 DEF RefillSlots, CheckCount
<1>8. CASE CreateDocument(r) BY <1>1, <1>8 DEF CreateDocument
<1>9. CASE HoldSlots(r) BY <1>1, <1>9 DEF HoldSlots
<1>10. CASE CacheIdempotency(r) \/ EnqueueExpiry(r)
  BY <1>1, <1>10 DEF CacheIdempotency, EnqueueExpiry
<1>11. CASE UnlockCreation(r)
  <2>1. Pc[r] = "section" /\ Pc' = [Pc EXCEPT ![r] = "idle"]
    BY <1>11, <1>b DEF UnlockCreation
  <2>2. CreationLock!ReleaseLock(KeyOf[r])
    BY <1>11 DEF UnlockCreation, ReleaseLock, CreationLock!ReleaseLock
  <2>3. CreationLock!Leave(r)
    BY <2>1, <2>2 DEF CreationLock!Leave
  <2>4. QED BY <2>3 DEF CreationLock!Next
<1>12. CASE RequestFails(r)
  <2>1. CASE rpc[r] = "unlock"
    <3>1. Pc[r] = "section" /\ Pc' = [Pc EXCEPT ![r] = "idle"] /\ locks' = locks
      BY <1>12, <2>1, <1>b DEF RequestFails
    <3>2. CreationLock!LeaveUnreleased(r)
      BY <3>1 DEF CreationLock!LeaveUnreleased
    <3>3. QED BY <3>2 DEF CreationLock!Next
  <2>2. CASE rpc[r] # "unlock" BY <1>1, <1>12, <2>2 DEF RequestFails
  <2>3. QED BY <2>1, <2>2
<1>13. CASE RequestDies(r)
  <2>1. Pc[r] # "dead" /\ Pc' = [Pc EXCEPT ![r] = "dead"] /\ locks' = locks
    BY <1>13, <1>c DEF RequestDies
  <2>2. CreationLock!Die(r)
    BY <2>1 DEF CreationLock!Die
  <2>3. QED BY <2>2 DEF CreationLock!Next
<1>14. QED
  BY <1>2, <1>3, <1>4, <1>5, <1>6, <1>7, <1>8, <1>9, <1>10, <1>11, <1>12, <1>13
     DEF RequestStep

(* At the start no call is inside a creation lock. *)
LEMMA CreationLockInit == Init => CreationLock!Init
BY KeyOfAssumption
   DEF Init, CreationLock!Init, CreationLock!LocksInit, LocksInit, InTry

(* A step of the service is a step of the clients of the creation locks. *)
LEMMA CreationLockStep ==
  ASSUME TypeOK, [Next]_vars
  PROVE  [CreationLock!Next]_CreationLock!vars
<1>1. ASSUME UNCHANGED <<locks \cap Keys, rpc>> PROVE UNCHANGED CreationLock!vars
  BY <1>1 DEF CreationLock!vars
<1>2. CASE RequestNext
  BY <1>2, RequestUsesLock DEF RequestNext
<1>3. ASSUME NEW e \in Events,
             \/ PaymentEvent(e) \/ HandlerStep(e) \/ HandlerFails(e) \/ HandlerDies(e)
             \/ \E S \in SUBSET Writes : ConfirmFails(e, S)
      PROVE  UNCHANGED <<locks \cap Keys, rpc>>
  BY <1>3, KeysAssumption DEF HandlerStep, PaymentEvent, AcquireWebhookLock,
     ReadForConfirm, WriteTickets, WriteStatus, WriteCounter, CommitConfirm,
     FailDocument, ReleaseFailed, UnlockWebhook, HandlerFails, HandlerDies,
     ConfirmFails, AcquireLock, LockBusy, ReleaseLock, redisVars, requestVars
<1>4. ASSUME NEW k \in Keys \cup Bookings, LockTimeout(k)
      PROVE  [CreationLock!Next]_CreationLock!vars
  <2>1. locks' = locks \ {k} /\ k \in locks /\ UNCHANGED rpc
    BY <1>4 DEF LockTimeout, LockExpires, requestVars
  <2>2. CASE k \in Bookings
    BY <1>1, <2>1, <2>2, KeysAssumption
  <2>3. CASE k \in Keys
    <3>1. CreationLock!LockExpires(k)
      BY <2>1, <2>3 DEF CreationLock!LockExpires
    <3>2. CreationLock!Expire(k)
      BY <2>1, <3>1 DEF CreationLock!Expire
    <3>3. QED BY <2>3, <3>2 DEF CreationLock!Next
  <2>4. QED BY <2>2, <2>3
<1>5. CASE JobNext \/ CancelNext
  BY <1>1, <1>5 DEF JobNext, JobStep, ExpireDocument, ReleaseExpired, JobFails, WorkerDies,
     CancelNext, CancelStep, FindForCancel, CommitCancel, ReleaseCancelled,
     CancelFails, CancelDies, redisVars, requestVars
<1>6. CASE \/ \E b \in Bookings : HoldTimeout(b)
           \/ SlotsEvicted \/ EventDatePasses \/ UNCHANGED vars
  BY <1>1, <1>6 DEF HoldTimeout, SlotsEvicted, EventDatePasses, vars, redisVars, requestVars
<1>7. QED
  BY <1>1, <1>2, <1>3, <1>4, <1>5, <1>6 DEF Next, ServiceNext, HandlerNext, RedisNext

(* The calls with a key use lock:creating:<key> as clients of the lock do,    *)
(* whatever the environment, except that they may outlive it.              *)
THEOREM CreationLocksImplemented == Spec => CreationLockUse
<1>1. Init => CreationLock!Init
  BY CreationLockInit
<1>2. TypeOK /\ [Next]_vars => [CreationLock!Next]_CreationLock!vars
  BY CreationLockStep
<1>3. QED BY <1>1, <1>2, TypeCorrect, PTL DEF Spec, CreationLockUse, CreationLock!Spec

------------------------------------------------------------------------------
(* With the counter in Redis *)

(* An open event keeps its counter, so no call gets to refill it. *)
LEMMA OpenStaysCounted ==
  ASSUME "evict" \notin Env, TypeOK, slotsCached, [Next]_vars,
         \A r \in Bookings : rpc[r] \notin {"dbSlots", "setSlots"}
  PROVE  slotsCached' /\ \A r \in Bookings : rpc'[r] \notin {"dbSlots", "setSlots"}
<1> USE DEF TypeOK, redisVars, requestVars, availabilityVars
<1>1. CASE RequestNext
  <2>1. PICK r \in Bookings : RequestStep(r) \/ RequestFails(r) \/ RequestDies(r)
    BY <1>1 DEF RequestNext
  <2>2. slotsCached'
    BY <2>1 DEF RequestStep, CheckIdempotency, LockCreation, FindExisting, GetEvent,
       CountSlots, ReadAvailable, RefillSlots, SetEventSlots, CreateDocument, HoldSlots,
       CheckAndHold, CacheIdempotency, EnqueueExpiry, UnlockCreation, RequestFails,
       RequestDies
  <2>3. \E to \in (InTry \cup {"lock", "unlock", "done", "dead"}) \ {"dbSlots", "setSlots"} :
          rpc' = [rpc EXCEPT ![r] = to]
    BY <2>1 DEF RequestStep, CheckIdempotency, LockCreation, FindExisting, GetEvent,
       CountSlots, CheckCount, ReadAvailable, RefillSlots, CreateDocument, HoldSlots,
       CacheIdempotency, EnqueueExpiry, UnlockCreation, RequestFails, RequestDies, Goto,
       Finally, InTry
  <2>4. QED BY <2>2, <2>3
<1>2. CASE HandlerNext \/ \E e \in Events : PaymentEvent(e)
  BY <1>2 DEF HandlerNext, HandlerStep, PaymentEvent, AcquireWebhookLock, ReadForConfirm,
     WriteTickets, WriteStatus, WriteCounter, CommitConfirm, FailDocument, ReleaseFailed,
     ReleaseHold, UnlockWebhook, HandlerFails, HandlerDies, ConfirmFails
<1>3. CASE JobNext \/ CancelNext
  BY <1>3 DEF JobNext, JobStep, ExpireDocument, ReleaseExpired, ReleaseHold, JobFails,
     WorkerDies, CancelNext, CancelStep, FindForCancel, CommitCancel, ReleaseCancelled,
     CancelFails, CancelDies
<1>4. CASE RedisNext \/ UNCHANGED vars
  BY <1>4 DEF RedisNext, LockTimeout, HoldTimeout, HoldExpires, SlotsEvicted, EventDatePasses, vars
<1>5. QED BY <1>1, <1>2, <1>3, <1>4 DEF ServiceNext, Next

(* Without a booking there is nothing to hold, confirm, cancel or release; a  *)
(* refill reads what the event was created with.                           *)
LEMMA UnbookedStays ==
  ASSUME TypeOK, WorkOnExisting, owned = {}, available = Capacity, [Next]_vars,
         \A b \in Bookings : ~Exists(b),
         \A r \in Bookings : rpc[r] = "setSlots" => count[r] = Capacity
  PROVE  /\ owned' = {} /\ available' = Capacity
         /\ \A r \in Bookings : rpc'[r] = "setSlots" => count'[r] = Capacity
<1> USE DEF TypeOK, redisVars, mongoVars, requestVars, availabilityVars
<1>0. /\ \A r \in Bookings : rpc[r] \notin {"hold", "cache", "enqueue"} /\ job[r] = "none"
      /\ \A e \in Events : hpc[e] = "idle" /\ todo[e] = {}
      /\ \A c \in Cancels : cpc[c] \notin {"txn", "release"}
  BY DEF WorkOnExisting
<1>1. CASE RequestNext
  <2>1. PICK r \in Bookings : RequestStep(r) \/ RequestFails(r) \/ RequestDies(r)
    BY <1>1 DEF RequestNext
  <2>2. UNCHANGED <<owned, available>>
    BY <1>0, <2>1 DEF RequestStep, CheckIdempotency, LockCreation, FindExisting, GetEvent,
       CountSlots, ReadAvailable, RefillSlots, SetEventSlots, CreateDocument, HoldSlots,
       CacheIdempotency, EnqueueExpiry, UnlockCreation, RequestFails, RequestDies
  <2>3. CASE ReadAvailable(r)
    BY <2>2, <2>3 DEF ReadAvailable, Goto, Finally
  <2>4. CASE ~ReadAvailable(r)
    <3>1. count' = count
      BY <2>1, <2>4 DEF RequestStep, CheckIdempotency, LockCreation, FindExisting, GetEvent,
         CountSlots, RefillSlots, CreateDocument, HoldSlots, CacheIdempotency,
         EnqueueExpiry, UnlockCreation, RequestFails, RequestDies
    <3>2. \E to \in (InTry \cup {"lock", "unlock", "done", "dead"}) \ {"setSlots"} :
            rpc' = [rpc EXCEPT ![r] = to]
      BY <2>1, <2>4 DEF RequestStep, CheckIdempotency, LockCreation, FindExisting, GetEvent,
         CountSlots, CheckCount, RefillSlots, CreateDocument, HoldSlots, CacheIdempotency,
         EnqueueExpiry, UnlockCreation, RequestFails, RequestDies, Goto, Finally, InTry
    <3>3. QED BY <2>2, <3>1, <3>2
  <2>5. QED BY <2>3, <2>4
<1>2. ~HandlerNext /\ \A e \in Events : ~PaymentEvent(e)
  BY <1>0 DEF HandlerNext, HandlerStep, PaymentEvent, AcquireWebhookLock, ReadForConfirm,
     WriteTickets, WriteStatus, WriteCounter, CommitConfirm, FailDocument, ReleaseFailed,
     UnlockWebhook, HandlerFails, HandlerDies, ConfirmFails, Landed, Exists
<1>3. ~JobNext
  BY <1>0 DEF JobNext, JobStep, ExpireDocument, ReleaseExpired, JobFails, WorkerDies
<1>4. CASE CancelNext
  BY <1>0, <1>4 DEF CancelNext, CancelStep, FindForCancel, CommitCancel, ReleaseCancelled,
     CancelFails, CancelDies
<1>5. CASE RedisNext \/ UNCHANGED vars
  BY <1>5 DEF RedisNext, LockTimeout, HoldTimeout, HoldExpires, SlotsEvicted, SlotsLost,
     DeleteEventSlots, EventDatePasses, vars
<1>6. QED BY <1>1, <1>2, <1>3, <1>4, <1>5 DEF ServiceNext, Next

(* Without eviction the counter of an open event stays, and an event that is *)
(* not open is not booked; only such an event is refilled.                 *)
LEMMA OnlyOpenStep ==
  ASSUME "evict" \notin Env, AnyEnvInv, OnlyOpenIsBooked, [Next]_vars
  PROVE  OnlyOpenIsBooked'
<1>0. TypeOK /\ WorkOnExisting /\ TypeOK'
  BY TypeStep DEF AnyEnvInv
<1>1. /\ meta' = meta /\ event' = event
      /\ \A b \in Bookings : Exists(b)' /\ ~Exists(b) => b \in priced
      /\ \A r \in Bookings : r \in priced' /\ r \notin priced => meta = "open"
  BY <1>0, StepStores DEF Valid
<1>2. CASE meta = "open"
  <2>1. slotsCached /\ \A r \in Bookings : rpc[r] \notin {"dbSlots", "setSlots"}
    BY <1>2 DEF OnlyOpenIsBooked
  <2>2. slotsCached' /\ \A r \in Bookings : rpc'[r] \notin {"dbSlots", "setSlots"}
    BY <1>0, <2>1, OpenStaysCounted
  <2>3. QED BY <1>1, <1>2, <2>2 DEF OnlyOpenIsBooked
<1>3. CASE meta # "open"
  <2>1. /\ priced = {} /\ owned = {} /\ available = Capacity
        /\ \A b \in Bookings : ~Exists(b)
        /\ \A r \in Bookings : rpc[r] = "setSlots" => count[r] = Capacity
    BY <1>3 DEF OnlyOpenIsBooked
  <2>2. /\ owned' = {} /\ available' = Capacity
        /\ \A r \in Bookings : rpc'[r] = "setSlots" => count'[r] = Capacity
    BY <1>0, <2>1, UnbookedStays
  <2>3. priced' = {} /\ \A b \in Bookings : ~Exists(b)'
    BY <1>0, <1>1, <1>3, <2>1 DEF TypeOK
  <2>4. QED BY <1>1, <1>3, <2>2, <2>3 DEF OnlyOpenIsBooked, Exists
<1>4. QED BY <1>2, <1>3

(* The script that takes compares first, a release adds, a refill sets what   *)
(* the event has: the counter stays up.                                    *)
LEMMA SlotsStayUp ==
  ASSUME TypeOK, OnlyOpenIsBooked, SlotsNonNegative, [Next]_vars
  PROVE  SlotsNonNegative'
<1> USE DEF TypeOK, AvailabilityTypeOK, SlotsNonNegative, redisVars, availabilityVars
<1>1. ASSUME NEW b \in Bookings, ReleaseHold(b) PROVE SlotsNonNegative'
  BY <1>1 DEF ReleaseHold
<1>2. CASE RequestNext
  <2>1. PICK r \in Bookings : RequestStep(r) \/ RequestFails(r) \/ RequestDies(r)
    BY <1>2 DEF RequestNext
  <2>2. CASE HoldSlots(r)
    BY <2>2 DEF HoldSlots, CheckAndHold, EnoughSlots
  <2>3. CASE RefillSlots(r)
    BY <2>3 DEF RefillSlots, SetEventSlots, OnlyOpenIsBooked
  <2>4. CASE ~HoldSlots(r) /\ ~RefillSlots(r)
    BY <2>1, <2>4 DEF RequestStep, CheckIdempotency, LockCreation, FindExisting, GetEvent,
       CountSlots, ReadAvailable, CreateDocument, CacheIdempotency, EnqueueExpiry,
       UnlockCreation, RequestFails, RequestDies
  <2>5. QED BY <2>2, <2>3, <2>4
<1>3. CASE HandlerNext \/ \E e \in Events : PaymentEvent(e)
  BY <1>1, <1>3 DEF HandlerNext, HandlerStep, PaymentEvent, AcquireWebhookLock,
     ReadForConfirm, WriteTickets, WriteStatus, WriteCounter, CommitConfirm, FailDocument,
     ReleaseFailed, UnlockWebhook, HandlerFails, HandlerDies, ConfirmFails
<1>4. CASE JobNext \/ CancelNext
  BY <1>1, <1>4 DEF JobNext, JobStep, ExpireDocument, ReleaseExpired, JobFails, WorkerDies,
     CancelNext, CancelStep, FindForCancel, CommitCancel, ReleaseCancelled, CancelFails,
     CancelDies
<1>5. CASE RedisNext \/ UNCHANGED vars
  BY <1>5 DEF RedisNext, LockTimeout, HoldTimeout, HoldExpires, SlotsEvicted, SlotsLost,
     DeleteEventSlots, EventDatePasses, vars
<1>6. QED BY <1>2, <1>3, <1>4, <1>5 DEF ServiceNext, Next

(* As long as the counter is not lost, it never goes below zero, with stray   *)
(* payments, late locks, lost writes, faults and crashes: a refill of a    *)
(* counter that is lost is what can make two counters out of one.          *)
THEOREM CounterStaysUp == ASSUME "evict" \notin Env PROVE Spec => []SlotsNonNegative
<1>1. Init => OnlyOpenIsBooked /\ SlotsNonNegative
  <2> SUFFICES ASSUME Init PROVE OnlyOpenIsBooked /\ SlotsNonNegative
    OBVIOUS
  <2>1. (slotsCached <=> meta = "open") /\ owned = {}
    BY Zenon DEF Init, AvailabilityInit
  <2>2. SlotsNonNegative
    BY DEF Init, AvailabilityInit, SlotsNonNegative
  <2>3. QED BY <2>1, <2>2 DEF Init, OnlyOpenIsBooked, Exists
<1>2. AnyEnvInv /\ OnlyOpenIsBooked /\ SlotsNonNegative /\ [Next]_vars
        => OnlyOpenIsBooked' /\ SlotsNonNegative'
  BY OnlyOpenStep, SlotsStayUp DEF AnyEnvInv
<1>3. QED BY <1>1, <1>2, AnyEnvInvariant, PTL DEF Spec

------------------------------------------------------------------------------
(* Without faults *)

(* A job is done when it finds its booking closed, or has released it. *)
LEMMA DoneStep ==
  ASSUME "fault" \notin Env, TypeOK, EngineParts, DoneIsClosed, [Next]_vars
  PROVE  DoneIsClosed'
<1> USE DEF EngineParts, TypeOK, DoneIsClosed, mongoVars, IsPending
<1>1. CASE UNCHANGED <<status, job, stalls>>
  BY <1>1
<1>2. ASSUME NEW r \in Bookings, CreateDocument(r) PROVE DoneIsClosed'
  <2>1. CASE DuplicateKey(r) BY <1>2, <2>1 DEF CreateDocument
  <2>2. CASE ~DuplicateKey(r)
    <3>1. status[r] = "absent" BY <2>2 DEF DuplicateKey
    <3>2. job[r] = "none" BY <3>1 DEF WorkOnExisting, Exists
    <3>3. QED BY <1>2, <3>2 DEF CreateDocument
  <2>3. QED BY <2>1, <2>2
<1>3. ASSUME NEW r \in Bookings, EnqueueExpiry(r) PROVE DoneIsClosed'
  BY <1>3 DEF EnqueueExpiry
<1>4. ASSUME NEW e \in Events, WriteStatus(e) \/ FailDocument(e) PROVE DoneIsClosed'
  BY <1>4 DEF WriteStatus, FailDocument
<1>5. ASSUME NEW b \in Bookings, ExpireDocument(b) \/ ReleaseExpired(b) \/ WorkerDies(b)
      PROVE  DoneIsClosed'
  <2>1. CASE ExpireDocument(b) \/ ReleaseExpired(b)
    BY <1>5, <2>1 DEF ExpireDocument, ReleaseExpired, ReleaserFoundPending
  <2>2. CASE WorkerDies(b)
    <3>1. \A d \in Bookings : d # b => job'[d] = job[d] /\ stalls'[d] = stalls[d]
      BY <2>2 DEF WorkerDies
    <3>2. job'[b] = "done" => stalls'[b] > MaxStalled
      BY <2>2 DEF WorkerDies, MaxStalled
    <3>3. QED BY <2>2, <3>1, <3>2 DEF WorkerDies
  <2>3. QED BY <1>5, <2>1, <2>2
<1>6. ASSUME NEW c \in Cancels, CommitCancel(c) PROVE DoneIsClosed'
  BY <1>6 DEF CommitCancel
<1>7. \/ UNCHANGED <<status, job, stalls>>
      \/ \E r \in Bookings : \/ CreateDocument(r) \/ EnqueueExpiry(r) \/ ExpireDocument(r)
                             \/ ReleaseExpired(r) \/ WorkerDies(r)
      \/ \E e \in Events : WriteStatus(e) \/ FailDocument(e)
      \/ \E c \in Cancels : CommitCancel(c)
  <2>1. CASE RequestNext
    BY <2>1 DEF RequestNext, RequestStep, CheckIdempotency, LockCreation, FindExisting,
       GetEvent, CountSlots, ReadAvailable, RefillSlots, HoldSlots, CacheIdempotency,
       UnlockCreation, RequestFails, RequestDies
  <2>2. CASE HandlerNext \/ \E e \in Events : PaymentEvent(e)
    BY <2>2 DEF HandlerNext, HandlerStep, PaymentEvent, AcquireWebhookLock, ReadForConfirm,
       WriteTickets, WriteCounter, CommitConfirm, ReleaseFailed, UnlockWebhook,
       HandlerFails, HandlerDies, ConfirmFails
  <2>3. CASE JobNext \/ CancelNext
    BY <2>3 DEF JobNext, JobStep, JobFails, CancelNext, CancelStep, FindForCancel,
       ReleaseCancelled, CancelFails, CancelDies
  <2>4. CASE RedisNext \/ UNCHANGED vars
    BY <2>4 DEF RedisNext, LockTimeout, HoldTimeout, SlotsEvicted, EventDatePasses, vars
  <2>5. QED BY <2>1, <2>2, <2>3, <2>4 DEF ServiceNext, Next
<1>8. QED BY <1>1, <1>2, <1>3, <1>4, <1>5, <1>6, <1>7

(* A job of an accepted booking is queued, done or releasing; only the     *)
(* first leaves the booking open.                                          *)
LEMMA DoneAwaits == TypeOK /\ EngineParts /\ DoneIsClosed => OpenAwaitsJob
BY DEF EngineParts, TypeOK, DoneIsClosed, OpenAwaitsJob, AcceptedHasJob,
       ReleaserFoundPending

(* A booking that was accepted and is still open has its job waiting, however *)
(* its payments and cancellations fall, unless its workers died more often *)
(* than BullMQ forgives: what the liveness of AcceptedSettles needs of     *)
(* every state.                                                            *)
THEOREM OpenBookingsAwaitJob == ASSUME "fault" \notin Env PROVE Spec => []OpenAwaitsJob
<1>1. Init => DoneIsClosed
  BY DEF Init, DoneIsClosed
<1>2. AnyEnvInv /\ DoneIsClosed /\ [Next]_vars => DoneIsClosed'
  BY DoneStep, AnyEnvHasParts
<1>3. AnyEnvInv /\ DoneIsClosed => OpenAwaitsJob
  BY DoneAwaits, AnyEnvHasParts
<1>4. QED BY <1>1, <1>2, <1>3, AnyEnvInvariant, PTL DEF Spec
------------------------------------------------------------------------------
(* In the steady environment *)

(* Until its job is queued only the creating call touches a booking: who pays *)
(* was answered, who cancels has paid.                                     *)
LEMMA UntouchedStep ==
  ASSUME "stray" \notin Env, TypeOK, EngineParts, UntouchedInv, [Next]_vars
  PROVE  UntouchedInv'
<1> USE DEF EngineParts, TypeOK, UntouchedInv, Untouched, WorkOnExisting, Exists, mongoVars,
            requestVars, handlerVars
<1>1. CASE RequestNext
  <2>1. PICK r \in Bookings : RequestStep(r) \/ RequestFails(r) \/ RequestDies(r)
    BY <1>1 DEF RequestNext
  <2>2. UNCHANGED <<issued, hpc, todo, cpc>>
    BY <2>1 DEF RequestStep, CheckIdempotency, LockCreation, FindExisting, GetEvent,
       CountSlots, ReadAvailable, RefillSlots, CreateDocument, HoldSlots, CacheIdempotency,
       EnqueueExpiry, UnlockCreation, RequestFails, RequestDies
  <2>3. CASE CreateDocument(r)
    <3>1. CASE DuplicateKey(r) BY <2>3, <3>1 DEF CreateDocument, Goto, Answer, Finally
    <3>2. CASE ~DuplicateKey(r)
      <4>1. status[r] = "absent" /\ job[r] = "none" BY <3>2 DEF DuplicateKey
      <4>2. QED BY <2>2, <2>3, <4>1 DEF CreateDocument, Goto, Answer, Finally
    <3>3. QED BY <3>1, <3>2
  <2>4. CASE EnqueueExpiry(r)
    BY <2>2, <2>4 DEF EnqueueExpiry, Goto, Answer, Finally
  <2>5. CASE HoldSlots(r) \/ CacheIdempotency(r)
    BY <2>5 DEF HoldSlots, CacheIdempotency, Goto, Answer, Finally
  <2>6. CASE ~CreateDocument(r) /\ ~EnqueueExpiry(r) /\ ~HoldSlots(r) /\ ~CacheIdempotency(r)
    <3>1. UNCHANGED <<status, job>>
      BY <2>1, <2>6 DEF RequestStep, CheckIdempotency, LockCreation, FindExisting, GetEvent,
         CountSlots, ReadAvailable, RefillSlots, UnlockCreation, RequestFails, RequestDies
    <3>2. \/ UNCHANGED reply
          \/ \E code \in {400, 409, 500} : reply' = [reply EXCEPT ![r] = code]
      BY <2>1, <2>6 DEF RequestStep, CheckIdempotency, LockCreation, FindExisting, GetEvent,
         CountSlots, CheckCount, ReadAvailable, RefillSlots, UnlockCreation, RequestFails,
         RequestDies, Answer, Finally
    <3>3. \E to \in {"lock", "find", "event", "slots", "dbSlots", "setSlots", "create",
                     "unlock", "done", "dead"} : rpc' = [rpc EXCEPT ![r] = to]
      BY <2>1, <2>6 DEF RequestStep, CheckIdempotency, LockCreation, FindExisting, GetEvent,
         CountSlots, CheckCount, ReadAvailable, RefillSlots, UnlockCreation, RequestFails,
         RequestDies, Goto, Finally
    <3>4. QED BY <2>2, <3>1, <3>2, <3>3
  <2>7. QED BY <2>3, <2>4, <2>5, <2>6
<1>2. CASE HandlerNext \/ \E e \in Events : PaymentEvent(e)
  <2>1. PICK e \in Events : \/ PaymentEvent(e) \/ HandlerStep(e) \/ HandlerFails(e)
                            \/ HandlerDies(e) \/ \E S \in SUBSET Writes : ConfirmFails(e, S)
    BY <1>2 DEF HandlerNext
  <2>2. job[e.booking] # "none"
    BY <2>1 DEF HandlerStep, PaymentEvent, AcquireWebhookLock, ReadForConfirm, WriteTickets,
       WriteStatus, WriteCounter, CommitConfirm, FailDocument, ReleaseFailed, UnlockWebhook,
       HandlerFails, HandlerDies, ConfirmFails, Landed, AcceptedHasJob
  <2>3. /\ UNCHANGED <<job, rpc, reply, cpc>>
        /\ \A b \in Bookings : b # e.booking => status'[b] = status[b]
        /\ \A b \in Bookings : b # e.booking => (b \in issued' <=> b \in issued)
        /\ \A f \in Events : f # e => hpc'[f] = hpc[f] /\ todo'[f] = todo[f]
    BY <2>1 DEF HandlerStep, PaymentEvent, AcquireWebhookLock, ReadForConfirm, WriteTickets,
       WriteStatus, WriteCounter, CommitConfirm, FailDocument, ReleaseFailed, UnlockWebhook,
       HandlerFails, HandlerDies, ConfirmFails, Landed, HandlerGoto
  <2>4. QED BY <2>2, <2>3
<1>3. CASE JobNext
  BY <1>3 DEF JobNext, JobStep, ExpireDocument, ReleaseExpired, JobFails, WorkerDies
<1>4. CASE CancelNext
  <2>1. PICK c \in Cancels : FindForCancel(c) \/ CancelStep(c) \/ CancelFails(c) \/ CancelDies(c)
    BY <1>4 DEF CancelNext
  <2>2. CASE FindForCancel(c)
    BY <2>2 DEF FindForCancel, Cancellable, CalledInTurn, CancelGoto
  <2>3. CASE ~FindForCancel(c)
    <3>1. job[c.booking] # "none"
      BY <2>1, <2>3 DEF CancelStep, CommitCancel, ReleaseCancelled, CancelFails, CancelDies
    <3>2. /\ UNCHANGED <<job, rpc, reply, issued, hpc, todo>>
          /\ \A b \in Bookings : b # c.booking => status'[b] = status[b]
          /\ \A d \in Cancels : d # c => cpc'[d] = cpc[d]
      BY <2>1, <2>3 DEF CancelStep, CommitCancel, ReleaseCancelled, CancelFails, CancelDies,
         CancelGoto
    <3>3. QED BY <3>1, <3>2
  <2>4. QED BY <2>2, <2>3
<1>5. CASE RedisNext \/ UNCHANGED vars
  BY <1>5 DEF RedisNext, LockTimeout, HoldTimeout, SlotsEvicted, EventDatePasses, vars
<1>6. QED BY <1>1, <1>2, <1>3, <1>4, <1>5 DEF ServiceNext, Next

(* Whoever lets go of a booking's units passes them on: the call to the job,  *)
(* the job to its release or to who closed the booking, a confirmation or  *)
(* a cancellation to the one that comes after.                             *)
LEMMA StrandedStep ==
  ASSUME SteadyEnv, TypeOK, EngineParts, UntouchedInv, NothingStranded, [Next]_vars
  PROVE  NothingStranded'
<1> USE DEF SteadyEnv, EngineParts, TypeOK, AvailabilityTypeOK, NothingStranded, Keeper,
            redisVars, availabilityVars, mongoVars, requestVars, handlerVars
<1>1. ASSUME UNCHANGED <<owned, status, job>>,
             \A b \in Bookings : rpc[b] \in {"cache", "enqueue"} => rpc'[b] \in {"cache", "enqueue"},
             \A e \in Events : hpc[e] = "release" => hpc'[e] = "release",
             \A c \in Cancels : cpc[c] = "release" => cpc'[c] = "release"
      PROVE  NothingStranded'
  BY <1>1
<1>2. CASE RequestNext
  <2>1. PICK r \in Bookings : RequestStep(r)
    BY <1>2 DEF RequestNext, RequestFails, RequestDies
  <2>2. UNCHANGED <<hpc, cpc>>
    BY <2>1 DEF RequestStep, CheckIdempotency, LockCreation, FindExisting, GetEvent,
       CountSlots, ReadAvailable, RefillSlots, CreateDocument, HoldSlots, CacheIdempotency,
       EnqueueExpiry, UnlockCreation
  <2>3. CASE CreateDocument(r)
    <3>1. CASE Valid(r) /\ ~DuplicateKey(r)
      <4>1. status[r] = "absent" /\ rpc[r] = "create"
        BY <2>3, <3>1 DEF CreateDocument, DuplicateKey
      <4>2. r \notin owned
        BY <4>1 DEF WorkOnExisting, Exists
      <4>3. QED BY <2>2, <2>3, <3>1, <4>1, <4>2 DEF CreateDocument, Goto
    <3>2. CASE ~(Valid(r) /\ ~DuplicateKey(r))
      BY <1>1, <2>2, <2>3, <3>2 DEF CreateDocument, Goto, Finally
    <3>3. QED BY <3>1, <3>2
  <2>4. CASE HoldSlots(r)
    <3>1. CASE CheckAndHold(r) /\ Goto(r, "cache")
      BY <2>2, <2>4, <3>1 DEF HoldSlots, CheckAndHold, Goto
    <3>2. CASE Finally(r, 400) /\ UNCHANGED availabilityVars
      BY <1>1, <2>2, <2>4, <3>2 DEF HoldSlots, Goto, Finally
    <3>3. QED BY <2>4, <3>1, <3>2 DEF HoldSlots
  <2>5. CASE CacheIdempotency(r)
    BY <1>1, <2>2, <2>5 DEF CacheIdempotency, Goto
  <2>6. CASE EnqueueExpiry(r)
    BY <2>2, <2>6 DEF EnqueueExpiry, Goto, Finally, UntouchedInv
  <2>7. CASE ~CreateDocument(r) /\ ~HoldSlots(r) /\ ~CacheIdempotency(r) /\ ~EnqueueExpiry(r)
    <3>1. UNCHANGED <<owned, status, job>> /\ rpc[r] \notin {"cache", "enqueue"}
      BY <2>1, <2>7 DEF RequestStep, CheckIdempotency, LockCreation, FindExisting, GetEvent,
         CountSlots, ReadAvailable, RefillSlots, SetEventSlots, UnlockCreation
    <3>2. \A b \in Bookings : b # r => rpc'[b] = rpc[b]
      BY <2>1, <2>7 DEF RequestStep, CheckIdempotency, LockCreation, FindExisting, GetEvent,
         CountSlots, CheckCount, ReadAvailable, RefillSlots, UnlockCreation, Goto, Finally
    <3>3. QED BY <1>1, <2>2, <3>1, <3>2
  <2>8. QED BY <2>3, <2>4, <2>5, <2>6, <2>7
<1>3. CASE HandlerNext \/ \E e \in Events : PaymentEvent(e)
  <2>1. PICK e \in Events : \/ PaymentEvent(e) \/ HandlerStep(e)
                            \/ \E S \in SUBSET Writes : ConfirmFails(e, S)
    BY <1>3 DEF HandlerNext, HandlerFails, HandlerDies
  <2>2. UNCHANGED <<rpc, job, cpc>>
    BY <2>1 DEF HandlerStep, PaymentEvent, AcquireWebhookLock, ReadForConfirm, WriteTickets,
       WriteStatus, WriteCounter, CommitConfirm, FailDocument, ReleaseFailed, UnlockWebhook,
       ConfirmFails
  <2>3. CASE WriteStatus(e)
    BY <2>2, <2>3 DEF WriteStatus
  <2>4. CASE FailDocument(e)
    BY <2>2, <2>4 DEF FailDocument, IsPending, HandlerGoto
  <2>5. CASE ReleaseFailed(e)
    BY <2>2, <2>5 DEF ReleaseFailed, ReleaseHold, HandlerGoto
  <2>6. CASE ~WriteStatus(e) /\ ~FailDocument(e) /\ ~ReleaseFailed(e)
    <3>1. UNCHANGED <<owned, status>>
      BY <2>1, <2>6 DEF HandlerStep, PaymentEvent, AcquireWebhookLock, ReadForConfirm,
         WriteTickets, WriteCounter, CommitConfirm, UnlockWebhook, ConfirmFails
    <3>2. \A f \in Events : hpc[f] = "release" => hpc'[f] = "release"
      BY <2>1, <2>6 DEF HandlerStep, PaymentEvent, AcquireWebhookLock, ReadForConfirm,
         WriteTickets, WriteCounter, CommitConfirm, UnlockWebhook, ConfirmFails, HandlerGoto
    <3>3. QED BY <1>1, <2>2, <3>1, <3>2
  <2>7. QED BY <2>3, <2>4, <2>5, <2>6
<1>4. CASE JobNext
  <2>1. PICK b \in Bookings : ExpireDocument(b) \/ ReleaseExpired(b)
    BY <1>4 DEF JobNext, JobStep, JobFails, WorkerDies
  <2>2. CASE ExpireDocument(b)
    BY <2>2 DEF ExpireDocument, IsPending
  <2>3. CASE ReleaseExpired(b)
    BY <2>3 DEF ReleaseExpired, ReleaseHold
  <2>4. QED BY <2>1, <2>2, <2>3
<1>5. CASE CancelNext
  <2>1. PICK c \in Cancels : FindForCancel(c) \/ CommitCancel(c) \/ ReleaseCancelled(c)
    BY <1>5 DEF CancelNext, CancelStep, CancelFails, CancelDies
  <2>2. CASE FindForCancel(c)
    BY <1>1, <2>2 DEF FindForCancel, CancelGoto
  <2>3. CASE CommitCancel(c)
    BY <2>3 DEF CommitCancel, CancelGoto
  <2>4. CASE ReleaseCancelled(c)
    BY <2>4 DEF ReleaseCancelled, ReleaseHold, CancelGoto
  <2>5. QED BY <2>1, <2>2, <2>3, <2>4
<1>6. CASE RedisNext \/ UNCHANGED vars
  BY <1>1, <1>6 DEF RedisNext, LockTimeout, HoldTimeout, HoldExpires, SlotsEvicted, SlotsLost,
     DeleteEventSlots, EventDatePasses, vars
<1>7. QED BY <1>2, <1>3, <1>4, <1>5, <1>6 DEF ServiceNext, Next

(* At the start no unit is taken. *)
LEMMA StrandedInit == Init => UntouchedInv /\ NothingStranded
<1> SUFFICES ASSUME Init PROVE UntouchedInv /\ NothingStranded
  OBVIOUS
<1>1. UntouchedInv
  BY DEF Init, UntouchedInv, Untouched
<1>2. NothingStranded
  BY DEF Init, AvailabilityInit, NothingStranded
<1>3. QED BY <1>1, <1>2

(* No unit is ever without somebody who will sell it or give it back, for    *)
(* late locks, overtaken confirmations, lost writes and a lost counter: the *)
(* safety that SlotsNeverStuck rests on.  A payment of a booking that is   *)
(* still being created is excluded, since its release may come before the  *)
(* hold.                                                                   *)
THEOREM NobodyStranded == ASSUME SteadyEnv PROVE Spec => []NothingStranded
<1>1. Init => UntouchedInv /\ NothingStranded
  BY StrandedInit
<1>2. AnyEnvInv /\ UntouchedInv /\ NothingStranded /\ [Next]_vars
        => UntouchedInv' /\ NothingStranded'
  BY UntouchedStep, StrandedStep, AnyEnvHasParts DEF SteadyEnv
<1>3. QED BY <1>1, <1>2, AnyEnvInvariant, PTL DEF Spec
==============================================================================
