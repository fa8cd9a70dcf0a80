--------------------------- MODULE BookingCalmProofs ---------------------------
(***************************************************************************)
(* Proofs about Booking that need some hazards excluded.  Without stray    *)
(* payments, overtaken and half-written confirmations everybody owns what  *)
(* he sells or releases, and the documents agree (OrderlyEnv).  With the   *)
(* counter in Redis besides (CalmEnv), the service never oversells, for    *)
(* every set of bookings, keys, payment events and cancellations, every    *)
(* quantity and every capacity.                                            *)
(***************************************************************************)
EXTENDS BookingProofs, AvailabilityProofs

USE ConstantTypes

(* The parts of CalmInv that do not count units. *)
ControlInv == OnlyOpenIsBooked /\ SalesInv

(* A step of createBooking: until the job is queued, only the creating call  *)
(* works on the booking, and it owns units exactly after its hold.         *)
LEMMA RequestKeepsSales ==
  ASSUME OrderlyEnv, TypeOK, EngineParts, SalesInv, NEW r \in Bookings,
         RequestStep(r) \/ RequestFails(r) \/ RequestDies(r)
  PROVE  SalesInv'
<1> USE DEF EngineParts, TypeOK, AvailabilityTypeOK, SalesInv, UntouchedInv,
            CreationInv, Untouched, LockInv, HoldsWebhookLock, WriterInv, TicketInv,
            Quiet, ReleaseInv, OwnershipInv, Exists, redisVars, mongoVars, requestVars,
            handlerVars, availabilityVars, Goto, Answer, Finally, InTry, Writes,
            BookingStatus, WorkOnExisting
<1>1. CASE CheckIdempotency(r) BY <1>1 DEF CheckIdempotency
<1>2. CASE LockCreation(r) BY <1>2 DEF LockCreation, AcquireLock, LockBusy
<1>3. CASE FindExisting(r) BY <1>3 DEF FindExisting
<1>4. CASE GetEvent(r) BY <1>4 DEF GetEvent
<1>5. CASE CountSlots(r) BY <1>5 DEF CountSlots, CheckCount
<1>6. CASE ReadAvailable(r) BY <1>6 DEF ReadAvailable
<1>7. CASE RefillSlots(r) BY <1>7 DEF RefillSlots, CheckCount, SetEventSlots
<1>8. CASE CreateDocument(r)
  <2>1. CASE Valid(r) /\ ~DuplicateKey(r)
    <3>1. /\ status' = [status EXCEPT ![r] = "PENDING"]
          /\ rpc' = [rpc EXCEPT ![r] = "hold"]
          /\ UNCHANGED <<job, reply, meta, priced, owned, issued, valid, event, available,
                         slotsCached, locks, count, hpc, todo, cpc>>
      BY <1>8, <2>1 DEF CreateDocument
    <3>2. status[r] = "absent" /\ r \in priced
      BY <2>1 DEF DuplicateKey, Valid
    <3>3. job[r] = "none" /\ r \notin owned /\ Untouched(r)
      BY <3>2
    <3>4. LockInv' /\ OwnershipInv'
      BY <3>1, <3>2, <3>3
    <3>5. CreationInv'
      BY <3>1, <3>2, <3>3
    <3>6. WriterInv' /\ TicketInv' /\ ReleaseInv'
      BY <3>1, <3>2, <3>3
    <3>7. QED BY <3>4, <3>5, <3>6
  <2>2. CASE ~(Valid(r) /\ ~DuplicateKey(r))
    <3>1. /\ rpc[r] = "create"
          /\ rpc' = [rpc EXCEPT ![r] = "unlock"]
          /\ reply' = [reply EXCEPT ![r] = 500]
          /\ UNCHANGED <<status, job, meta, priced, owned, issued, valid, event, available,
                         slotsCached, locks, count, hpc, todo, cpc>>
      BY <1>8, <2>2 DEF CreateDocument
    <3>2. CreationInv'
      BY <3>1
    <3>3. LockInv' /\ WriterInv' /\ OwnershipInv'
      BY <3>1
    <3>4. TicketInv' /\ ReleaseInv'
      BY <3>1
    <3>5. QED BY <3>2, <3>3, <3>4
  <2>3. QED BY <2>1, <2>2
<1>9. CASE HoldSlots(r) BY <1>9 DEF HoldSlots, CheckAndHold
<1>10. CASE CacheIdempotency(r)
  <2>1. /\ rpc[r] = "cache"
        /\ rpc' = [rpc EXCEPT ![r] = "enqueue"]
        /\ UNCHANGED <<status, job, reply, meta, priced, owned, issued, valid, event,
                       available, slotsCached, locks, count, hpc, todo, cpc>>
    BY <1>10 DEF CacheIdempotency
  <2>2. CreationInv'
    BY <2>1
  <2>3. LockInv' /\ WriterInv' /\ OwnershipInv'
    BY <2>1
  <2>4. TicketInv' /\ ReleaseInv'
    BY <2>1
  <2>5. QED BY <2>2, <2>3, <2>4
<1>11. CASE EnqueueExpiry(r)
  <2>1. CreationInv'
    BY <1>11 DEF EnqueueExpiry
  <2>2. LockInv' /\ WriterInv' /\ TicketInv'
    BY <1>11 DEF EnqueueExpiry
  <2>3. ReleaseInv' /\ OwnershipInv'
    BY <1>11 DEF EnqueueExpiry
  <2>4. QED BY <2>1, <2>2, <2>3
<1>12. CASE UnlockCreation(r) BY <1>12, KeysAssumption DEF UnlockCreation, ReleaseLock
<1>13. CASE RequestFails(r) BY <1>13 DEF RequestFails
<1>14. CASE RequestDies(r) BY <1>14 DEF RequestDies
<1>15. QED
  BY <1>1, <1>2, <1>3, <1>4, <1>5, <1>6, <1>7, <1>8, <1>9, <1>10, <1>11, <1>12, <1>13, <1>14
     DEF RequestStep

(* A step of a payment handler: the webhook lock leaves one handler with a   *)
(* pending booking, so its writes meet the status it read.                 *)
LEMMA HandlerKeepsSales ==
  ASSUME OrderlyEnv, TypeOK, EngineParts, SalesInv, NEW e \in Events,
         \/ PaymentEvent(e) \/ HandlerStep(e) \/ HandlerFails(e) \/ HandlerDies(e)
         \/ \E S \in SUBSET Writes : ConfirmFails(e, S)
  PROVE  SalesInv'
<1> USE DEF EngineParts, TypeOK, AvailabilityTypeOK, SalesInv, UntouchedInv,
            CreationInv, Untouched, LockInv, HoldsWebhookLock, WriterInv, TicketInv,
            Quiet, ReleaseInv, OwnershipInv, Exists, redisVars, mongoVars, requestVars,
            handlerVars, availabilityVars, HandlerGoto, Writes, BookingStatus,
            WorkOnExisting, OrderlyEnv, IsPending
<1>1. CASE PaymentEvent(e) BY <1>1 DEF PaymentEvent, AcceptedHasJob
<1>2. CASE AcquireWebhookLock(e) BY <1>2 DEF AcquireWebhookLock, AcquireLock, LockBusy
<1>3. CASE ReadForConfirm(e)
  <2>1. CASE IsPending(e.booking) /\ event # "removed"
    <3>1. /\ hpc[e] = "read" /\ status[e.booking] = "PENDING"
          /\ hpc' = [hpc EXCEPT ![e] = "writes"]
          /\ todo' = [todo EXCEPT ![e] = Writes]
          /\ UNCHANGED <<status, job, reply, rpc, meta, priced, owned, issued, valid,
                         event, available, slotsCached, locks, count, cpc>>
      BY <1>3, <2>1 DEF ReadForConfirm
    <3>2. \A f \in Events : f.booking = e.booking => todo[f] = {}
      BY <3>1
    <3>3. e.booking \notin issued
      BY <3>1, <3>2
    <3>4. CreationInv' /\ LockInv' /\ OwnershipInv'
      BY <3>1
    <3>5. WriterInv'
      BY <3>1, <3>2, <3>3
    <3>6. TicketInv'
      BY <3>1, <3>3
    <3>7. ReleaseInv'
      BY <3>1
    <3>8. QED BY <3>4, <3>5, <3>6, <3>7
  <2>2. CASE ~(IsPending(e.booking) /\ event # "removed")
    BY <1>3, <2>2 DEF ReadForConfirm
  <2>3. QED BY <2>1, <2>2
<1>4. CASE WriteTickets(e) BY <1>4 DEF WriteTickets, Landed
<1>5. CASE WriteStatus(e) BY <1>5 DEF WriteStatus, Landed
<1>6. CASE WriteCounter(e) BY <1>6 DEF WriteCounter, IncAvailable, Landed
<1>7. CASE CommitConfirm(e) BY <1>7 DEF CommitConfirm
<1>8. CASE FailDocument(e)
  <2>1. CASE IsPending(e.booking)
    <3>1. /\ status' = [status EXCEPT ![e.booking] = "FAILED"]
          /\ hpc' = [hpc EXCEPT ![e] = "release"]
          /\ UNCHANGED <<job, reply, rpc, meta, priced, owned, issued, valid, event, available,
                         slotsCached, locks, count, todo, cpc>>
      BY <1>8, <2>1 DEF FailDocument
    <3>2. status[e.booking] = "PENDING" /\ hpc[e] = "read"
      BY <1>8, <2>1 DEF FailDocument
    <3>3. Quiet(e.booking)
      BY <3>2
    <3>4. job[e.booking] # "none" /\ e.booking \in owned /\ e.booking \notin issued
      BY <3>2, <3>3
    <3>5. CreationInv' /\ LockInv' /\ OwnershipInv'
      BY <3>1, <3>2, <3>4
    <3>6. WriterInv'
      BY <3>1, <3>2, <3>3
    <3>7. TicketInv'
      BY <3>1, <3>2, <3>4
    <3>8. ReleaseInv'
      BY <3>1, <3>2, <3>4
    <3>9. QED BY <3>5, <3>6, <3>7, <3>8
  <2>2. CASE ~IsPending(e.booking)
    BY <1>8, <2>2 DEF FailDocument
  <2>3. QED BY <2>1, <2>2
<1>9. CASE ReleaseFailed(e) BY <1>9 DEF ReleaseFailed, ReleaseHold
<1>10. CASE UnlockWebhook(e) BY <1>10 DEF UnlockWebhook, ReleaseLock
<1>11. CASE HandlerFails(e) BY <1>11 DEF HandlerFails
<1>12. CASE HandlerDies(e) BY <1>12 DEF HandlerDies
<1>13. \A S \in SUBSET Writes : ~ConfirmFails(e, S)
  BY DEF ConfirmFails
<1>14. QED
  BY <1>1, <1>2, <1>3, <1>4, <1>5, <1>6, <1>7, <1>8, <1>9, <1>10, <1>11, <1>12,
     <1>13 DEF HandlerStep

(* A step of an expiry job, a cancellation or of Redis: jobs and             *)
(* cancellations come between confirmations, not into them.                *)
LEMMA OtherKeepsSales ==
  ASSUME OrderlyEnv, TypeOK, EngineParts, SalesInv, JobNext \/ CancelNext \/ RedisNext
  PROVE  SalesInv'
<1> USE DEF EngineParts, TypeOK, AvailabilityTypeOK, SalesInv, UntouchedInv,
            CreationInv, Untouched, LockInv, HoldsWebhookLock, WriterInv, TicketInv,
            Quiet, ReleaseInv, OwnershipInv, Exists, redisVars, mongoVars, requestVars,
            handlerVars, availabilityVars, CancelGoto, Writes, BookingStatus,
            WorkOnExisting, OrderlyEnv, IsPending
<1>1. ASSUME NEW b \in Bookings, ExpireDocument(b) PROVE SalesInv'
  <2>1. CASE IsPending(b)
    <3>1. /\ job[b] = "delayed" /\ Quiet(b) /\ status[b] = "PENDING"
          /\ status' = [status EXCEPT ![b] = "EXPIRED"]
          /\ job' = [job EXCEPT ![b] = "releasing"]
          /\ UNCHANGED <<rpc, reply, meta, priced, owned, issued, valid, event, available,
                         slotsCached, locks, count, hpc, todo, cpc>>
      BY <1>1, <2>1 DEF ExpireDocument
    <3>2. b \in owned /\ b \notin issued
      BY <3>1
    <3>3. CreationInv' /\ LockInv' /\ OwnershipInv'
      BY <3>1, <3>2
    <3>4. WriterInv'
      BY <3>1
    <3>5. TicketInv'
      BY <3>1, <3>2
    <3>6. ReleaseInv'
      BY <3>1, <3>2
    <3>7. QED BY <3>3, <3>4, <3>5, <3>6
  <2>2. CASE ~IsPending(b)
    BY <1>1, <2>2 DEF ExpireDocument
  <2>3. QED BY <2>1, <2>2
<1>2. ASSUME NEW b \in Bookings, ReleaseExpired(b) PROVE SalesInv'
  BY <1>2 DEF ReleaseExpired, ReleaseHold
<1>3. ASSUME NEW b \in Bookings, JobFails(b) \/ WorkerDies(b) PROVE SalesInv'
  BY <1>3 DEF JobFails, WorkerDies
<1>4. ASSUME NEW c \in Cancels, FindForCancel(c) PROVE SalesInv'
  <2>1. CASE Cancellable(c)
    <3>1. /\ cpc[c] = "idle" /\ status[c.booking] = "CONFIRMED"
          /\ cpc' = [cpc EXCEPT ![c] = "txn"]
          /\ UNCHANGED <<status, job, reply, rpc, meta, priced, owned, issued, valid,
                         event, available, slotsCached, locks, count, hpc, todo>>
      BY <1>4, <2>1 DEF FindForCancel, CalledInTurn
    <3>2. Quiet(c.booking) /\ \A d \in Cancels : d.booking = c.booking => cpc[d] # "txn"
      BY <1>4, <2>1 DEF FindForCancel, CalledInTurn
    <3>3. CreationInv' /\ LockInv' /\ OwnershipInv'
      BY <3>1
    <3>4. WriterInv' /\ TicketInv'
      BY <3>1
    <3>5. ReleaseInv'
      BY <3>1, <3>2
    <3>6. QED BY <3>3, <3>4, <3>5
  <2>2. CASE ~Cancellable(c)
    BY <1>4, <2>2 DEF FindForCancel
  <2>3. QED BY <2>1, <2>2
<1>5. ASSUME NEW c \in Cancels, CommitCancel(c) PROVE SalesInv'
  <2>1. /\ cpc[c] = "txn"
        /\ status' = [status EXCEPT ![c.booking] = "CANCELLED"]
        /\ valid' = valid \ {c.booking}
        /\ cpc' = [cpc EXCEPT ![c] = "release"]
        /\ UNCHANGED <<job, reply, rpc, meta, priced, owned, issued, event, slotsCached,
                       locks, count, hpc, todo>>
    BY <1>5 DEF CommitCancel
  <2>2. status[c.booking] = "CONFIRMED" /\ Quiet(c.booking)
    BY <2>1
  <2>3. job[c.booking] # "none" /\ c.booking \in owned
    BY <2>1, <2>2
  <2>4. CreationInv' /\ LockInv' /\ OwnershipInv'
    BY <2>1, <2>2, <2>3
  <2>5. WriterInv'
    BY <2>1, <2>2
  <2>6. TicketInv'
    BY <2>1, <2>2
  <2>7. ReleaseInv'
    BY <2>1, <2>2, <2>3
  <2>8. QED BY <2>4, <2>5, <2>6, <2>7
<1>6. ASSUME NEW c \in Cancels, ReleaseCancelled(c) PROVE SalesInv'
  BY <1>6 DEF ReleaseCancelled, ReleaseHold
<1>7. ASSUME NEW c \in Cancels, CancelFails(c) \/ CancelDies(c) PROVE SalesInv'
  BY <1>7 DEF CancelFails, CancelDies
<1>8. ASSUME NEW k \in Keys \cup Bookings, LockTimeout(k) PROVE SalesInv'
  BY <1>8 DEF LockTimeout, LockExpires
<1>9. ASSUME NEW b \in Bookings, HoldTimeout(b) PROVE SalesInv'
  BY <1>9 DEF HoldTimeout, HoldExpires
<1>10. CASE SlotsEvicted \/ EventDatePasses
  BY <1>10 DEF SlotsEvicted, SlotsLost, DeleteEventSlots, EventDatePasses
<1>11. QED
  BY <1>1, <1>2, <1>3, <1>4, <1>5, <1>6, <1>7, <1>8, <1>9, <1>10
     DEF JobNext, JobStep, CancelNext, CancelStep, RedisNext

(* Together: in an orderly environment every step keeps SalesInv. *)
LEMMA StepKeepsSales ==
  ASSUME OrderlyEnv, TypeOK, EngineParts, SalesInv, [Next]_vars
  PROVE  SalesInv'
<1>1. CASE UNCHANGED vars
  BY <1>1 DEF vars, redisVars, mongoVars, requestVars, handlerVars, SalesInv, UntouchedInv,
     CreationInv, Untouched, LockInv, HoldsWebhookLock, WriterInv, TicketInv, Quiet,
     ReleaseInv, OwnershipInv, Exists
<1>2. CASE RequestNext BY <1>2, RequestKeepsSales DEF RequestNext
<1>3. CASE HandlerNext \/ \E e \in Events : PaymentEvent(e)
  BY <1>3, HandlerKeepsSales DEF HandlerNext
<1>4. CASE JobNext \/ CancelNext \/ RedisNext
  BY <1>4, OtherKeepsSales
<1>5. QED BY <1>1, <1>2, <1>3, <1>4 DEF Next, ServiceNext

(* With the counter in Redis, ControlInv too. *)
LEMMA StepKeepsControl ==
  ASSUME CalmEnv, AnyEnvInv, ControlInv, [Next]_vars
  PROVE  ControlInv'
BY OnlyOpenStep, StepKeepsSales, AnyEnvHasParts DEF CalmEnv, ControlInv

------------------------------------------------------------------------------
(* The counter *)

(* A hold moves units from the counter to a booking that had none. *)
LEMMA HoldKeepsLedger ==
  ASSUME TypeOK, CounterInv, slotsCached,
         NEW b \in Bookings, b \notin owned, CheckAndHold(b)
  PROVE  CounterInv'
<1>1. /\ slots' = slots - Qty[b] /\ Qty[b] <= slots
      /\ owned' = owned \cup {b}
      /\ slotsCached'
  BY DEF CheckAndHold, EnoughSlots
<1>2. owned \subseteq Bookings /\ slots \in Int
  BY DEF TypeOK, AvailabilityTypeOK
<1>3. /\ Cardinality(Units(owned)) \in Nat
      /\ Cardinality(Units(owned \cup {b})) = Cardinality(Units(owned)) + Qty[b]
  BY <1>2, UnitsFinite, UnitsOfAdded
<1>4. slots + Cardinality(Units(owned)) = Capacity
  BY DEF CounterInv, Ledger
<1>5. (slots - Qty[b]) + (Cardinality(Units(owned)) + Qty[b]) = Capacity
  BY <1>2, <1>3, <1>4
<1>6. Cardinality(Units(owned')) = Cardinality(Units(owned)) + Qty[b]
  BY <1>1, <1>3
<1>7. Ledger'
  BY <1>1, <1>5, <1>6 DEF Ledger
<1>8. slots' >= 0
  BY <1>1, <1>2
<1>9. QED BY <1>1, <1>7, <1>8 DEF CounterInv

(* A release moves the units of a booking that owns them back. *)
LEMMA ReleaseKeepsLedger ==
  ASSUME TypeOK, CounterInv, NEW b \in Bookings, b \in owned, ReleaseHold(b)
  PROVE  CounterInv'
<1>1. slots' = slots + Qty[b] /\ owned' = owned \ {b} /\ slotsCached' = TRUE
  BY DEF ReleaseHold
<1>2. owned \subseteq Bookings /\ slots \in Int /\ slots >= 0
  BY DEF TypeOK, AvailabilityTypeOK, CounterInv
<1>3. /\ Cardinality(Units(owned \ {b})) \in Nat
      /\ Cardinality(Units(owned)) = Cardinality(Units(owned \ {b})) + Qty[b]
  BY <1>2, UnitsFinite, UnitsOfRemoved
<1>4. slots + Cardinality(Units(owned)) = Capacity
  BY DEF CounterInv, Ledger
<1>5. (slots + Qty[b]) + Cardinality(Units(owned \ {b})) = Capacity
  BY <1>2, <1>3, <1>4
<1>6. Ledger'
  BY <1>1, <1>5 DEF Ledger
<1>7. slots' >= 0
  BY <1>1, <1>2
<1>8. QED BY <1>1, <1>6, <1>7 DEF CounterInv

(* A refill finds nothing owned and the full number in MongoDB. *)
LEMMA RefillKeepsLedger ==
  ASSUME CounterInv, ControlInv, NEW r \in Bookings, RefillSlots(r)
  PROVE  CounterInv'
<1>1. rpc[r] = "setSlots" /\ slots' = count[r] /\ slotsCached' = TRUE /\ owned' = owned
  BY DEF RefillSlots, SetEventSlots
<1>2. count[r] = Capacity /\ owned = {}
  BY <1>1 DEF ControlInv, OnlyOpenIsBooked
<1>3. Cardinality(Units(owned')) = 0
  BY <1>1, <1>2, UnitsOfNone
<1>4. Ledger'
  BY <1>1, <1>2, <1>3 DEF Ledger
<1>5. QED BY <1>1, <1>2, <1>4 DEF CounterInv

(* Whatever else happens leaves counter and owners alone, and every release   *)
(* in the calm environment is by the one who may.                          *)
LEMMA StepKeepsLedger ==
  ASSUME CalmEnv, AnyEnvInv, ControlInv, CounterInv, [Next]_vars
  PROVE  CounterInv'
<1> USE DEF AnyEnvInv, redisVars, availabilityVars
<1>1. ASSUME UNCHANGED <<slots, slotsCached, owned>> PROVE CounterInv'
  <2>1. CASE slotsCached BY <1>1, <2>1 DEF CounterInv, Ledger
  <2>2. CASE ~slotsCached BY <1>1, <2>2 DEF CounterInv, Ledger
  <2>3. QED BY <2>1, <2>2
<1>2. ASSUME NEW r \in Bookings, HoldSlots(r) PROVE CounterInv'
  <2>1. rpc[r] = "hold" /\ Exists(r)
    BY <1>2 DEF HoldSlots, WorkOnExisting
  <2>2. r \notin owned /\ slotsCached
    BY <2>1 DEF ControlInv, SalesInv, CreationInv, OnlyOpenIsBooked, TypeOK
  <2>3. CheckAndHold(r) \/ UNCHANGED availabilityVars
    BY <1>2 DEF HoldSlots
  <2>4. QED BY <2>2, <2>3, <1>1, HoldKeepsLedger
<1>3. ASSUME NEW b \in Bookings, ReleaseExpired(b) PROVE CounterInv'
  BY <1>3, ReleaseKeepsLedger DEF ReleaseExpired, ControlInv, SalesInv, ReleaseInv
<1>4. ASSUME NEW e \in Events, ReleaseFailed(e) PROVE CounterInv'
  BY <1>4, ReleaseKeepsLedger DEF ReleaseFailed, ControlInv, SalesInv, ReleaseInv
<1>5. ASSUME NEW c \in Cancels, ReleaseCancelled(c) PROVE CounterInv'
  BY <1>5, ReleaseKeepsLedger DEF ReleaseCancelled, ControlInv, SalesInv, ReleaseInv
<1>6. ASSUME NEW r \in Bookings, RefillSlots(r) PROVE CounterInv'
  BY <1>6, RefillKeepsLedger
<1>7. \/ UNCHANGED <<slots, slotsCached, owned>>
      \/ \E r \in Bookings : HoldSlots(r) \/ RefillSlots(r) \/ ReleaseExpired(r)
      \/ \E e \in Events : ReleaseFailed(e)
      \/ \E c \in Cancels : ReleaseCancelled(c)
  <2>1. CASE RequestNext
    BY <2>1 DEF RequestNext, RequestStep, CheckIdempotency, LockCreation, FindExisting,
       GetEvent, CountSlots, ReadAvailable, CreateDocument, CacheIdempotency,
       EnqueueExpiry, UnlockCreation, RequestFails, RequestDies
  <2>2. CASE HandlerNext \/ \E e \in Events : PaymentEvent(e)
    BY <2>2 DEF HandlerNext, HandlerStep, PaymentEvent, AcquireWebhookLock,
       ReadForConfirm, WriteTickets, WriteStatus, WriteCounter, CommitConfirm,
       FailDocument, UnlockWebhook, HandlerFails, HandlerDies, ConfirmFails
  <2>3. CASE JobNext \/ CancelNext
    BY <2>3 DEF JobNext, JobStep, ExpireDocument, JobFails, WorkerDies, CancelNext,
       CancelStep, FindForCancel, CommitCancel, CancelFails, CancelDies
  <2>4. CASE RedisNext \/ UNCHANGED vars
    BY <2>4 DEF RedisNext, LockTimeout, HoldTimeout, HoldExpires, SlotsEvicted,
       EventDatePasses, CalmEnv, vars
  <2>5. QED BY <2>1, <2>2, <2>3, <2>4 DEF ServiceNext, Next
<1>8. QED BY <1>1, <1>2, <1>3, <1>4, <1>5, <1>6, <1>7

------------------------------------------------------------------------------
(* availableTickets *)

(* A confirmation's decrement counts its booking, and only it. *)
LEMMA CounterCounts ==
  ASSUME AnyEnvInv, SalesInv, EventStored, CountedInv, NEW e \in Events, WriteCounter(e)
  PROVE  CountedInv'
<1> USE DEF AnyEnvInv, TypeOK, SalesInv, WriterInv, LockInv, HoldsWebhookLock
<1>0. event # "removed"
  <2>1. status[e.booking] # "absent"
    BY DEF WriteCounter, Landed, WorkOnExisting, Exists
  <2>2. QED BY <2>1 DEF EventStored, UnpublishedHasNoPrice, Exists
<1>1. /\ "counter" \in todo[e]
      /\ todo' = [todo EXCEPT ![e] = @ \ {"counter"}]
      /\ available' = available - Qty[e.booking]
      /\ UNCHANGED <<status, hpc>>
  BY <1>0 DEF WriteCounter, IncAvailable, Landed
<1>2. \A f \in Events : f.booking = e.booking /\ todo[f] # {} => f = e
  BY <1>1
<1>3. Counted \subseteq Bookings /\ e.booking \in Bookings \ Counted
  BY <1>1 DEF Counted
<1>4. \A b \in Bookings : b # e.booking => (b \in Counted' <=> b \in Counted)
  BY <1>1 DEF Counted, Quiet
<1>5. e.booking \in Counted'
  <2>1. status[e.booking] = "CONFIRMED" \/ "status" \in todo'[e]
    BY <1>1
  <2>2. status'[e.booking] = "CONFIRMED" \/ ~Quiet(e.booking)'
    BY <1>1, <2>1 DEF Quiet
  <2>3. \A f \in Events : f.booking = e.booking => "counter" \notin todo'[f]
    BY <1>1, <1>2
  <2>4. QED BY <2>2, <2>3 DEF Counted
<1>6. Counted' = Counted \cup {e.booking}
  BY <1>3, <1>4, <1>5 DEF Counted
<1>7. /\ Cardinality(Units(Counted)) \in Nat
      /\ Cardinality(Units(Counted \cup {e.booking}))
           = Cardinality(Units(Counted)) + Qty[e.booking]
  BY <1>3, UnitsFinite, UnitsOfAdded
<1>8. Cardinality(Units(Counted')) = Cardinality(Units(Counted)) + Qty[e.booking]
  BY <1>6, <1>7
<1>9. QED BY <1>1, <1>3, <1>7, <1>8 DEF CountedInv

(* A cancellation's increment takes its booking out, and only it. *)
LEMMA CancelCounts ==
  ASSUME AnyEnvInv, SalesInv, EventStored, CountedInv, NEW c \in Cancels, CommitCancel(c)
  PROVE  CountedInv'
<1> USE DEF AnyEnvInv, TypeOK, SalesInv, ReleaseInv
<1>0. event # "removed"
  <2>1. status[c.booking] # "absent"
    BY DEF CommitCancel, WorkOnExisting, Exists
  <2>2. QED BY <2>1 DEF EventStored, UnpublishedHasNoPrice, Exists
<1>1. /\ status' = [status EXCEPT ![c.booking] = "CANCELLED"]
      /\ available' = available + Qty[c.booking]
      /\ todo' = todo
      /\ status[c.booking] = "CONFIRMED" /\ Quiet(c.booking)
  BY <1>0 DEF CommitCancel, IncAvailable, handlerVars
<1>2. Counted \subseteq Bookings /\ c.booking \in Counted
  BY <1>1 DEF Counted, Quiet
<1>3. Counted' = Counted \ {c.booking}
  BY <1>1 DEF Counted, Quiet
<1>4. /\ Cardinality(Units(Counted \ {c.booking})) \in Nat
      /\ Cardinality(Units(Counted))
           = Cardinality(Units(Counted \ {c.booking})) + Qty[c.booking]
  BY <1>2, UnitsFinite, UnitsOfRemoved
<1>5. Cardinality(Units(Counted')) = Cardinality(Units(Counted \ {c.booking}))
  BY <1>3
<1>6. QED BY <1>1, <1>2, <1>4, <1>5 DEF CountedInv

(* availableTickets counts the bookings that are sold or about to be, except   *)
(* those whose decrement is still on its way.                              *)
LEMMA StepKeepsCounted ==
  ASSUME OrderlyEnv, AnyEnvInv, SalesInv, EventStored, CountedInv, [Next]_vars
  PROVE  CountedInv'
<1> USE DEF AnyEnvInv, TypeOK, SalesInv, WriterInv, LockInv, HoldsWebhookLock,
            mongoVars, handlerVars
<1>1. ASSUME Counted' = Counted, available' = available PROVE CountedInv'
  BY <1>1 DEF CountedInv
<1>2. ASSUME UNCHANGED <<status, todo, available>> PROVE CountedInv'
  BY <1>1, <1>2 DEF Counted, Quiet
<1>3. ASSUME NEW r \in Bookings, CreateDocument(r) PROVE CountedInv'
  <2>1. CASE DuplicateKey(r) BY <1>2, <1>3, <2>1 DEF CreateDocument
  <2>2. CASE ~DuplicateKey(r)
    <3>1. status[r] = "absent" BY <2>2 DEF DuplicateKey
    <3>2. Counted' = Counted BY <1>3, <3>1 DEF CreateDocument, Counted, Quiet
    <3>3. QED BY <1>1, <1>3, <3>2 DEF CreateDocument
  <2>3. QED BY <2>1, <2>2
<1>4. ASSUME NEW e \in Events, ReadForConfirm(e) PROVE CountedInv'
  <2>1. CASE IsPending(e.booking) /\ event # "removed"
    <3>1. /\ hpc[e] = "read" /\ status[e.booking] = "PENDING"
          /\ todo' = [todo EXCEPT ![e] = Writes]
          /\ UNCHANGED <<status, available>>
      BY <1>4, <2>1 DEF ReadForConfirm, IsPending
    <3>2. \A f \in Events : f.booking = e.booking => todo[f] = {}
      BY <3>1
    <3>3. Counted' = Counted
      BY <3>1, <3>2 DEF Counted, Quiet, Writes
    <3>4. QED BY <1>1, <3>1, <3>3
  <2>2. CASE ~(IsPending(e.booking) /\ event # "removed")
    BY <1>2, <1>4, <2>2 DEF ReadForConfirm
  <2>3. QED BY <2>1, <2>2
<1>5. ASSUME NEW e \in Events, WriteTickets(e) PROVE CountedInv'
  <2>1. /\ "tickets" \in todo[e]
        /\ todo' = [todo EXCEPT ![e] = @ \ {"tickets"}]
        /\ UNCHANGED <<status, available>>
    BY <1>5 DEF WriteTickets, Landed
  <2>2. status[e.booking] = "CONFIRMED" \/ "status" \in todo'[e]
    BY <2>1
  <2>3. Counted' = Counted
    BY <2>1, <2>2 DEF Counted, Quiet
  <2>4. QED BY <1>1, <2>1, <2>3
<1>6. ASSUME NEW e \in Events, WriteStatus(e) PROVE CountedInv'
  <2>1. /\ "status" \in todo[e]
        /\ todo' = [todo EXCEPT ![e] = @ \ {"status"}]
        /\ status' = [status EXCEPT ![e.booking] = "CONFIRMED"]
        /\ available' = available
    BY <1>6 DEF WriteStatus, Landed
  <2>2. Counted' = Counted
    BY <2>1 DEF Counted, Quiet
  <2>3. QED BY <1>1, <2>1, <2>2
<1>7. ASSUME NEW e \in Events, FailDocument(e) PROVE CountedInv'
  <2>1. CASE IsPending(e.booking)
    <3>1. /\ hpc[e] = "read" /\ status[e.booking] = "PENDING"
          /\ status' = [status EXCEPT ![e.booking] = "FAILED"]
          /\ UNCHANGED <<todo, available>>
      BY <1>7, <2>1 DEF FailDocument, IsPending
    <3>2. Quiet(e.booking)
      BY <3>1 DEF Quiet
    <3>3. Counted' = Counted
      BY <3>1, <3>2 DEF Counted, Quiet
    <3>4. QED BY <1>1, <3>1, <3>3
  <2>2. CASE ~IsPending(e.booking)
    BY <1>2, <1>7, <2>2 DEF FailDocument
  <2>3. QED BY <2>1, <2>2
<1>8. ASSUME NEW b \in Bookings, ExpireDocument(b) PROVE CountedInv'
  <2>1. CASE IsPending(b)
    <3>1. Quiet(b) /\ available' = available
      BY <1>8 DEF ExpireDocument, OrderlyEnv
    <3>2. Counted' = Counted
      BY <1>8, <2>1, <3>1 DEF ExpireDocument, IsPending, Counted, Quiet
    <3>3. QED BY <1>1, <3>1, <3>2
  <2>2. CASE ~IsPending(b)
    BY <1>2, <1>8, <2>2 DEF ExpireDocument
  <2>3. QED BY <2>1, <2>2
<1>9. \/ UNCHANGED <<status, todo, available>>
      \/ \E b \in Bookings : CreateDocument(b) \/ ExpireDocument(b)
      \/ \E e \in Events : \/ ReadForConfirm(e) \/ WriteTickets(e) \/ WriteStatus(e)
                          \/ WriteCounter(e) \/ FailDocument(e)
      \/ \E c \in Cancels : CommitCancel(c)
  <2>1. CASE RequestNext
    BY <2>1 DEF RequestNext, RequestStep, CheckIdempotency, LockCreation, FindExisting,
       GetEvent, CountSlots, ReadAvailable, RefillSlots, HoldSlots, CacheIdempotency,
       EnqueueExpiry, UnlockCreation, RequestFails, RequestDies
  <2>2. CASE HandlerNext \/ \E e \in Events : PaymentEvent(e)
    BY <2>2 DEF HandlerNext, HandlerStep, PaymentEvent, AcquireWebhookLock,
       CommitConfirm, ReleaseFailed, UnlockWebhook, HandlerFails, HandlerDies,
       ConfirmFails, OrderlyEnv
  <2>3. CASE JobNext \/ CancelNext
    BY <2>3 DEF JobNext, JobStep, ReleaseExpired, JobFails, WorkerDies, CancelNext,
       CancelStep, FindForCancel, ReleaseCancelled, CancelFails, CancelDies
  <2>4. CASE RedisNext \/ UNCHANGED vars
    BY <2>4 DEF RedisNext, LockTimeout, HoldTimeout, SlotsEvicted, EventDatePasses, vars
  <2>5. QED BY <2>1, <2>2, <2>3, <2>4 DEF ServiceNext, Next
<1>10. QED
  BY <1>2, <1>3, <1>4, <1>5, <1>6, <1>7, <1>8, <1>9, CounterCounts, CancelCounts

------------------------------------------------------------------------------
(* The document that availableTickets is in is never removed under a booking. *)
LEMMA EventStaysStored ==
  ASSUME AnyEnvInv, EventStored, [Next]_vars
  PROVE  EventStored'
BY StepStores DEF AnyEnvInv, EventStored

(* At the start nobody has booked. *)
LEMMA SalesInit == Init => SalesInv
BY DEF Init, AvailabilityInit, SalesInv, CreationInv, UntouchedInv, Untouched, LockInv,
   HoldsWebhookLock, WriterInv, TicketInv, Quiet, ReleaseInv, OwnershipInv, Exists,
   LocksInit

(* The invariant of an orderly environment: although the counter may vanish,  *)
(* be refilled too high and oversell, nobody releases or confirms what is  *)
(* not his.                                                                *)
THEOREM SalesInvariant ==
  ASSUME OrderlyEnv
  PROVE  Spec => [](SalesInv /\ CountedInv)
<1>1. Init => SalesInv /\ EventStored /\ CountedInv
  <2> SUFFICES ASSUME Init PROVE SalesInv /\ EventStored /\ CountedInv
    OBVIOUS
  <2>1. SalesInv
    BY SalesInit
  <2>2. EventStored
    BY DEF Init, EventStored
  <2>3. Counted = {} /\ available = Capacity
    BY DEF Init, Counted, Quiet
  <2>4. CountedInv
    BY <2>3, UnitsOfNone DEF CountedInv
  <2>5. QED BY <2>1, <2>2, <2>4
<1>2. AnyEnvInv /\ SalesInv /\ EventStored /\ CountedInv /\ [Next]_vars
        => SalesInv' /\ EventStored' /\ CountedInv'
  BY StepKeepsSales, EventStaysStored, StepKeepsCounted, AnyEnvHasParts
<1>3. QED BY <1>1, <1>2, AnyEnvInvariant, PTL DEF Spec

(* The invariant of the calm environment: the counter agrees too. *)
THEOREM CalmInvariant == ASSUME CalmEnv PROVE Spec => []CalmInv
<1>0. OrderlyEnv BY DEF CalmEnv
<1>1. Init => OnlyOpenIsBooked /\ CounterInv
  <2> SUFFICES ASSUME Init PROVE OnlyOpenIsBooked /\ CounterInv
    OBVIOUS
  <2>0. (slotsCached <=> meta = "open") /\ owned = {}
    BY Zenon DEF Init, AvailabilityInit
  <2>1. OnlyOpenIsBooked
    BY <2>0 DEF Init, OnlyOpenIsBooked, Exists
  <2>2. CounterInv
    <3>1. CASE meta = "open"
      <4>1. slotsCached /\ slots = Capacity
        BY <3>1, <2>0 DEF Init, AvailabilityInit
      <4>2. Ledger
        BY <4>1, <2>0, UnitsOfNone DEF Ledger
      <4>3. QED BY <4>1, <4>2, <2>0 DEF CounterInv
    <3>2. CASE meta # "open"
      <4>1. ~slotsCached /\ slots = 0
        BY <3>2, <2>0 DEF Init, AvailabilityInit
      <4>2. QED BY <4>1, <2>0 DEF CounterInv, Ledger
    <3>3. QED BY <3>1, <3>2
  <2>3. QED BY <2>1, <2>2
<1>2. AnyEnvInv /\ SalesInv /\ OnlyOpenIsBooked /\ CounterInv /\ [Next]_vars
        => OnlyOpenIsBooked' /\ CounterInv'
  BY OnlyOpenStep, StepKeepsLedger DEF CalmEnv, ControlInv
<1>3. SalesInv /\ CountedInv /\ OnlyOpenIsBooked /\ CounterInv => CalmInv
  BY DEF CalmInv
<1>4. QED BY <1>0, <1>1, <1>2, <1>3, AnyEnvInvariant, SalesInvariant, PTL DEF Spec

(* Faults and crashes lose units of a dead call, never count one twice. *)
THEOREM LedgerKept == ASSUME CalmEnv PROVE Spec => []Ledger
<1>1. CalmInv => Ledger BY DEF CalmInv, CounterInv
<1>2. QED BY <1>1, CalmInvariant, PTL

(* A valid ticket's booking owns its units. *)
LEMMA ValidOwned == TypeOK /\ SalesInv => valid \subseteq owned
BY DEF TypeOK, BookingStatus, SalesInv, TicketInv, CreationInv, UntouchedInv,
       Untouched, OwnershipInv, Exists

(* What OwnershipInv and TicketInv say of open and sold bookings together. *)
LEMMA SalesHeld == TypeOK /\ EngineParts /\ SalesInv => SoldIsHeld
BY ValidOwned DEF SoldIsHeld, EngineParts, AcceptedHasJob, SalesInv, OwnershipInv

(* The valid tickets always fit in the event. *)
THEOREM NeverOversold == ASSUME CalmEnv PROVE Spec => []NoOversell
<1>1. AnyEnvInv /\ CalmInv => NoOversell
  <2> SUFFICES ASSUME AnyEnvInv, CalmInv PROVE NoOversell
    OBVIOUS
  <2>1. owned \in SUBSET Bookings /\ valid \in SUBSET owned /\ slots \in Int
    BY ValidOwned DEF AnyEnvInv, TypeOK, AvailabilityTypeOK, CalmInv
  <2>2. /\ Cardinality(Units(valid)) <= Cardinality(Units(owned))
        /\ Cardinality(Units(owned)) \in Nat
        /\ Cardinality(Units(valid)) \in Nat
    BY <2>1, UnitsMonotone, UnitsFinite
  <2>3. Cardinality(Units(owned)) <= Capacity
    <3>1. CASE slotsCached
      BY <3>1, <2>1, <2>2 DEF CalmInv, CounterInv, Ledger
    <3>2. CASE ~slotsCached
      <4>1. owned = {}
        BY <3>2 DEF CalmInv, CounterInv
      <4>2. Cardinality(Units(owned)) = 0
        BY <4>1, UnitsOfNone
      <4>3. QED BY <4>2
    <3>3. QED BY <3>1, <3>2
  <2>4. QED BY <2>2, <2>3 DEF NoOversell
<1>2. QED BY <1>1, AnyEnvInvariant, CalmInvariant, PTL

(* No step gives away the units of a booking that is open or sold; that the  *)
(* counter may be lost and refilled is nothing to its owner.               *)
THEOREM SoldStaysHeld == ASSUME OrderlyEnv PROVE Spec => []SoldIsHeld
<1>1. AnyEnvInv /\ SalesInv => SoldIsHeld
  BY SalesHeld, AnyEnvHasParts
<1>2. QED BY <1>1, AnyEnvInvariant, SalesInvariant, PTL

(* A status that was read PENDING is still PENDING when it is overwritten.   *)
LEMMA SalesCancelledStep ==
  ASSUME TypeOK, SalesInv, [Next]_vars
  PROVE  \A b \in Bookings : status[b] = "CANCELLED" => status'[b] = "CANCELLED"
<1>1. CASE Next
  <2>1. \A e \in Events : "status" \in todo[e] => status[e.booking] = "PENDING"
    BY DEF SalesInv, WriterInv
  <2>2. QED BY <1>1, <2>1, CancelledStep
<1>2. CASE UNCHANGED vars
  BY <1>2 DEF vars, mongoVars
<1>3. QED BY <1>1, <1>2

(* A cancellation is final where no confirmation is overtaken: then the      *)
(* exception that CancelledStays makes for a confirmation never occurs.    *)
THEOREM CancellationIsFinal == ASSUME OrderlyEnv PROVE Spec => CancelledForGood
<1>1. AnyEnvInv /\ SalesInv /\ [Next]_vars =>
        [\A b \in Bookings : status[b] = "CANCELLED" => status'[b] = "CANCELLED"]_vars
  BY SalesCancelledStep, AnyEnvHasParts
<1>2. QED BY <1>1, AnyEnvInvariant, SalesInvariant, PTL DEF Spec, CancelledForGood

(* The three writes of a confirmation, none of them in a transaction, are   *)
(* one when none of them is lost: whenever no confirmation is under way,   *)
(* tickets, status and availableTickets agree.                             *)
THEOREM ConfirmationsWhole == ASSUME OrderlyEnv PROVE Spec => []ConfirmedAsAWhole
<1>1. AnyEnvInv /\ SalesInv /\ CountedInv => ConfirmedAsAWhole
  <2> SUFFICES ASSUME AnyEnvInv, SalesInv, CountedInv, \A b \in Bookings : Quiet(b)
               PROVE  /\ valid = {b \in Bookings : status[b] = "CONFIRMED"}
                      /\ available = Capacity - Cardinality(Units(valid))
    BY DEF ConfirmedAsAWhole
  <2>1. valid \subseteq Bookings /\ valid \subseteq issued
    BY DEF AnyEnvInv, TypeOK, SalesInv, TicketInv
  <2>2. \A b \in Bookings : status[b] = "CONFIRMED" => b \in valid
    BY DEF SalesInv, TicketInv
  <2>3. \A b \in Bookings : b \in issued => status[b] \notin {"absent", "PENDING"}
    BY DEF SalesInv, TicketInv, CreationInv, UntouchedInv, Untouched, Exists, Quiet
  <2>4. \A b \in valid : status[b] = "CONFIRMED"
    BY <2>1, <2>3 DEF AnyEnvInv, TypeOK, BookingStatus, SalesInv, TicketInv
  <2>5. valid = {b \in Bookings : status[b] = "CONFIRMED"}
    BY <2>1, <2>2, <2>4
  <2>6. Counted = valid
    BY <2>5 DEF Counted, Quiet
  <2>7. QED BY <2>5, <2>6 DEF CountedInv
<1>2. QED BY <1>1, AnyEnvInvariant, SalesInvariant, PTL

------------------------------------------------------------------------------
(* The service implements the abstract sale. *)

(* What the mapping says of the owned and the valid. *)
LEMMA StageTypes ==
  ASSUME AnyEnvInv, CalmInv
  PROVE  /\ {b \in Bookings : SaleStage[b] # "out"} = owned
         /\ \A b \in Bookings : SaleStage[b] = "sold" <=> b \in valid
BY ValidOwned DEF SaleStage, CalmInv, AnyEnvInv, TypeOK, AvailabilityTypeOK

(* TicketSale counts units as Availability does. *)
LEMMA SameUnits ==
  ASSUME NEW S
  PROVE  Sale!Cardinality(Sale!Units(S)) = Cardinality(Units(S))
<1>1. Sale!Units(S) = Units(S)
  BY DEF Sale!Units, Units
<1>2. QED BY <1>1, Zenon DEF Sale!Cardinality, Cardinality

(* A hold reserves units that are free. *)
LEMMA HoldReserves ==
  ASSUME AnyEnvInv, CalmInv, NEW r \in Bookings, rpc[r] = "hold", CheckAndHold(r),
         UNCHANGED <<issued, valid>>
  PROVE  Sale!Reserve(r)
<1>0. TypeOK /\ WorkOnExisting
  BY DEF AnyEnvInv
<1>1. Exists(r) /\ job[r] = "none" /\ r \notin owned /\ r \notin issued /\ r \notin valid
  BY <1>0 DEF WorkOnExisting, CalmInv, SalesInv, CreationInv, UntouchedInv, Untouched, TicketInv
<1>2. slotsCached
  BY <1>0, <1>1 DEF TypeOK, CalmInv, OnlyOpenIsBooked
<1>3. Qty[r] <= slots /\ owned' = owned \cup {r}
  BY DEF CheckAndHold, EnoughSlots
<1>4. Sale!Taking = owned
  BY StageTypes DEF Sale!Taking
<1>5. Sale!Cardinality(Sale!Units(Sale!Taking)) = Cardinality(Units(owned))
  BY <1>4, SameUnits
<1>6. Cardinality(Units(owned)) \in Nat /\ slots \in Int
  BY <1>0, UnitsFinite DEF TypeOK, AvailabilityTypeOK
<1>7. Cardinality(Units(owned)) + Qty[r] <= Capacity
  BY <1>2, <1>3, <1>6 DEF CalmInv, CounterInv, Ledger
<1>8. SaleStage[r] = "out" /\ SaleStage' = [SaleStage EXCEPT ![r] = "reserved"]
  <2>1. SaleStage[r] = "out"
    BY <1>1 DEF SaleStage
  <2>2. SaleStage' = [SaleStage EXCEPT ![r] = "reserved"]
    BY <1>1, <1>3 DEF SaleStage
  <2>3. QED BY <2>1, <2>2
<1>9. QED BY <1>5, <1>7, <1>8 DEF Sale!Reserve, Sale!Move

(* A release gives back what was reserved or withdrawn. *)
LEMMA ReleaseGivesBack ==
  ASSUME AnyEnvInv, CalmInv, NEW b \in Bookings, b \in owned, b \notin valid,
         ReleaseHold(b), UNCHANGED <<issued, valid>>
  PROVE  Sale!GiveBack(b)
<1>1. owned' = owned \ {b}
  BY DEF ReleaseHold
<1>2. SaleStage[b] \in {"reserved", "withdrawn"}
  BY DEF SaleStage
<1>3. SaleStage' = [SaleStage EXCEPT ![b] = "out"]
  BY <1>1 DEF SaleStage
<1>4. QED BY <1>2, <1>3 DEF Sale!GiveBack, Sale!Move

(* In the calm environment the service is a TicketSale: a hold reserves,    *)
(* the tickets of a confirmation sell, a cancellation withdraws, a release *)
(* gives back, and no other step moves a booking.                          *)
THEOREM SaleImplemented == ASSUME CalmEnv PROVE Spec => SaleSpec
<1>1. Init => Sale!Init
  BY DEF Init, AvailabilityInit, SaleStage, Sale!Init
<1>2. AnyEnvInv /\ CalmInv /\ [Next]_vars => [Sale!Next]_SaleStage
  <2> SUFFICES ASSUME AnyEnvInv, CalmInv, [Next]_vars PROVE [Sale!Next]_SaleStage
    OBVIOUS
  <2> USE DEF AnyEnvInv, TypeOK, AvailabilityTypeOK, mongoVars, redisVars, availabilityVars
  <2>1. ASSUME UNCHANGED <<owned, issued, valid>> PROVE SaleStage' = SaleStage
    BY <2>1 DEF SaleStage
  <2>2. ASSUME NEW r \in Bookings, HoldSlots(r)
        PROVE  Sale!Reserve(r) \/ SaleStage' = SaleStage
    BY <2>1, <2>2, HoldReserves DEF HoldSlots
  <2>3. ASSUME NEW b \in Bookings, ReleaseExpired(b) PROVE Sale!GiveBack(b)
    <3>1. b \in owned /\ b \notin valid
      BY <2>3 DEF ReleaseExpired, CalmInv, SalesInv, ReleaseInv, TicketInv
    <3>2. QED BY <2>3, <3>1, ReleaseGivesBack DEF ReleaseExpired
  <2>4. ASSUME NEW e \in Events, ReleaseFailed(e) PROVE Sale!GiveBack(e.booking)
    <3>1. e.booking \in owned /\ e.booking \notin valid
      BY <2>4 DEF ReleaseFailed, CalmInv, SalesInv, ReleaseInv, TicketInv
    <3>2. QED BY <2>4, <3>1, ReleaseGivesBack DEF ReleaseFailed
  <2>5. ASSUME NEW c \in Cancels, ReleaseCancelled(c) PROVE Sale!GiveBack(c.booking)
    <3>1. c.booking \in owned /\ c.booking \notin valid
      BY <2>5 DEF ReleaseCancelled, CalmInv, SalesInv, ReleaseInv, TicketInv
    <3>2. QED BY <2>5, <3>1, ReleaseGivesBack DEF ReleaseCancelled
  <2>6. ASSUME NEW e \in Events, WriteTickets(e) PROVE Sale!Sell(e.booking)
    <3>1. "tickets" \in todo[e]
      BY <2>6 DEF WriteTickets, Landed
    <3>2. status[e.booking] \in {"PENDING", "CONFIRMED"} /\ e.booking \notin issued
      BY <3>1 DEF CalmInv, SalesInv, WriterInv
    <3>3. /\ issued' = issued \cup {e.booking} /\ valid' = valid \cup {e.booking}
          /\ owned' = owned
      BY <2>6, <3>2 DEF WriteTickets
    <3>4. hpc[e] # "idle" /\ e.booking \notin valid
      BY <3>1, <3>2 DEF CalmInv, SalesInv, WriterInv, TicketInv
    <3>5. e.booking \in owned
      BY <3>2, <3>4 DEF CalmInv, SalesInv, CreationInv, UntouchedInv, Untouched, OwnershipInv
    <3>6. /\ SaleStage[e.booking] = "reserved"
          /\ SaleStage' = [SaleStage EXCEPT ![e.booking] = "sold"]
      BY <3>2, <3>3, <3>4, <3>5 DEF SaleStage
    <3>7. QED BY <3>6 DEF Sale!Sell, Sale!Move
  <2>7. ASSUME NEW c \in Cancels, CommitCancel(c) PROVE Sale!Withdraw(c.booking)
    <3>1. valid' = valid \ {c.booking} /\ UNCHANGED <<owned, issued>>
      BY <2>7 DEF CommitCancel
    <3>2. status[c.booking] = "CONFIRMED" /\ Quiet(c.booking)
      BY <2>7 DEF CommitCancel, CalmInv, SalesInv, ReleaseInv
    <3>3. c.booking \in valid /\ c.booking \in issued /\ c.booking \in owned
      BY <3>2, ValidOwned DEF CalmInv, SalesInv, TicketInv
    <3>4. /\ SaleStage[c.booking] = "sold"
          /\ SaleStage' = [SaleStage EXCEPT ![c.booking] = "withdrawn"]
      BY <3>1, <3>3 DEF SaleStage
    <3>5. QED BY <3>4 DEF Sale!Withdraw, Sale!Move
  <2>8. \/ UNCHANGED <<owned, issued, valid>>
        \/ \E r \in Bookings : HoldSlots(r) \/ ReleaseExpired(r)
        \/ \E e \in Events : ReleaseFailed(e) \/ WriteTickets(e)
        \/ \E c \in Cancels : ReleaseCancelled(c) \/ CommitCancel(c)
    <3>1. CASE RequestNext
      BY <3>1 DEF RequestNext, RequestStep, CheckIdempotency, LockCreation, FindExisting,
         GetEvent, CountSlots, ReadAvailable, RefillSlots, SetEventSlots, CreateDocument,
         CacheIdempotency, EnqueueExpiry, UnlockCreation, RequestFails, RequestDies
    <3>2. CASE HandlerNext \/ \E e \in Events : PaymentEvent(e)
      BY <3>2 DEF HandlerNext, HandlerStep, PaymentEvent, AcquireWebhookLock,
         ReadForConfirm, WriteStatus, WriteCounter, CommitConfirm, FailDocument,
         UnlockWebhook, HandlerFails, HandlerDies, ConfirmFails
    <3>3. CASE JobNext \/ CancelNext
      BY <3>3 DEF JobNext, JobStep, ExpireDocument, JobFails, WorkerDies, CancelNext,
         CancelStep, FindForCancel, CancelFails, CancelDies
    <3>4. CASE RedisNext \/ UNCHANGED vars
      BY <3>4 DEF RedisNext, LockTimeout, HoldTimeout, HoldExpires, SlotsEvicted,
         SlotsLost, DeleteEventSlots, EventDatePasses, vars
    <3>5. QED BY <3>1, <3>2, <3>3, <3>4 DEF ServiceNext, Next
  <2>9. QED
    BY <2>1, <2>2, <2>3, <2>4, <2>5, <2>6, <2>7, <2>8 DEF Sale!Next
<1>3. QED
  BY <1>1, <1>2, AnyEnvInvariant, CalmInvariant, PTL DEF Spec, SaleSpec, Sale!Spec
================================================================================
