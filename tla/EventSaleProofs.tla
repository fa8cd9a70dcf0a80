---------------------------- MODULE EventSaleProofs ----------------------------
(***************************************************************************)
(* Proofs about EventAdmin and units.  In an orderly environment no        *)
(* administration takes units from their owners.  With faults and crashes  *)
(* only, an event is sold once from its publication to its end.            *)
(***************************************************************************)
EXTENDS EventAdminProofs, BookingCalmProofs

------------------------------------------------------------------------------
(* In an orderly environment *)

(* The administration touches nothing that SalesInv speaks of. *)
THEOREM AdministeredSales ==
  ASSUME OrderlyEnv
  PROVE  AdminSpec => []SalesInv
<1>1. AdminInit => SalesInv
  BY SalesInit DEF AdminInit
<1>2. TypeOK /\ EngineParts /\ SalesInv /\ [AdminNext]_eventVars => SalesInv'
  <2>1. SalesInv /\ UNCHANGED <<status, job, rpc, reply, hpc, todo, cpc, locks, owned, issued,
                               valid>>
          => SalesInv'
    BY DEF SalesInv, UntouchedInv, CreationInv, Untouched, LockInv, HoldsWebhookLock,
       WriterInv, TicketInv, Quiet, ReleaseInv, OwnershipInv, Exists
  <2>2. QED BY <2>1, StepKeepsSales, AdminOrBooking
<1>3. QED BY <1>1, <1>2, EngineInvariant, PTL DEF AdminSpec

(* Nobody gives away the units of an open or sold booking, whatever is done  *)
(* to the event: published again, resized, cancelled or removed, by several *)
(* administrators at once, with a counter that is set back or lost.        *)
THEOREM AdministeredSoldStaysHeld ==
  ASSUME OrderlyEnv
  PROVE  AdminSpec => []SoldIsHeld
<1>1. TypeOK /\ EngineParts /\ SalesInv => SoldIsHeld
  BY SalesHeld
<1>2. QED BY <1>1, EngineInvariant, AdministeredSales, PTL

(* Where no confirmation is overtaken a cancelled booking stays cancelled    *)
(* under any administration of its event.                                  *)
THEOREM AdministeredCancellationIsFinal ==
  ASSUME OrderlyEnv
  PROVE  AdminSpec => CancelledForGood
<1>1. TypeOK /\ SalesInv /\ [AdminNext]_eventVars =>
        [\A b \in Bookings : status[b] = "CANCELLED" => status'[b] = "CANCELLED"]_vars
  BY SalesCancelledStep, AdminOrBooking
<1>2. QED BY <1>1, EngineInvariant, AdministeredSales, PTL DEF AdminSpec, CancelledForGood

------------------------------------------------------------------------------
(* In the calm environment *)

(* What a call that is under way finds: nobody else changes the status. *)
AtWork ==
  \A a \in Admins :
    /\ apc[a] = "save" => event = From(a)
    /\ apc[a] \in {"setSlots", "setMeta"} => event = "published"
    /\ apc[a] = "setSlots" => a.op = "publish"
    /\ apc[a] \in {"delSlots", "delMeta"} => event # "published" /\ a.op # "publish"

(* Nobody has asked for anything yet. *)
Untaken ==
  /\ \A r \in Bookings :
       rpc[r] = "start" /\ status[r] = "absent" /\ job[r] = "none" /\ reply[r] = 0
  /\ \A e \in Events : hpc[e] = "idle" /\ todo[e] = {}
  /\ \A c \in Cancels : cpc[c] \in {"idle", "refused"}
  /\ owned = {} /\ issued = {} /\ valid = {} /\ priced = {}

(* Between publication a and the end of the event. *)
OnSale(a) == /\ meta = "open"
             /\ ControlInv
             /\ SlotsNonNegative
             /\ slots + Cardinality(Units(owned)) = sized[a]

Published(a) == a.op = "publish" /\ apc[a] = "done"

(* The event is published once, untouched by customers until then. *)
OncePublished ==
  /\ Answered("publish") => event # "draft"
  /\ ~Answered("publish") => Untaken
  /\ \A a \in Admins :
       /\ a.op = "publish" /\ apc[a] \in {"setSlots", "setMeta"} => ~Answered("publish")
       /\ a.op = "publish" /\ apc[a] = "setMeta" => slotsCached /\ slots = sized[a]
       /\ Published(a) /\ event = "published" => OnSale(a)

(* Inductive in the calm environment, beside MetaInv and EngineParts. *)
SaleInv == AtWork /\ (Unedited => OncePublished)

(* The variables ControlInv speaks of, but for event. *)
controlVars == <<status, job, rpc, reply, meta, priced, owned, issued, valid, available,
                 slotsCached, locks, count, hpc, todo, cpc>>

(* One call at a time keeps what each of them found. *)
LEMMA AdminKeepsWork ==
  ASSUME "overlap" \notin Env, AdminTypeOK, OneAdmin, AtWork,
         NEW a \in Admins, AdminStep(a)
  PROVE  AtWork'
<1> USE DEF AdminTypeOK, AdminGoto, From, Into
<1>1. \A b \in Admins : b # a => apc[b] \notin InProgress /\ apc'[b] = apc[b]
  BY AdminStaysAlone, AdminMoves
<1>2. \A b \in Admins : b # a =>
        apc'[b] \notin {"save", "setSlots", "setMeta", "delSlots", "delMeta"}
  BY <1>1 DEF InProgress
<1> DEFINE Work == /\ apc'[a] = "save" => event' = From(a)
                   /\ apc'[a] \in {"setSlots", "setMeta"} => event' = "published"
                   /\ apc'[a] = "setSlots" => a.op = "publish"
                   /\ apc'[a] \in {"delSlots", "delMeta"} =>
                        event' # "published" /\ a.op # "publish"
<1>3. CASE CreateEvent(a) \/ AdminBreaks(a)
  <2>1. apc'[a] \in {"done", "broken"}
    BY <1>3 DEF CreateEvent, AdminBreaks
  <2>2. Work
    BY <2>1
  <2>3. QED BY <1>2, <2>2 DEF AtWork
<1>4. CASE FindEvent(a)
  <2>1. CASE Transits(a)
    BY <1>2, <1>4, <2>1 DEF FindEvent, Transits, AtWork
  <2>2. CASE ~Transits(a)
    BY <1>2, <1>4, <2>2 DEF FindEvent, AtWork
  <2>3. QED BY <2>1, <2>2
<1>5. CASE SaveStatus(a)
  <2>1. a.op \in {"publish", "cancel"}
    BY <1>5 DEF SaveStatus, OneAdmin
  <2>2. Work
    BY <1>5, <2>1 DEF SaveStatus
  <2>3. QED BY <1>2, <2>2 DEF AtWork
<1>6. CASE PutSlots(a) \/ PutMeta(a)
  <2>1. Work
    BY <1>6 DEF PutSlots, PutMeta, AtWork, mongoVars
  <2>2. QED BY <1>2, <2>1 DEF AtWork
<1>7. CASE DropSlots(a) \/ DropMeta(a)
  <2>1. Work
    BY <1>7 DEF DropSlots, DropMeta, AtWork, mongoVars
  <2>2. QED BY <1>2, <2>1 DEF AtWork
<1>8. CASE DeleteDocument(a)
  <2>1. Work
    BY <1>8 DEF DeleteDocument, Called
  <2>2. QED BY <1>2, <2>1 DEF AtWork
<1>9. CASE UpdateDocument(a)
  <2>1. Work
    BY <1>9 DEF UpdateDocument, Refreshed, Called
  <2>2. QED BY <1>2, <2>1 DEF AtWork
<1>10. QED
  BY <1>3, <1>4, <1>5, <1>6, <1>7, <1>8, <1>9 DEF AdminStep

(* Without a request nothing in Booking moves but Redis's own expiries. *)
LEMMA UntakenStays ==
  ASSUME CalmEnv, TypeOK, Untaken, [Next]_vars,
         \A r \in Bookings : rpc[r] = "start" => rpc'[r] = "start"
  PROVE  Untaken' /\ UNCHANGED <<slots, slotsCached, meta, event>>
<1> USE DEF Untaken
<1>1. \A r \in Bookings : ~(RequestStep(r) \/ RequestFails(r) \/ RequestDies(r))
  <2> SUFFICES ASSUME NEW r \in Bookings, RequestStep(r) \/ RequestFails(r) \/ RequestDies(r)
               PROVE  FALSE
    OBVIOUS
  <2>1. CASE CheckIdempotency(r)
    <3>1. rpc'[r] \in {"done", "lock"}
      BY <2>1 DEF CheckIdempotency, Goto, TypeOK
    <3>2. QED BY <3>1
  <2>2. CASE RequestFails(r)
    <3>1. rpc'[r] \in {"unlock", "done"}
      BY <2>2 DEF RequestFails, Goto, TypeOK
    <3>2. QED BY <3>1
  <2>3. CASE RequestDies(r)
    BY <2>3 DEF RequestDies, InTry
  <2>4. CASE RequestStep(r) /\ ~CheckIdempotency(r)
    BY <2>4 DEF RequestStep, LockCreation, FindExisting, GetEvent, CountSlots, ReadAvailable,
       RefillSlots, CreateDocument, HoldSlots, CacheIdempotency, EnqueueExpiry,
       UnlockCreation
  <2>5. QED BY <2>1, <2>2, <2>3, <2>4
<1>2. ~HandlerNext /\ \A e \in Events : ~PaymentEvent(e)
  BY EventsAssumption DEF HandlerNext, HandlerStep, PaymentEvent, AcquireWebhookLock,
     ReadForConfirm, WriteTickets, WriteStatus, WriteCounter, CommitConfirm, FailDocument,
     ReleaseFailed, UnlockWebhook, HandlerFails, HandlerDies, ConfirmFails, Landed
<1>3. ~JobNext
  BY DEF JobNext, JobStep, ExpireDocument, ReleaseExpired, JobFails, WorkerDies
<1>4. ASSUME NEW c \in Cancels,
             FindForCancel(c) \/ CancelStep(c) \/ CancelFails(c) \/ CancelDies(c)
      PROVE  Untaken' /\ UNCHANGED <<slots, slotsCached, meta, event>>
  <2>1. FindForCancel(c) /\ ~Cancellable(c)
    BY <1>4, CancelsAssumption DEF CancelStep, CommitCancel, ReleaseCancelled, CancelFails,
       CancelDies, Cancellable
  <2>2. /\ cpc' = [cpc EXCEPT ![c] = "refused"]
        /\ UNCHANGED <<redisVars, mongoVars, job, requestVars, handlerVars>>
    BY <2>1 DEF FindForCancel, CancelGoto
  <2>3. QED BY <2>2 DEF redisVars, mongoVars, requestVars, handlerVars, TypeOK
<1>5. CASE RedisNext
  <2>1. UNCHANGED <<slots, slotsCached, owned, meta, mongoVars, job, requestVars,
                    handlerVars, cpc>>
    BY <1>5 DEF RedisNext, LockTimeout, HoldTimeout, HoldExpires, SlotsEvicted,
       EventDatePasses, CalmEnv, availabilityVars
  <2>2. QED BY <2>1 DEF mongoVars, requestVars, handlerVars
<1>6. CASE UNCHANGED vars
  BY <1>6 DEF vars, redisVars, mongoVars, requestVars, handlerVars
<1>7. QED BY <1>1, <1>2, <1>3, <1>4, <1>5, <1>6 DEF Next, ServiceNext, RequestNext, CancelNext

(* Holds and releases move units between the counter and the bookings. *)
LEMMA StepKeepsSum ==
  ASSUME CalmEnv, AnyEnvInv, ControlInv, meta = "open", [Next]_vars
  PROVE  slots' + Cardinality(Units(owned')) = slots + Cardinality(Units(owned))
<1> USE DEF AnyEnvInv, redisVars, availabilityVars
<1>0. owned \subseteq Bookings /\ slots \in Int
  BY DEF TypeOK, AvailabilityTypeOK
<1>1. ASSUME NEW r \in Bookings, HoldSlots(r)
      PROVE  slots' + Cardinality(Units(owned')) = slots + Cardinality(Units(owned))
  <2>1. rpc[r] = "hold"
    BY <1>1 DEF HoldSlots
  <2>2. r \notin owned
    BY <2>1 DEF ControlInv, SalesInv, CreationInv
  <2>3. CASE CheckAndHold(r)
    <3>1. slots' = slots - Qty[r] /\ owned' = owned \cup {r}
      BY <2>3 DEF CheckAndHold
    <3>2. /\ Cardinality(Units(owned)) \in Nat
          /\ Cardinality(Units(owned \cup {r})) = Cardinality(Units(owned)) + Qty[r]
      BY <1>0, <2>2, UnitsFinite, UnitsOfAdded
    <3>3. Cardinality(Units(owned')) = Cardinality(Units(owned)) + Qty[r]
      BY <3>1, <3>2
    <3>4. QED BY <1>0, <3>1, <3>2, <3>3, QtyAssumption
  <2>4. CASE UNCHANGED availabilityVars BY <2>4
  <2>5. QED BY <1>1, <2>3, <2>4 DEF HoldSlots
<1>2. ASSUME NEW b \in Bookings, b \in owned, ReleaseHold(b)
      PROVE  slots' + Cardinality(Units(owned')) = slots + Cardinality(Units(owned))
  <2>1. slots' = slots + Qty[b] /\ owned' = owned \ {b}
    BY <1>2 DEF ReleaseHold
  <2>2. /\ Cardinality(Units(owned \ {b})) \in Nat
        /\ Cardinality(Units(owned)) = Cardinality(Units(owned \ {b})) + Qty[b]
    BY <1>0, <1>2, UnitsFinite, UnitsOfRemoved
  <2>3. Cardinality(Units(owned')) = Cardinality(Units(owned \ {b}))
    BY <2>1
  <2>4. QED BY <1>0, <2>1, <2>2, <2>3, QtyAssumption
<1>3. ASSUME NEW b \in Bookings, ReleaseExpired(b)
      PROVE  b \in owned /\ ReleaseHold(b)
  BY <1>3 DEF ReleaseExpired, ControlInv, SalesInv, ReleaseInv
<1>4. ASSUME NEW e \in Events, ReleaseFailed(e)
      PROVE  e.booking \in owned /\ ReleaseHold(e.booking)
  BY <1>4 DEF ReleaseFailed, ControlInv, SalesInv, ReleaseInv
<1>5. ASSUME NEW c \in Cancels, ReleaseCancelled(c)
      PROVE  c.booking \in owned /\ ReleaseHold(c.booking)
  BY <1>5 DEF ReleaseCancelled, ControlInv, SalesInv, ReleaseInv
<1>6. \A r \in Bookings : ~RefillSlots(r)
  BY DEF RefillSlots, ControlInv, OnlyOpenIsBooked
<1>7. \/ UNCHANGED <<slots, owned>>
      \/ \E r \in Bookings : HoldSlots(r) \/ RefillSlots(r) \/ ReleaseExpired(r)
      \/ \E e \in Events : ReleaseFailed(e)
      \/ \E c \in Cancels : ReleaseCancelled(c)
  <2>1. CASE RequestNext
    BY <2>1 DEF RequestNext, RequestStep, CheckIdempotency, LockCreation, FindExisting,
       GetEvent, CountSlots, ReadAvailable, CreateDocument, CacheIdempotency,
       EnqueueExpiry, UnlockCreation, RequestFails, RequestDies
  <2>2. CASE HandlerNext \/ \E e \in Events : PaymentEvent(e)
    BY <2>2 DEF HandlerNext, HandlerStep, PaymentEvent, AcquireWebhookLock,
       ReadForConfirm, WriteTickets, WriteStatus, WriteCounter, CommitConfirm,
       FailDocument, UnlockWebhook, HandlerFails, HandlerDies, ConfirmFails
  <2>3. CASE JobNext \/ CancelNext
    BY <2>3 DEF JobNext, JobStep, ExpireDocument, JobFails, WorkerDies, CancelNext,
       CancelStep, FindForCancel, CommitCancel, CancelFails, CancelDies
  <2>4. CASE RedisNext \/ UNCHANGED vars
    BY <2>4 DEF RedisNext, LockTimeout, HoldTimeout, HoldExpires, SlotsEvicted,
       EventDatePasses, CalmEnv, vars
  <2>5. QED BY <2>1, <2>2, <2>3, <2>4 DEF ServiceNext, Next
<1>8. CASE UNCHANGED <<slots, owned>> BY <1>8
<1>9. QED
  BY <1>1, <1>2, <1>3, <1>4, <1>5, <1>6, <1>7, <1>8, EventsAssumption, CancelsAssumption

(* A step of the booking service, while the event is on sale. *)
LEMMA BookingKeepsSale ==
  ASSUME CalmEnv, TypeOK, AdminTypeOK, EngineParts, NEW a \in Admins, OnSale(a),
         [Next]_vars, UNCHANGED adminVars
  PROVE  OnSale(a)'
<1>1. AnyEnvInv
  BY DEF OnSale, EngineParts, AnyEnvInv, UnpublishedHasNoPrice
<1>2. ControlInv'
  BY <1>1, StepKeepsControl DEF OnSale
<1>3. meta' = "open"
  BY StepStores, DateAhead DEF OnSale, EngineParts
<1>4. slots' + Cardinality(Units(owned')) = slots + Cardinality(Units(owned))
  BY <1>1, StepKeepsSum DEF OnSale
<1>5. sized' = sized
  BY DEF adminVars
<1>6. SlotsNonNegative'
  BY SlotsStayUp DEF OnSale, ControlInv
<1>7. QED BY <1>2, <1>3, <1>4, <1>5, <1>6 DEF OnSale

(* A step of the administration that neither publishes nor closes. *)
LEMMA AdminKeepsSale ==
  ASSUME AdminTypeOK, OneAdmin, AtWork, NEW a \in Admins, OnSale(a), Published(a),
         event = "published", NEW b \in Admins, AdminStep(b), event' = "published",
         \A c \in Admins : c.op = "publish" => apc[c] \notin {"setSlots", "setMeta"}
  PROVE  OnSale(a)'
<1>1. b # a /\ sized'[a] = sized[a]
  <2>1. b # a
    BY AdminMoves DEF Published, InProgress
  <2>2. sized' = sized \/ \E n : sized' = [sized EXCEPT ![b] = n]
    BY DEF AdminStep, CreateEvent, FindEvent, SaveStatus, PutSlots, PutMeta, DropSlots,
       DropMeta, DeleteDocument, UpdateDocument, AdminBreaks
  <2>3. QED BY <2>1, <2>2 DEF AdminTypeOK
<1>2. ~PutSlots(b) /\ ~DropSlots(b) /\ ~DropMeta(b)
  BY DEF AtWork, PutSlots, DropSlots, DropMeta
<1>3. /\ UNCHANGED <<slots, slotsCached, elsewhere>>
      /\ meta' \in {meta, "open"}
  BY <1>2 DEF AdminStep, CreateEvent, FindEvent, SaveStatus, PutMeta, DeleteDocument,
     UpdateDocument, AdminBreaks
<1>4. UNCHANGED <<controlVars, slots>> /\ event' = event
  BY <1>3 DEF OnSale, elsewhere, controlVars, requestVars, handlerVars
<1>5. ControlInv'
  BY <1>4 DEF OnSale, controlVars, ControlInv, OnlyOpenIsBooked, SalesInv, CreationInv,
     UntouchedInv, Untouched, LockInv, HoldsWebhookLock, WriterInv, TicketInv, Quiet,
     ReleaseInv, OwnershipInv, Exists
<1>6. QED BY <1>1, <1>4, <1>5 DEF OnSale, controlVars, SlotsNonNegative

(* With nothing booked, a counter and a hash are all a sale needs. *)
LEMMA SaleOpens ==
  ASSUME AdminTypeOK, OneAdmin, AtWork, Untaken, NEW a \in Admins, a.op = "publish",
         PutMeta(a), slotsCached, slots = sized[a], TypeOK
  PROVE  OnSale(a)'
<1> USE DEF Untaken
<1>1. /\ meta' = "open" /\ event' = "published"
      /\ UNCHANGED <<status, job, rpc, reply, priced, owned, issued, valid, available,
                     slots, slotsCached, locks, count, hpc, todo, cpc, sized>>
  BY DEF PutMeta, AtWork, elsewhere, requestVars, handlerVars
<1>2. OnlyOpenIsBooked'
  BY <1>1 DEF OnlyOpenIsBooked
<1>3. CreationInv' /\ OwnershipInv'
  BY <1>1 DEF CreationInv, UntouchedInv, Untouched, Exists, OwnershipInv
<1>4. LockInv' /\ WriterInv'
  BY <1>1 DEF LockInv, HoldsWebhookLock, WriterInv
<1>5. TicketInv' /\ ReleaseInv'
  BY <1>1 DEF TicketInv, ReleaseInv
<1>6. slots' + Cardinality(Units(owned')) = sized'[a]
  <2>1. owned' = {} /\ slots' \in Int /\ slots' = sized'[a]
    BY <1>1 DEF TypeOK, AvailabilityTypeOK
  <2>2. QED BY <2>1, UnitsOfNone
<1>7. SlotsNonNegative'
  BY <1>1 DEF SlotsNonNegative, AdminTypeOK
<1>8. QED BY <1>1, <1>2, <1>3, <1>4, <1>5, <1>6, <1>7 DEF OnSale, ControlInv, SalesInv

(* A step of the administration opens the sale once and does not touch it   *)
(* after that.                                                             *)
LEMMA AdminKeepsOnce ==
  ASSUME "overlap" \notin Env, TypeOK, AdminTypeOK, OneAdmin, SaleInv,
         NEW b \in Admins, AdminStep(b), Unedited'
  PROVE  OncePublished'
<1>1. /\ OneAdmin' /\ \A a \in Admins : a # b => apc[a] \notin InProgress
      /\ \A a \in Admins : a # b => apc'[a] = apc[a]
      /\ apc[b] \in InProgress \cup {"idle"} /\ apc'[b] # "idle"
  BY AdminStaysAlone, AdminMoves
<1>2. AtWork /\ AtWork' /\ OncePublished
  <2>1. Unedited
    BY <1>1 DEF Unedited
  <2>2. QED BY <2>1, AdminKeepsWork DEF SaleInv
<1>3. Untaken => Untaken'
  <2>1. UNCHANGED <<owned, issued, valid>>
    BY DEF AdminStep, CreateEvent, FindEvent, SaveStatus, PutSlots, PutMeta, DropSlots,
       DropMeta, DeleteDocument, UpdateDocument, AdminBreaks, elsewhere, mongoVars,
       SetEventSlots, DeleteEventSlots
  <2>2. QED BY <2>1, AdminLeavesBookings DEF Untaken
<1>4. /\ Answered("publish") => Answered("publish")'
      /\ Answered("publish")' => Answered("publish") \/ Published(b)'
  BY <1>1 DEF Answered, Published, InProgress
<1>5. b.op = "update" /\ apc[b] = "idle" => b.to = "same"
  BY <1>1 DEF Unedited
<1>6. Published(b)' => PutMeta(b)
  BY <1>2 DEF Published, AtWork, AdminTypeOK, AdminStep, CreateEvent, FindEvent, SaveStatus,
     PutSlots, DropSlots, DropMeta, DeleteDocument, UpdateDocument, AdminBreaks, AdminGoto,
     Called, Refreshed, InProgress
<1>7. /\ Answered("publish") => ~CreateEvent(b)
      /\ event' = "draft" => event = "draft" \/ CreateEvent(b)
      /\ event' = "published" => \/ event = "published"
                                 \/ event = "draft" /\ SaveStatus(b) /\ b.op = "publish"
  <2>1. Answered("publish") => ~CreateEvent(b)
    BY DEF Answered, CreateEvent
  <2>2. CASE SaveStatus(b)
    BY <1>2, <2>1, <2>2 DEF SaveStatus, Into, From, AtWork
  <2>3. CASE UpdateDocument(b)
    BY <1>5, <2>1, <2>3 DEF UpdateDocument, Called
  <2>4. CASE CreateEvent(b)
    BY <2>1, <2>4 DEF CreateEvent
  <2>5. CASE ~(SaveStatus(b) \/ UpdateDocument(b) \/ CreateEvent(b))
    BY <2>1, <2>5 DEF AdminStep, FindEvent, PutSlots, PutMeta, DropSlots, DropMeta,
       DeleteDocument, AdminBreaks, mongoVars
  <2>6. QED BY <2>2, <2>3, <2>4, <2>5
<1>8. Answered("publish")' => event' # "draft"
  <2>1. CASE Answered("publish")
    BY <1>2, <1>7, <2>1 DEF OncePublished
  <2>2. CASE PutMeta(b) /\ b.op = "publish"
    BY <1>2, <2>2 DEF PutMeta, AtWork
  <2>3. QED BY <1>4, <1>6, <2>1, <2>2 DEF Published
<1>9. ~Answered("publish")' => Untaken'
  BY <1>2, <1>3, <1>4 DEF OncePublished
<1>10. ASSUME NEW a \in Admins, a.op = "publish", apc'[a] \in {"setSlots", "setMeta"}
       PROVE  /\ ~Answered("publish")'
              /\ apc'[a] = "setMeta" => slotsCached' /\ slots' = sized'[a]
  <2>1. a = b
    BY <1>1, <1>10 DEF InProgress
  <2>2. SaveStatus(b) \/ PutSlots(b)
    BY <1>10, <2>1 DEF AdminTypeOK, AdminStep, CreateEvent, FindEvent, PutMeta, DropSlots,
       DropMeta, DeleteDocument, UpdateDocument, AdminBreaks, AdminGoto, Called
  <2>3. ~Answered("publish")
    <3>1. CASE SaveStatus(b)
      BY <1>2, <1>10, <2>1, <3>1 DEF SaveStatus, AtWork, From, OncePublished
    <3>2. CASE PutSlots(b)
      BY <1>2, <1>10, <2>1, <3>2 DEF PutSlots, OncePublished
    <3>3. QED BY <2>2, <3>1, <3>2
  <2>4. ~Published(b)'
    BY <1>10, <2>1 DEF Published
  <2>5. apc'[b] = "setMeta" => slotsCached' /\ slots' = sized'[b]
    BY <2>2 DEF SaveStatus, PutSlots, AdminGoto, AdminTypeOK, SetEventSlots
  <2>6. QED BY <1>4, <2>1, <2>3, <2>4, <2>5
<1>11. ASSUME NEW a \in Admins, Published(a)', event' = "published"
       PROVE  OnSale(a)'
  <2>1. CASE a = b
    <3>1. PutMeta(b) /\ b.op = "publish" /\ apc[b] = "setMeta"
      BY <1>6, <1>11, <2>1 DEF Published, PutMeta
    <3>2. Untaken /\ slotsCached /\ slots = sized[b]
      BY <1>2, <3>1 DEF OncePublished
    <3>3. QED BY <1>2, <2>1, <3>1, <3>2, SaleOpens
  <2>2. CASE a # b
    <3>1. Published(a)
      BY <1>1, <1>11, <2>2 DEF Published
    <3>2. Answered("publish")
      BY <3>1 DEF Published, Answered
    <3>3. event = "published"
      BY <1>2, <1>7, <1>11, <3>2 DEF OncePublished
    <3>4. OnSale(a) /\ \A c \in Admins : c.op = "publish" => apc[c] \notin {"setSlots", "setMeta"}
      BY <1>2, <3>1, <3>2, <3>3 DEF OncePublished
    <3>5. QED BY <1>2, <1>11, <3>1, <3>3, <3>4, AdminKeepsSale
  <2>3. QED BY <2>1, <2>2
<1>12. QED
  BY <1>8, <1>9, <1>10, <1>11 DEF OncePublished

(* Customers move units between the counter and their bookings, and only    *)
(* after the publication.                                                  *)
LEMMA BookingKeepsOnce ==
  ASSUME CalmEnv, "early" \notin Env, TypeOK, AdminTypeOK, EngineParts, OncePublished,
         BookingStep
  PROVE  OncePublished'
<1> DEFINE asked == {r \in Bookings : rpc[r] = "start" /\ rpc'[r] # "start"}
<1>1. /\ [Next]_vars
      /\ asked # {} => Answered("publish")
      /\ UNCHANGED adminVars
  BY DEF BookingStep
<1>2. event' = event
  BY <1>1, StepStores, DateAhead DEF EngineParts
<1>3. UNCHANGED <<apc, sized>> /\ (Answered("publish")' <=> Answered("publish"))
  BY <1>1 DEF Answered, adminVars
<1>4. CASE ~Answered("publish")
  <2>1. \A r \in Bookings : rpc[r] = "start" => rpc'[r] = "start"
    BY <1>1, <1>4
  <2>2. Untaken
    BY <1>4 DEF OncePublished
  <2>3. Untaken' /\ UNCHANGED <<slots, slotsCached, meta, event>>
    BY <1>1, <2>1, <2>2, UntakenStays
  <2>4. \A a \in Admins : ~Published(a)'
    BY <1>3, <1>4 DEF Published, Answered
  <2>5. QED BY <1>3, <1>4, <2>3, <2>4 DEF OncePublished
<1>5. CASE Answered("publish")
  <2>1. ASSUME NEW a \in Admins, Published(a)', event' = "published"
        PROVE  OnSale(a)'
    <3>1. OnSale(a)
      BY <1>2, <1>3, <2>1 DEF Published, OncePublished
    <3>2. QED BY <1>1, <3>1, BookingKeepsSale
  <2>2. \A a \in Admins : a.op = "publish" => apc'[a] \notin {"setSlots", "setMeta"}
    BY <1>3, <1>5 DEF OncePublished
  <2>3. QED BY <1>2, <1>3, <1>5, <2>1, <2>2 DEF OncePublished
<1>6. QED BY <1>4, <1>5

(* The invariant of a sale: whoever administers, from the publication on     *)
(* counter, bookings and tickets are those of the calm environment.        *)
THEOREM SaleInvariant ==
  ASSUME CalmEnv, "early" \notin Env, "overlap" \notin Env
  PROVE  AdminSpec => []SaleInv
<1>1. AdminInit => SaleInv
  <2> SUFFICES ASSUME AdminInit PROVE AtWork /\ OncePublished
    BY DEF SaleInv
  <2>1. \A a \in Admins : apc[a] = "idle"
    BY DEF AdminInit
  <2>2. AtWork /\ ~Answered("publish") /\ \A a \in Admins : ~Published(a)
    BY <2>1 DEF AtWork, Answered, Published
  <2>3. Untaken
    BY DEF AdminInit, Init, AvailabilityInit, Untaken
  <2>4. QED BY <2>1, <2>2, <2>3 DEF OncePublished
<1>2. TypeOK /\ AdminTypeOK /\ EngineParts /\ MetaInv /\ SaleInv
        /\ [AdminNext]_eventVars => SaleInv'
  <2> SUFFICES ASSUME TypeOK, AdminTypeOK, EngineParts, MetaInv, SaleInv,
                      [AdminNext]_eventVars
               PROVE  SaleInv'
    OBVIOUS
  <2>1. OneAdmin BY DEF MetaInv
  <2>2. CASE BookingStep
    <3>1. UNCHANGED adminVars /\ [Next]_vars
      BY <2>2 DEF BookingStep
    <3>2. event' = event
      BY <3>1, StepStores, DateAhead DEF EngineParts
    <3>3. AtWork' /\ (Unedited' <=> Unedited)
      BY <3>1, <3>2 DEF SaleInv, AtWork, Unedited, adminVars, From
    <3>4. QED BY <2>2, <3>3, BookingKeepsOnce DEF SaleInv
  <2>3. ASSUME NEW a \in Admins, AdminStep(a)
        PROVE  SaleInv'
    <3>1. AtWork'
      BY <2>1, <2>3, AdminKeepsWork DEF SaleInv
    <3>2. Unedited' => OncePublished'
      BY <2>1, <2>3, AdminKeepsOnce
    <3>3. QED BY <3>1, <3>2 DEF SaleInv
  <2>4. CASE UNCHANGED eventVars
    <3>1. AtWork' /\ (Unedited' <=> Unedited)
      BY <2>4 DEF SaleInv, AtWork, Unedited, eventVars, adminVars, vars, mongoVars, From
    <3>2. ASSUME OncePublished PROVE OncePublished'
      <4>1. UNCHANGED <<controlVars, slots, event, apc, sized>>
        BY <2>4 DEF eventVars, adminVars, vars, redisVars, mongoVars, requestVars,
           handlerVars, availabilityVars, controlVars
      <4>2. (Untaken' <=> Untaken) /\ (Answered("publish")' <=> Answered("publish"))
        BY <4>1 DEF controlVars, Untaken, Answered
      <4>3. \A a \in Admins : OnSale(a) => OnSale(a)'
        BY <4>1 DEF OnSale, SlotsNonNegative, controlVars, ControlInv, OnlyOpenIsBooked, SalesInv,
           CreationInv, UntouchedInv, Untouched, LockInv, HoldsWebhookLock, WriterInv,
           TicketInv, Quiet, ReleaseInv, OwnershipInv, Exists
      <4>4. QED BY <3>2, <4>1, <4>2, <4>3 DEF OncePublished, Published, controlVars
    <3>3. QED BY <3>1, <3>2 DEF SaleInv
  <2>5. QED BY <2>2, <2>3, <2>4 DEF AdminNext
<1>3. QED BY <1>1, <1>2, EngineInvariant, MetaInvariant, PTL DEF AdminSpec

(* What is published is sold once: while the event is published, every unit *)
(* it was published with is in the counter or with one booking, for any    *)
(* number of bookings and of calls of the administration                   *)
(* (event.service.ts:232-248).                                             *)
THEOREM PublishedLedgerKept ==
  ASSUME CalmEnv, "early" \notin Env, "overlap" \notin Env
  PROVE  AdminSpec => []PublishedLedger
<1>1. SaleInv => PublishedLedger
  BY DEF SaleInv, OncePublished, Published, OnSale, PublishedLedger
<1>2. QED BY <1>1, SaleInvariant, PTL

(* And what is published is not sold over: the tickets that are valid fit in  *)
(* the capacity of the publication, since who has them owns units and the  *)
(* counter is not below zero.                                              *)
THEOREM PublishedNotOversold ==
  ASSUME CalmEnv, "early" \notin Env, "overlap" \notin Env
  PROVE  AdminSpec => []PublishedFits
<1>1. TypeOK /\ EngineParts /\ SaleInv => PublishedFits
  <2> SUFFICES ASSUME TypeOK, EngineParts, SaleInv, Unedited, event = "published",
                      NEW a \in Admins, Published(a)
               PROVE  Cardinality(Units(valid)) <= sized[a]
    BY DEF PublishedFits, Published
  <2>1. OnSale(a)
    BY DEF SaleInv, OncePublished
  <2>2. AnyEnvInv /\ SalesInv
    BY <2>1 DEF OnSale, ControlInv, EngineParts, AnyEnvInv, UnpublishedHasNoPrice
  <2>3. owned \in SUBSET Bookings /\ valid \in SUBSET owned /\ slots \in Int
    BY <2>2, ValidOwned DEF TypeOK, AvailabilityTypeOK
  <2>4. /\ Cardinality(Units(valid)) <= Cardinality(Units(owned))
        /\ Cardinality(Units(owned)) \in Nat
        /\ Cardinality(Units(valid)) \in Nat
    BY <2>3, UnitsMonotone, UnitsFinite
  <2>5. slots + Cardinality(Units(owned)) = sized[a] /\ slots >= 0
    BY <2>1 DEF OnSale, SlotsNonNegative
  <2>6. QED BY <2>3, <2>4, <2>5
<1>2. QED BY <1>1, SaleInvariant, EngineInvariant, PTL
===============================================================================
