--------------------------- MODULE EventAdminProofs ---------------------------
(***************************************************************************)
(* Proofs about EventAdmin.  Under any administration: types, and what the *)
(* booking service promises of bookings, jobs and locks, under the same    *)
(* assumptions as without an administration.  While administrators         *)
(* wait for each other: the hash follows the event's status, and nothing   *)
(* is stored that was asked for after the event was closed.                *)
(***************************************************************************)
EXTENDS EventAdmin, BookingProofs

USE ConstantTypes, AdminsAssumption

(* A step of the administration keeps every variable in its type. *)
LEMMA AdminTypes ==
  ASSUME TypeOK, AdminTypeOK, NEW a \in Admins, AdminStep(a)
  PROVE  TypeOK' /\ AdminTypeOK'
<1> USE DEF TypeOK, AvailabilityTypeOK, AdminTypeOK, AdminGoto, InProgress, elsewhere,
            requestVars, handlerVars, mongoVars, EventStatus
<1>1. CASE CreateEvent(a) BY <1>1 DEF CreateEvent
<1>2. CASE FindEvent(a) BY <1>2 DEF FindEvent
<1>3. CASE SaveStatus(a) BY <1>3 DEF SaveStatus, Into
<1>4. CASE PutSlots(a)
  <2>1. slots' \in Int /\ slotsCached' \in BOOLEAN
    BY <1>4 DEF PutSlots, SetEventSlots
  <2>2. QED BY <1>4, <2>1 DEF PutSlots, SetEventSlots
<1>5. CASE PutMeta(a) BY <1>5 DEF PutMeta
<1>6. CASE DropSlots(a)
  <2>1. slotsCached' \in BOOLEAN
    BY <1>6, Zenon DEF DropSlots, DeleteEventSlots
  <2>2. slots' \in Int BY <1>6 DEF DropSlots, DeleteEventSlots
  <2>3. QED BY <1>6, <2>1, <2>2 DEF DropSlots, DeleteEventSlots
<1>7. CASE DropMeta(a) BY <1>7 DEF DropMeta
<1>8. CASE DeleteDocument(a) BY <1>8 DEF DeleteDocument
<1>9. CASE UpdateDocument(a) BY <1>9 DEF UpdateDocument, Refreshed
<1>10. CASE AdminBreaks(a) BY <1>10 DEF AdminBreaks
<1>11. QED
  BY <1>1, <1>2, <1>3, <1>4, <1>5, <1>6, <1>7, <1>8, <1>9, <1>10 DEF AdminStep

(* The administration leaves the bookings, handlers, jobs and cancellations *)
(* alone.                                                                  *)
LEMMA AdminLeavesBookings ==
  ASSUME NEW a \in Admins, AdminStep(a)
  PROVE  UNCHANGED <<status, job, stalls, rpc, reply, priced, hpc, todo, cpc, late>>
BY DEF AdminStep, CreateEvent, FindEvent, SaveStatus, PutSlots, PutMeta, DropSlots,
       DropMeta, DeleteDocument, UpdateDocument, AdminBreaks, elsewhere, mongoVars,
       requestVars, handlerVars

(* What Booking keeps on its own it keeps under administration: one booking *)
(* per key, one releaser, a job for every accepted booking, and handlers    *)
(* that find the documents they work on.                                   *)
THEOREM EngineInvariant == AdminSpec => [](TypeOK /\ AdminTypeOK /\ EngineParts)
<1>1. AdminInit => TypeOK /\ AdminTypeOK /\ EngineParts
  <2> SUFFICES ASSUME AdminInit PROVE TypeOK /\ AdminTypeOK /\ EngineParts
    OBVIOUS
  <2>1. TypeOK BY InitTypes DEF AdminInit
  <2>2. AdminTypeOK BY DEF AdminInit, AdminTypeOK
  <2>3. EngineParts
    BY DEF AdminInit, Init, EngineParts, UniqueKey, WorkOnExisting,
           ReleaserFoundPending, OneReleaser, AcceptedHasJob, Exists
  <2>4. QED BY <2>1, <2>2, <2>3
<1>2. TypeOK /\ AdminTypeOK /\ EngineParts /\ [AdminNext]_eventVars =>
        TypeOK' /\ AdminTypeOK' /\ EngineParts'
  <2> SUFFICES ASSUME TypeOK, AdminTypeOK, EngineParts, [AdminNext]_eventVars
               PROVE  TypeOK' /\ AdminTypeOK' /\ EngineParts'
    OBVIOUS
  <2>1. CASE [Next]_vars /\ UNCHANGED adminVars /\ late' \subseteq Bookings
    <3>1. TypeOK' /\ EngineParts' BY <2>1, TypeStep, StepKeepsParts
    <3>2. AdminTypeOK' BY <2>1 DEF AdminTypeOK, adminVars
    <3>3. QED BY <3>1, <3>2
  <2>2. ASSUME NEW a \in Admins, AdminStep(a)
        PROVE  TypeOK' /\ AdminTypeOK' /\ EngineParts'
    <3>1. EngineParts'
      BY <2>2, AdminLeavesBookings DEF EngineParts, UniqueKey, WorkOnExisting,
         ReleaserFoundPending, OneReleaser, AcceptedHasJob, Exists
    <3>2. QED BY <2>2, <3>1, AdminTypes
  <2>3. CASE BookingStep
    BY <2>1, <2>3 DEF BookingStep, AdminTypeOK
  <2>4. CASE UNCHANGED eventVars
    BY <2>1, <2>4 DEF eventVars, AdminTypeOK
  <2>5. QED BY <2>2, <2>3, <2>4 DEF AdminNext
<1>3. QED BY <1>1, <1>2, PTL DEF AdminSpec

(* The administration touches neither locks nor the units of a booking. *)
LEMMA AdminLeavesUnits ==
  ASSUME NEW a \in Admins, AdminStep(a)
  PROVE  UNCHANGED <<locks, owned, issued, valid, available>>
BY DEF AdminStep, CreateEvent, FindEvent, SaveStatus, PutSlots, PutMeta, DropSlots,
       DropMeta, DeleteDocument, UpdateDocument, AdminBreaks, elsewhere, mongoVars,
       SetEventSlots, DeleteEventSlots

(* A step is one of the booking service, or one it does not notice but in    *)
(* the event and its keys in Redis.                                        *)
LEMMA AdminOrBooking ==
  ASSUME [AdminNext]_eventVars
  PROVE  \/ [Next]_vars
         \/ UNCHANGED <<status, job, stalls, rpc, reply, hpc, todo, cpc, locks, owned, issued,
                       valid, available>>
BY AdminLeavesBookings, AdminLeavesUnits DEF AdminNext, BookingStep, eventVars

(* A sale is final under any administration, overlapping calls and dying     *)
(* administrators too: cancelling or removing the event undoes none.       *)
THEOREM AdministeredSaleIsFinal == AdminSpec => SoldStaysSold
<1>1. TypeOK /\ [AdminNext]_eventVars =>
        [\A b \in Bookings :
           status[b] = "CONFIRMED" => status'[b] \in {"CONFIRMED", "CANCELLED"}]_vars
  BY SaleStep, AdminOrBooking
<1>2. QED BY <1>1, EngineInvariant, PTL DEF AdminSpec, SoldStaysSold

(* Nor does it reopen or release a cancelled booking: only a confirmation    *)
(* that read the booking before it was cancelled can overwrite the status. *)
THEOREM AdministeredCancelledStays == AdminSpec => CancelledIsClosed
<1>1. TypeOK /\ [AdminNext]_eventVars =>
        [\A b \in Bookings : status[b] = "CANCELLED" =>
           /\ \/ status'[b] = "CANCELLED"
              \/ \E e \in Events : e.booking = b /\ "status" \in todo[e]
           /\ job'[b] = "releasing" => job[b] = "releasing"
           /\ \A e \in Events :
                e.booking = b /\ hpc'[e] = "release" => hpc[e] = "release"]_vars
  BY CancelledStep, AdminOrBooking
<1>2. QED BY <1>1, EngineInvariant, PTL DEF AdminSpec, CancelledIsClosed

(* Handlers and calls use their locks as clients of the lock do. *)
THEOREM AdministeredLocksImplemented == AdminSpec => WebhookLockUse /\ CreationLockUse
<1>1. Init => WebhookLock!Init /\ CreationLock!Init
  BY WebhookLockInit, CreationLockInit
<1>2. TypeOK /\ [AdminNext]_eventVars => [WebhookLock!Next]_WebhookLock!vars
  <2>1. UNCHANGED <<locks, hpc>> => UNCHANGED WebhookLock!vars
    BY DEF WebhookLock!vars, HoldsWebhookLock
  <2>2. QED BY <2>1, WebhookLockStep, AdminOrBooking
<1>3. TypeOK /\ [AdminNext]_eventVars => [CreationLock!Next]_CreationLock!vars
  <2>1. UNCHANGED <<locks, rpc>> => UNCHANGED CreationLock!vars
    BY DEF CreationLock!vars
  <2>2. QED BY <2>1, CreationLockStep, AdminOrBooking
<1>4. AdminInit => Init
  BY DEF AdminInit
<1>5. QED
  BY <1>1, <1>2, <1>3, <1>4, EngineInvariant, PTL
     DEF AdminSpec, WebhookLockUse, WebhookLock!Spec, CreationLockUse, CreationLock!Spec

(* So two handlers of a booking are not inside its lock together. *)
THEOREM AdministeredHandlersExclude ==
  ASSUME "race" \notin Env
  PROVE  AdminSpec => []OneHandler
<1>1. WebhookLock!Spec => []WebhookLock!Mutex
  BY WebhookLock!LockExcludes
<1>2. QED BY <1>1, AdministeredLocksImplemented, PTL DEF OneHandler, WebhookLockUse

(* An accepted booking that is open has its job waiting, also when the event *)
(* is cancelled or removed under it: nothing takes the job away but workers *)
(* that die more often than BullMQ forgives.                               *)
THEOREM AdministeredBookingsAwaitJob ==
  ASSUME "fault" \notin Env
  PROVE  AdminSpec => []OpenAwaitsJob
<1>1. AdminInit => DoneIsClosed
  BY DEF AdminInit, Init, DoneIsClosed
<1>2. TypeOK /\ EngineParts /\ DoneIsClosed /\ [AdminNext]_eventVars => DoneIsClosed'
  <2>1. DoneIsClosed /\ UNCHANGED <<status, job, stalls>> => DoneIsClosed'
    BY DEF DoneIsClosed
  <2>2. QED BY <2>1, DoneStep, AdminOrBooking
<1>3. TypeOK /\ EngineParts /\ DoneIsClosed => OpenAwaitsJob
  BY DoneAwaits
<1>4. QED BY <1>1, <1>2, <1>3, EngineInvariant, PTL DEF AdminSpec

(* Nor are units stranded by what the administration does to the event and   *)
(* its keys in Redis.                                                      *)
THEOREM AdministeredNobodyStranded ==
  ASSUME SteadyEnv
  PROVE  AdminSpec => []NothingStranded
<1>1. Init => UntouchedInv /\ NothingStranded
  BY StrandedInit
<1>2. TypeOK /\ EngineParts /\ UntouchedInv /\ NothingStranded /\ [AdminNext]_eventVars
        => UntouchedInv' /\ NothingStranded'
  <2>1. UntouchedInv /\ NothingStranded
        /\ UNCHANGED <<status, job, rpc, reply, hpc, todo, cpc, owned, issued>>
          => UntouchedInv' /\ NothingStranded'
    BY DEF UntouchedInv, Untouched, NothingStranded, Keeper
  <2>2. QED BY <2>1, UntouchedStep, StrandedStep, AdminOrBooking DEF SteadyEnv
<1>3. AdminInit => Init
  BY DEF AdminInit
<1>4. QED BY <1>1, <1>2, <1>3, EngineInvariant, PTL DEF AdminSpec

------------------------------------------------------------------------------
(* The hash follows the status *)

(* No call comes back to idle, and a step moves only one call. *)
LEMMA AdminMoves ==
  ASSUME AdminTypeOK, NEW a \in Admins, AdminStep(a)
  PROVE  /\ \A b \in Admins : b # a => apc'[b] = apc[b]
         /\ apc'[a] # "idle"
         /\ apc[a] \in InProgress \cup {"idle"}
         /\ "overlap" \notin Env /\ apc[a] = "idle" =>
              \A b \in Admins : apc[b] \notin InProgress
BY DEF AdminTypeOK, AdminStep, CreateEvent, FindEvent, SaveStatus, PutSlots, PutMeta,
       DropSlots, DropMeta, DeleteDocument, UpdateDocument, AdminBreaks, AdminGoto,
       Called, Refreshed, InProgress

(* One call at a time. *)
LEMMA AdminStaysAlone ==
  ASSUME "overlap" \notin Env, AdminTypeOK, OneAdmin, NEW a \in Admins, AdminStep(a)
  PROVE  OneAdmin' /\ \A b \in Admins : b # a => apc[b] \notin InProgress
<1>1. \A b \in Admins : b # a => apc[b] \notin InProgress
  BY AdminMoves DEF OneAdmin
<1>2. /\ apc'[a] = "save" => a.op \in {"publish", "cancel"}
      /\ apc'[a] \in {"setSlots", "setMeta"} => a.op \in {"publish", "update"}
  BY DEF OneAdmin, AdminTypeOK, AdminStep, CreateEvent, FindEvent, SaveStatus,
         PutSlots, PutMeta, DropSlots, DropMeta, DeleteDocument, UpdateDocument,
         AdminBreaks, AdminGoto, Called, Refreshed
<1>3. QED BY <1>1, <1>2, AdminMoves DEF OneAdmin

(* Each step leaves the hash and the status as the next control point       *)
(* expects them.                                                           *)
LEMMA AdminKeepsCalls ==
  ASSUME "overlap" \notin Env, TypeOK, AdminTypeOK, MetaInv,
         NEW a \in Admins, AdminStep(a)
  PROVE  MetaInv'
<1> USE DEF AdminTypeOK, AdminGoto, InProgress, elsewhere, mongoVars
<1>1. OneAdmin' /\ \A b \in Admins : b # a => apc[b] \notin InProgress
  BY AdminStaysAlone DEF MetaInv
<1>2. meta' \in {"open", "none"}
  BY DEF MetaInv, AdminStep, CreateEvent, FindEvent, SaveStatus, PutSlots, PutMeta,
         DropSlots, DropMeta, DeleteDocument, UpdateDocument, AdminBreaks
<1>3. ASSUME \A b \in Admins : apc'[b] # "broken"
      PROVE  /\ apc[a] # "broken"
             /\ \A b \in Admins : apc[b] # "broken"
  BY <1>3, AdminMoves
<1>4. CallsInv'
  <2> SUFFICES ASSUME \A b \in Admins : apc'[b] # "broken"
               PROVE  /\ apc'[a] \notin {"setSlots", "setMeta", "delSlots", "delMeta"} =>
                           (meta' = "open" <=> event' = "published")
                      /\ apc'[a] \in {"setSlots", "setMeta"} => event' = "published"
                      /\ apc'[a] \in {"delSlots", "delMeta"} => event' # "published"
                      /\ apc'[a] = "delSlots" /\ a.op # "cancel" => meta' = "none"
    BY <1>1, AdminMoves DEF CallsInv
  <2>1. /\ \A b \in Admins : apc[b] # "broken"
        /\ apc[a] \notin {"setSlots", "setMeta", "delSlots", "delMeta"} =>
             (meta = "open" <=> event = "published")
        /\ apc[a] \in {"setSlots", "setMeta"} => event = "published"
        /\ apc[a] \in {"delSlots", "delMeta"} => event # "published"
        /\ apc[a] = "delSlots" /\ a.op # "cancel" => meta = "none"
    <3>1. \A b \in Admins : apc[b] # "broken"
      BY <1>3
    <3>2. apc[a] \notin {"setSlots", "setMeta", "delSlots", "delMeta"} =>
            \A b \in Admins : apc[b] \notin {"setSlots", "setMeta", "delSlots", "delMeta"}
      BY <1>1
    <3>3. CallsInv BY DEF MetaInv
    <3>4. QED BY <3>1, <3>2, <3>3 DEF CallsInv
  <2>2. CASE CreateEvent(a) BY <2>1, <2>2 DEF CreateEvent, Called
  <2>3. CASE FindEvent(a) BY <2>1, <2>3 DEF FindEvent, Called
  <2>4. CASE SaveStatus(a)
    <3>1. a.op \in {"publish", "cancel"} BY <2>4 DEF SaveStatus, MetaInv, OneAdmin
    <3>2. QED BY <2>1, <2>4, <3>1 DEF SaveStatus, Into
  <2>5. CASE PutSlots(a) BY <2>1, <2>5 DEF PutSlots
  <2>6. CASE PutMeta(a) BY <2>1, <2>6 DEF PutMeta
  <2>7. CASE DropSlots(a) BY <2>1, <2>7 DEF DropSlots
  <2>8. CASE DropMeta(a) BY <2>1, <2>8 DEF DropMeta
  <2>9. CASE DeleteDocument(a) BY <2>1, <2>9 DEF DeleteDocument, Called
  <2>10. CASE UpdateDocument(a) BY <2>1, <2>10 DEF UpdateDocument, Called, Refreshed
  <2>11. CASE AdminBreaks(a) BY <2>11 DEF AdminBreaks
  <2>12. QED
    BY <2>2, <2>3, <2>4, <2>5, <2>6, <2>7, <2>8, <2>9, <2>10, <2>11 DEF AdminStep
<1>5. QED BY <1>1, <1>2, <1>4 DEF MetaInv

(* The administration keeps hash and status together, and Booking touches   *)
(* neither while the date is ahead.                                        *)
THEOREM MetaInvariant ==
  ASSUME "overlap" \notin Env
  PROVE  AdminSpec => []MetaInv
<1>1. AdminInit => MetaInv
  BY DEF AdminInit, Init, MetaInv, OneAdmin, CallsInv, InProgress
<1>2. TypeOK /\ AdminTypeOK /\ EngineParts /\ MetaInv /\ [AdminNext]_eventVars => MetaInv'
  <2> SUFFICES ASSUME TypeOK, AdminTypeOK, EngineParts, MetaInv, [AdminNext]_eventVars
               PROVE  MetaInv'
    OBVIOUS
  <2>1. CASE [Next]_vars /\ UNCHANGED adminVars
    <3>1. meta' = meta /\ event' = event
      BY <2>1, StepStores, DateAhead DEF EngineParts
    <3>2. QED BY <2>1, <3>1 DEF MetaInv, OneAdmin, CallsInv, adminVars
  <2>2. ASSUME NEW a \in Admins, AdminStep(a) PROVE MetaInv'
    BY <2>2, AdminKeepsCalls
  <2>3. QED BY <2>1, <2>2 DEF AdminNext, BookingStep, eventVars
<1>3. QED BY <1>1, <1>2, EngineInvariant, PTL DEF AdminSpec

(* The event is bookable exactly while it is published. *)
THEOREM MetaFollows ==
  ASSUME "overlap" \notin Env
  PROVE  AdminSpec => []MetaFollowsStatus
<1>1. MetaInv => MetaFollowsStatus
  BY DEF MetaInv, CallsInv, MetaFollowsStatus, AllAnswered
<1>2. QED BY <1>1, MetaInvariant, PTL

------------------------------------------------------------------------------
(* A closed event is not booked *)

(* A call of createBooking starts once. *)
LEMMA StartsOnce ==
  ASSUME TypeOK, [Next]_vars
  PROVE  \A r \in Bookings : rpc'[r] = "start" => rpc[r] = "start"
<1>1. CASE RequestNext
  BY <1>1 DEF RequestNext, RequestStep, CheckIdempotency, LockCreation, FindExisting,
     GetEvent, CountSlots, CheckCount, ReadAvailable, RefillSlots, CreateDocument,
     HoldSlots, CacheIdempotency, EnqueueExpiry, UnlockCreation, RequestFails,
     RequestDies, Finally, Goto, TypeOK
<1>2. CASE HandlerNext \/ \E e \in Events : PaymentEvent(e)
  BY <1>2 DEF HandlerNext, HandlerStep, PaymentEvent, AcquireWebhookLock,
     ReadForConfirm, WriteTickets, WriteStatus, WriteCounter, CommitConfirm,
     FailDocument, ReleaseFailed, UnlockWebhook, HandlerFails, HandlerDies,
     ConfirmFails, requestVars
<1>3. CASE JobNext \/ CancelNext \/ RedisNext
  BY <1>3 DEF JobNext, JobStep, ExpireDocument, ReleaseExpired, JobFails, WorkerDies,
     CancelNext, CancelStep, FindForCancel, CommitCancel, ReleaseCancelled,
     CancelFails, CancelDies, RedisNext, LockTimeout, HoldTimeout, SlotsEvicted,
     EventDatePasses, requestVars
<1>4. CASE UNCHANGED vars BY <1>4 DEF vars, requestVars
<1>5. QED BY <1>1, <1>2, <1>3, <1>4 DEF Next, ServiceNext

(* The administration closes an event in MongoDB first, and opens it no     *)
(* more.                                                                   *)
LEMMA AdminKeepsClosing ==
  ASSUME "overlap" \notin Env, AdminTypeOK, MetaInv, ClosedInv,
         NEW a \in Admins, AdminStep(a), Unedited'
  PROVE  ClosingInv' /\ LateInv'
<1> USE DEF AdminTypeOK, AdminGoto, elsewhere
<1>1. OneAdmin /\ \A b \in Admins : b # a => apc[b] \notin InProgress
  BY AdminStaysAlone DEF MetaInv
<1>2. Unedited
  BY AdminMoves DEF Unedited
<1>3. ClosingInv /\ LateInv
  BY <1>2 DEF ClosedInv
<1>4. Closed => Closed'
  BY AdminMoves DEF Closed, Answered, InProgress
<1>5. LateInv'
  <2>1. UNCHANGED <<late, priced, rpc, status>>
    BY AdminLeavesBookings
  <2>2. QED BY <1>3, <1>4, <2>1 DEF LateInv, Exists
<1>6. ClosingInv'
  <2>1. \A b \in Admins : b # a =>
          apc'[b] = apc[b] /\ apc[b] \notin {"save", "setSlots", "setMeta", "delSlots", "delMeta"}
    BY <1>1, AdminMoves DEF InProgress
  <2>2. Closed' => \/ Closed
                   \/ apc'[a] = "done" /\ a.op \in {"cancel", "remove"}
    BY <2>1 DEF Closed, Answered
  <2>3. SUFFICES
          /\ a.op \in {"cancel", "remove"} /\ apc'[a] \in {"delSlots", "delMeta"} =>
               event' \in {"canceled", "removed"}
          /\ a.op = "remove" /\ apc'[a] = "delSlots" => meta' = "none"
          /\ Closed \/ (apc'[a] = "done" /\ a.op \in {"cancel", "remove"}) =>
               /\ event' \in {"canceled", "removed"}
               /\ meta' = "none"
               /\ apc'[a] \notin {"save", "setSlots", "setMeta"}
    BY <2>1, <2>2 DEF ClosingInv
  <2>4. /\ a.op \in {"cancel", "remove"} /\ apc[a] \in {"delSlots", "delMeta"} =>
               event \in {"canceled", "removed"}
        /\ a.op = "remove" /\ apc[a] = "delSlots" => meta = "none"
        /\ Closed => /\ event \in {"canceled", "removed"}
                     /\ meta = "none"
                     /\ apc[a] \notin {"save", "setSlots", "setMeta"}
        /\ apc[a] = "save" => a.op \in {"publish", "cancel"}
        /\ apc[a] \in {"setSlots", "setMeta"} => a.op \in {"publish", "update"}
    BY <1>1, <1>3 DEF ClosingInv, OneAdmin
  <2>5. CASE CreateEvent(a)
    <3>1. ~Closed BY <2>5 DEF CreateEvent, Closed, Answered
    <3>2. QED BY <2>5, <3>1 DEF CreateEvent, Called
  <2>6. CASE FindEvent(a) BY <2>4, <2>6 DEF FindEvent, Called, Transits, From
  <2>7. CASE SaveStatus(a) BY <2>4, <2>7 DEF SaveStatus, Into
  <2>8. CASE PutSlots(a)
    <3>1. apc[a] = "setSlots" /\ apc'[a] = "setMeta"
      BY <2>8 DEF PutSlots
    <3>2. ~Closed BY <2>4, <3>1
    <3>3. QED BY <3>1, <3>2
  <2>9. CASE PutMeta(a) BY <2>4, <2>9 DEF PutMeta
  <2>10. CASE DropSlots(a) BY <2>4, <2>10 DEF DropSlots, mongoVars
  <2>11. CASE DropMeta(a) BY <2>4, <2>11 DEF DropMeta
  <2>12. CASE DeleteDocument(a) BY <2>4, <2>12 DEF DeleteDocument, Called
  <2>13. CASE UpdateDocument(a)
    <3>1. a.op = "update" /\ a.to = "same"
      BY <2>13, AdminMoves DEF UpdateDocument, Called, Unedited
    <3>2. event' = event BY <2>13, <3>1 DEF UpdateDocument
    <3>3. QED BY <2>4, <2>13, <3>1, <3>2 DEF UpdateDocument, Called, Refreshed
  <2>14. CASE AdminBreaks(a) BY <2>4, <2>14 DEF AdminBreaks
  <2>15. QED
    BY <2>5, <2>6, <2>7, <2>8, <2>9, <2>10, <2>11, <2>12, <2>13, <2>14 DEF AdminStep
<1>7. QED BY <1>5, <1>6

(* A call that starts after the event was closed reads no hash any more.    *)
LEMMA BookingKeepsClosing ==
  ASSUME TypeOK, AdminTypeOK, EngineParts, ClosingInv, LateInv, BookingStep
  PROVE  ClosingInv' /\ LateInv'
<1> DEFINE asked == {r \in Bookings : rpc[r] = "start" /\ rpc'[r] # "start"}
<1>1. /\ [Next]_vars
      /\ late' = IF Closed THEN late \cup asked ELSE late
      /\ UNCHANGED adminVars
  BY DEF BookingStep
<1>2. meta' = meta /\ event' = event
  BY <1>1, StepStores, DateAhead DEF EngineParts
<1>3. Closed' <=> Closed
  BY <1>1 DEF Closed, Answered, adminVars
<1>4. ClosingInv'
  BY <1>1, <1>2, <1>3 DEF ClosingInv, adminVars
<1>5. \A r \in Bookings : Exists(r)' /\ ~Exists(r) => r \in priced
  BY <1>1, StepStores DEF EngineParts, Valid
<1>6. \A r \in Bookings :
        r \in priced' /\ r \notin priced => meta = "open" /\ rpc[r] = "event"
  BY <1>1, StepStores DEF EngineParts
<1>7. \A r \in Bookings : rpc'[r] = "start" => rpc[r] = "start"
  BY <1>1, StartsOnce
<1>8. late \subseteq Bookings BY DEF AdminTypeOK
<1>9. \A r \in late' : r \in Bookings /\ r \notin priced /\ ~Exists(r) /\ rpc'[r] # "start"
  BY <1>1, <1>7, <1>8 DEF LateInv
<1>10. late' # {} => Closed
  BY <1>1 DEF LateInv
<1>11. \A r \in late' : r \notin priced' /\ ~Exists(r)'
  BY <1>5, <1>6, <1>9, <1>10 DEF ClosingInv
<1>12. \A r \in Bookings : rpc'[r] = "start" => r \notin priced' /\ ~Exists(r)'
  BY <1>5, <1>6, <1>7 DEF LateInv
<1>13. LateInv' BY <1>3, <1>9, <1>10, <1>11, <1>12 DEF LateInv
<1>14. QED BY <1>4, <1>13

(* What is asked for after the event was closed is not stored. *)
THEOREM LateRefused ==
  ASSUME "overlap" \notin Env
  PROVE  AdminSpec => []LateIsRefused
<1>1. AdminInit => ClosedInv
  BY DEF AdminInit, Init, ClosedInv, ClosingInv, LateInv, Closed, Answered, Exists
<1>2. TypeOK /\ AdminTypeOK /\ EngineParts /\ MetaInv /\ ClosedInv
        /\ [AdminNext]_eventVars => ClosedInv'
  <2> SUFFICES ASSUME TypeOK, AdminTypeOK, EngineParts, MetaInv, ClosedInv,
                      [AdminNext]_eventVars, Unedited'
               PROVE  ClosingInv' /\ LateInv'
    BY DEF ClosedInv
  <2>1. CASE BookingStep
    <3>1. Unedited BY <2>1 DEF BookingStep, adminVars, Unedited
    <3>2. QED BY <2>1, <3>1, BookingKeepsClosing DEF ClosedInv
  <2>2. ASSUME NEW a \in Admins, AdminStep(a) PROVE ClosingInv' /\ LateInv'
    BY <2>2, AdminKeepsClosing
  <2>3. CASE UNCHANGED eventVars
    <3>1. ClosingInv /\ LateInv
      BY <2>3 DEF ClosedInv, Unedited, eventVars, adminVars
    <3>2. QED
      BY <2>3, <3>1 DEF eventVars, adminVars, vars, redisVars, mongoVars, requestVars,
         ClosingInv, LateInv, Closed, Answered, Exists
  <2>4. QED BY <2>1, <2>2, <2>3 DEF AdminNext
<1>3. ClosedInv => LateIsRefused
  BY DEF ClosedInv, LateInv, LateIsRefused
<1>4. QED BY <1>1, <1>2, <1>3, EngineInvariant, MetaInvariant, PTL DEF AdminSpec
=============================================================================
