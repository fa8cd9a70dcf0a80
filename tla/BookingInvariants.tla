-------------------------- MODULE BookingInvariants --------------------------
(***************************************************************************)
(* The inductive invariants behind the safety properties of Booking:       *)
(* AnyEnvInv holds in every environment, CalmInv in a calm one, and what   *)
(* lies between under the assumption named with it.                        *)
(* Each named part says what one control point, queue state or lock may    *)
(* rely on.                                                                *)
(***************************************************************************)
EXTENDS Booking

(* In every environment *)

(* A process that is past its first read works on a document that exists;   *)
(* nothing deletes bookings.                                               *)
WorkOnExisting ==
  /\ \A r \in Bookings : rpc[r] \in {"hold", "cache", "enqueue"} => Exists(r)
  /\ \A e \in Events : hpc[e] # "idle" \/ todo[e] # {} => Exists(e.booking)
  /\ \A c \in Cancels : cpc[c] \in {"txn", "release"} => Exists(c.booking)
  /\ \A b \in Bookings : job[b] # "none" => Exists(b)

(* Whoever releases after a filtered findOneAndUpdate found PENDING, and    *)
(* PENDING does not come back.                                             *)
ReleaserFoundPending ==
  /\ \A b \in Bookings : job[b] = "releasing" => status[b] # "PENDING"
  /\ \A e \in Events : hpc[e] = "release" => status[e.booking] # "PENDING"

AcceptedHasJob == \A r \in Bookings : reply[r] = 201 => job[r] # "none"

UnpublishedHasNoPrice ==
  meta = "none" => priced = {} /\ \A b \in Bookings : ~Exists(b)

(* Inductive in every environment: whatever fails, every control point of   *)
(* createBooking, of a payment handler, of an expiry job and of a           *)
(* cancellation finds the document and the state it relies on.             *)
AnyEnvInv == /\ TypeOK
             /\ UniqueKey
             /\ WorkOnExisting
             /\ ReleaserFoundPending
             /\ OneReleaser
             /\ AcceptedHasJob
             /\ UnpublishedHasNoPrice

------------------------------------------------------------------------------
(* Under an assumption on one or three hazards *)

(* A job leaves the queue only with its booking closed, unless its one       *)
(* attempt fails or its workers keep dying.                                *)
DoneIsClosed ==
  \A b \in Bookings :
    job[b] = "done" => status[b] # "PENDING" \/ stalls[b] > MaxStalled

(* Where no process dies no job stalls. *)
NeverStalled == \A b \in Bookings : stalls[b] = 0

(* Every command succeeds, no process dies, and a booking is paid and         *)
(* cancelled only when the client knows of it.                             *)
SteadyEnv == "stray" \notin Env /\ "fault" \notin Env /\ "crash" \notin Env

(* A booking and its tickets change one after the other: payments and        *)
(* cancellations are of bookings that wait for them, and confirmations are *)
(* neither overtaken nor cut short.                                        *)
OrderlyEnv == "stray" \notin Env /\ "race" \notin Env /\ "partial" \notin Env

(* ... and the counter stays in Redis. *)
CalmEnv == OrderlyEnv /\ "evict" \notin Env

(* Only an open event has bookings, and its counter is always there.  The   *)
(* counter of a draft event may be filled from MongoDB, with all units.    *)
OnlyOpenIsBooked ==
  /\ meta = "open" => slotsCached /\ event # "removed"
  /\ meta # "open" => priced = {} /\ owned = {} /\ available = Capacity
  /\ meta # "open" => \A b \in Bookings : ~Exists(b)
  /\ \A r \in Bookings :
       /\ rpc[r] \in {"dbSlots", "setSlots"} => meta # "open"
       /\ rpc[r] = "setSlots" => count[r] = Capacity

CounterInv == /\ slots >= 0
              /\ ~slotsCached => owned = {}
              /\ Ledger

(* Until the job is queued, only the creating call touches the booking. *)
Untouched(b) ==
  /\ status[b] \in {"absent", "PENDING"}
  /\ reply[b] # 201
  /\ b \notin issued
  /\ \A e \in Events : e.booking = b => hpc[e] = "idle" /\ todo[e] = {}
  /\ \A c \in Cancels : c.booking = b => cpc[c] \in {"idle", "refused"}

UntouchedInv ==
  \A b \in Bookings :
    /\ job[b] = "none" => Untouched(b)
    /\ rpc[b] \in {"hold", "cache", "enqueue"} =>
         job[b] = "none" /\ status[b] = "PENDING"

CreationInv ==
  /\ UntouchedInv
  /\ \A b \in Bookings :
       /\ ~Exists(b) => job[b] = "none" /\ b \notin owned
       /\ rpc[b] = "hold" => b \notin owned
       /\ rpc[b] \in {"cache", "enqueue"} => b \in owned

(* The webhook lock admits one handler of a booking at a time. *)
LockInv ==
  \A e, f \in Events :
    HoldsWebhookLock(e) =>
      /\ e.booking \in locks
      /\ HoldsWebhookLock(f) /\ e.booking = f.booking => e = f

(* A confirmation with writes under way found PENDING and nobody moved the  *)
(* status but itself.                                                      *)
WriterInv ==
  \A e \in Events :
    /\ todo[e] # {} => hpc[e] = "writes"
    /\ todo[e] # {} =>
         /\ status[e.booking] = IF "status" \in todo[e] THEN "PENDING" ELSE "CONFIRMED"
         /\ e.booking \in issued <=> "tickets" \notin todo[e]

(* Where the tickets of a booking that no confirmation is writing are. *)
TicketInv ==
  /\ valid \subseteq issued
  /\ \A b \in Bookings :
       /\ status[b] \in {"PENDING", "CONFIRMED"} /\ b \in issued => b \in valid
       /\ status[b] = "PENDING" /\ b \in issued =>
            \E e \in Events : e.booking = b /\ "status" \in todo[e]
       /\ status[b] = "CONFIRMED" /\ Quiet(b) => b \in issued
       /\ status[b] \in {"EXPIRED", "FAILED"} => b \notin issued
       /\ status[b] = "CANCELLED" => b \notin valid

(* Whoever is about to release owns the booking alone. *)
ReleaseInv ==
  /\ \A b \in Bookings : job[b] = "releasing" => status[b] = "EXPIRED" /\ b \in owned
  /\ \A e \in Events :
       hpc[e] = "release" => status[e.booking] = "FAILED" /\ e.booking \in owned
  /\ \A c \in Cancels :
       /\ cpc[c] = "txn" => status[c.booking] = "CONFIRMED" /\ Quiet(c.booking)
       /\ cpc[c] = "release" => status[c.booking] = "CANCELLED" /\ c.booking \in owned
       /\ \A d \in Cancels :
            {cpc[c], cpc[d]} \subseteq {"txn", "release"} /\ c.booking = d.booking => c = d

(* An accepted booking keeps its units while it is open or sold. *)
OwnershipInv ==
  \A b \in Bookings :
    job[b] # "none" /\ status[b] \in {"PENDING", "CONFIRMED"} => b \in owned

(* The bookings that availableTickets has been decremented for. *)
Counted ==
  {b \in Bookings :
     /\ status[b] = "CONFIRMED" \/ ~Quiet(b)
     /\ \A e \in Events : e.booking = b => "counter" \notin todo[e]}

(* The document that availableTickets is in stays while the event is booked. *)
EventStored == meta # "none" => event # "removed"

CountedInv == available = Capacity - Cardinality(Units(Counted))

(* Inductive in an orderly environment: what everybody who works on a booking *)
(* finds, whatever fails, dies or vanishes from Redis.                     *)
SalesInv == /\ CreationInv
            /\ LockInv
            /\ WriterInv
            /\ TicketInv
            /\ ReleaseInv
            /\ OwnershipInv

(* In an orderly environment a cancellation is final.                       *)
CancelledForGood ==
  [][\A b \in Bookings : status[b] = "CANCELLED" => status'[b] = "CANCELLED"]_vars

(* Inductive in the calm environment: the counter in Redis, the documents   *)
(* and tickets in MongoDB, the locks and whatever each process has still to *)
(* do agree on who owns which units.                                       *)
CalmInv == OnlyOpenIsBooked /\ CounterInv /\ SalesInv /\ CountedInv
==============================================================================
