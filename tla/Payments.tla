------------------------------- MODULE Payments -------------------------------
(***************************************************************************)
(* modules/payments/payments.service.ts composed with Booking: payment     *)
(* events come out of processPayment calls instead of out of nowhere.  A   *)
(* call looks for a payment, reads the booking, waits for the gateway and, *)
(* when it succeeded, stores the payment and emits.  emit runs the         *)
(* listener in the same turn, so storing and emitting are one step unless  *)
(* the process is gone in between.  A declined call stores nothing.        *)
(***************************************************************************)
EXTENDS Booking

CONSTANT Pays   \* processPayment calls that may arrive, at most once each

ASSUME PaysAssumption ==
  /\ Pays \subseteq [booking : Bookings, n : Nat]
  /\ [kind : EventKinds, booking : Bookings, n : {p.n : p \in Pays}] \subseteq Events

VARIABLES
  ppc,       \* control of each processPayment call
  payments   \* MongoDB: the calls whose payment document is stored

payVars == <<ppc, payments>>
allVars == <<vars, payVars>>

PayTypeOK ==
  /\ ppc \in [Pays -> {"idle", "booking", "gateway", "store", "done",
                       "refused", "dead"}]
  /\ payments \subseteq Pays

PayInit == /\ Init
           /\ ppc = [p \in Pays |-> "idle"]
           /\ payments = {}

PayGoto(p, label) == ppc' = [ppc EXCEPT ![p] = label]

Outcome(p, kind) == [kind |-> kind, booking |-> p.booking, n |-> p.n]

InCall(p) == ppc[p] \in {"booking", "gateway", "store"}

(* The client pays what it was told is reserved, and waits for the answer   *)
(* before it pays again, but for stray and resend.                         *)
CalledOnce(p) ==
  /\ "stray" \in Env \/ reply[p.booking] = 201
  /\ \/ "resend" \in Env
     \/ \A q \in Pays : q.booking = p.booking => ~InCall(q)

(* Mutant of PaymentExists: the check is forgotten. *)
MutantNeverPaid(p) == p # p

PaymentExists(p) == \E q \in payments : q.booking = p.booking

FindPayment(p) ==
  /\ ppc[p] = "idle"
  /\ CalledOnce(p)
  /\ PayGoto(p, IF PaymentExists(p) THEN "refused" ELSE "booking")
  /\ UNCHANGED <<vars, payments>>

(* getBookingById: the booking must exist; its status and its owner are not *)
(* looked at.                                                              *)
FindBooking(p) ==
  /\ ppc[p] = "booking"
  /\ PayGoto(p, IF status[p.booking] # "absent" THEN "gateway" ELSE "refused")
  /\ UNCHANGED <<vars, payments>>

(* The gateway declines: the event, then 400. *)
Decline(p) ==
  /\ ppc[p] = "gateway"
  /\ PaymentEvent(Outcome(p, "failed"))
  /\ PayGoto(p, "done")
  /\ UNCHANGED payments

(* Mutant of Accept: the event is emitted before the payment is stored. *)
MutantEmitFirst(p) ==
  /\ ppc[p] = "gateway"
  /\ PaymentEvent(Outcome(p, "succeeded"))
  /\ PayGoto(p, "store")
  /\ UNCHANGED payments

Accept(p) ==
  /\ ppc[p] = "gateway"
  /\ PayGoto(p, "store")
  /\ UNCHANGED <<vars, payments>>

StorePayment(p) ==
  /\ ppc[p] = "store"
  /\ payments' = payments \cup {p}
  /\ PaymentEvent(Outcome(p, "succeeded"))
  /\ PayGoto(p, "done")

(* An await rejects: the call ends with 500. *)
PayFails(p) ==
  /\ "fault" \in Env
  /\ ppc[p] \in {"idle", "booking", "store"}
  /\ CalledOnce(p) \/ ppc[p] # "idle"
  /\ PayGoto(p, "refused")
  /\ UNCHANGED <<vars, payments>>

PayDies(p) ==
  /\ "crash" \in Env
  /\ InCall(p)
  /\ PayGoto(p, "dead")
  /\ UNCHANGED <<vars, payments>>

(* MongoDB has the payment and the process did not live to hear of it. *)
StoredUnannounced(p) ==
  /\ "crash" \in Env
  /\ ppc[p] = "store"
  /\ payments' = payments \cup {p}
  /\ PayGoto(p, "dead")
  /\ UNCHANGED vars

PayNext ==
  \/ ServiceNext /\ UNCHANGED payVars
  \/ \E p \in Pays : \/ FindPayment(p) \/ FindBooking(p)
                     \/ Decline(p) \/ Accept(p) \/ StorePayment(p)
                     \/ PayFails(p) \/ PayDies(p) \/ StoredUnannounced(p)

PaySpec == PayInit /\ [][PayNext]_allVars

------------------------------------------------------------------------------
(* Nothing is sold unpaid: tickets exist, and the status is CONFIRMED, only *)
(* for bookings with a stored payment, whichever handlers, jobs and        *)
(* cancellations came in between (payments.service.ts:98-106,              *)
(* booking.service.ts:232-260).                                            *)
SoldIsPaid ==
  \A b \in Bookings :
    b \in issued \/ status[b] = "CONFIRMED" => \E p \in payments : p.booking = b

(* A booking has one payment document: the check at the start of a call     *)
(* sees what earlier calls stored, also those that died                     *)
(* (payments.service.ts:39-48).  That the card is charged once it does not  *)
(* say: a call that ends between the gateway's success and create leaves    *)
(* nothing for the next one to see (payments.service.ts:64-98).            *)
OnePaymentStored == \A p, q \in payments : p.booking = q.booking => p = q

------------------------------------------------------------------------------
(* What these two rest on *)

(* A handler of a success, and its writes, come from a stored payment. *)
SuccessIsPaid ==
  \A e \in Events :
    /\ todo[e] # {} => e.kind = "succeeded"
    /\ e.kind = "succeeded" /\ (hpc[e] # "idle" \/ todo[e] # {}) =>
         \E p \in payments : p.booking = e.booking

(* Inductive in every environment. *)
PaidInv == PayTypeOK /\ SuccessIsPaid /\ SoldIsPaid

(* One call of a booking at a time, and none once a payment is stored. *)
OneCall ==
  \A p \in Pays :
    InCall(p) => /\ ~PaymentExists(p)
                 /\ \A q \in Pays : InCall(q) /\ q.booking = p.booking => q = p

(* Inductive without resend. *)
OnePaymentInv == OnePaymentStored /\ OneCall
==============================================================================
