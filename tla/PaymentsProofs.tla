---------------------------- MODULE PaymentsProofs ----------------------------
(***************************************************************************)
(* Proofs about Payments: the composition is a behaviour of Booking, so    *)
(* every theorem on Booking holds of it; nothing is sold unpaid, whatever  *)
(* the environment does; and a client that waits for its answer is charged *)
(* once.                                                                   *)
(***************************************************************************)
EXTENDS Payments, BookingProofs

USE ConstantTypes, PaysAssumption

(* The events of a call are events of Booking. *)
LEMMA OutcomeIsEvent ==
  ASSUME NEW p \in Pays, NEW kind \in EventKinds
  PROVE  /\ Outcome(p, kind) \in Events
         /\ Outcome(p, kind).kind = kind
         /\ Outcome(p, kind).booking = p.booking
         /\ p.booking \in Bookings
<1>1. /\ p.booking \in Bookings
      /\ p.n \in {q.n : q \in Pays}
  OBVIOUS
<1>2. Outcome(p, kind) \in [kind : EventKinds, booking : Bookings, n : {q.n : q \in Pays}]
  BY <1>1 DEF Outcome
<1>3. QED BY <1>1, <1>2 DEF Outcome

(* A step of the composition is a step of Booking or leaves it alone. *)
LEMMA PayStepIsStep == PayNext => [Next]_vars
<1> SUFFICES ASSUME PayNext PROVE [Next]_vars
  OBVIOUS
<1>1. CASE ServiceNext BY <1>1 DEF Next
<1>2. ASSUME NEW p \in Pays, Decline(p) PROVE [Next]_vars
  <2>1. Outcome(p, "failed") \in Events BY OutcomeIsEvent DEF EventKinds
  <2>2. QED BY <1>2, <2>1 DEF Decline, Next
<1>3. ASSUME NEW p \in Pays, StorePayment(p) PROVE [Next]_vars
  <2>1. Outcome(p, "succeeded") \in Events BY OutcomeIsEvent DEF EventKinds
  <2>2. QED BY <1>3, <2>1 DEF StorePayment, Next
<1>4. ASSUME NEW p \in Pays,
             \/ FindPayment(p) \/ FindBooking(p) \/ Accept(p)
             \/ PayFails(p) \/ PayDies(p) \/ StoredUnannounced(p)
      PROVE  UNCHANGED vars
  BY <1>4 DEF FindPayment, FindBooking, Accept, PayFails, PayDies, StoredUnannounced
<1>5. QED BY <1>1, <1>2, <1>3, <1>4 DEF PayNext

(* The composition implements Booking with its free payment events.        *)
THEOREM PaymentsImplementBooking == PaySpec => Spec
<1>1. PayInit => Init
  BY DEF PayInit
<1>2. [PayNext]_allVars => [Next]_vars
  BY PayStepIsStep DEF allVars
<1>3. QED BY <1>1, <1>2, PTL DEF PaySpec, Spec

------------------------------------------------------------------------------
(* Nothing is sold unpaid *)

(* A handler of a success was started by the step that stored the payment, *)
(* and only its writes confirm.                                            *)
LEMMA ServiceKeepsPaid ==
  ASSUME TypeOK, PaidInv, ServiceNext, UNCHANGED payVars
  PROVE  PaidInv'
<1> USE DEF PaidInv, payVars
<1>1. PayTypeOK' BY DEF PayTypeOK
<1>2. SuccessIsPaid' /\ SoldIsPaid'
  <2> USE DEF TypeOK, SuccessIsPaid, SoldIsPaid, mongoVars, handlerVars, redisVars
  <2>1. CASE RequestNext
    <3>1. /\ UNCHANGED <<hpc, todo, issued>>
          /\ \A b \in Bookings : status'[b] = "CONFIRMED" => status[b] = "CONFIRMED"
      BY <2>1 DEF RequestNext, RequestStep, RequestFails, RequestDies, CheckIdempotency,
                  LockCreation, FindExisting, GetEvent, CountSlots, ReadAvailable,
                  RefillSlots, CreateDocument, HoldSlots, CacheIdempotency,
                  EnqueueExpiry, UnlockCreation
    <3>2. QED BY <3>1
  <2>2. ASSUME NEW e \in Events,
               \/ HandlerStep(e) \/ HandlerFails(e) \/ HandlerDies(e)
               \/ \E S \in SUBSET Writes : ConfirmFails(e, S)
        PROVE  SuccessIsPaid' /\ SoldIsPaid'
    <3> USE DEF HandlerGoto, Writes
    <3>1. CASE AcquireWebhookLock(e) BY <3>1 DEF AcquireWebhookLock
    <3>2. CASE ReadForConfirm(e) BY <3>2 DEF ReadForConfirm
    <3>3. CASE WriteTickets(e) BY <3>3 DEF WriteTickets, Landed
    <3>4. CASE WriteStatus(e) BY <3>4 DEF WriteStatus, Landed
    <3>5. CASE WriteCounter(e) BY <3>5 DEF WriteCounter, Landed
    <3>6. CASE CommitConfirm(e) BY <3>6 DEF CommitConfirm
    <3>7. CASE FailDocument(e) BY <3>7 DEF FailDocument
    <3>8. CASE ReleaseFailed(e) \/ UnlockWebhook(e)
      BY <3>8 DEF ReleaseFailed, UnlockWebhook
    <3>9. CASE HandlerFails(e) \/ HandlerDies(e) BY <3>9 DEF HandlerFails, HandlerDies
    <3>10. ASSUME NEW S \in SUBSET Writes, ConfirmFails(e, S)
           PROVE  SuccessIsPaid' /\ SoldIsPaid'
      <4>1. /\ hpc[e] = "writes" /\ S \subseteq todo[e]
            /\ hpc' = [hpc EXCEPT ![e] = "unlock"]
            /\ todo' = [todo EXCEPT ![e] = S]
            /\ UNCHANGED <<status, issued>>
        BY <3>10 DEF ConfirmFails
      <4>2. \A f \in Events : todo'[f] = IF f = e THEN S ELSE todo[f]
        BY <4>1
      <4>3. \A f \in Events : hpc'[f] # "idle" => hpc[f] # "idle"
        BY <4>1
      <4>4. \A f \in Events : todo'[f] # {} => todo[f] # {}
        <5>1. todo'[e] # {} => todo[e] # {}
          <6>1. todo'[e] = S BY <4>2
          <6>2. S # {} => todo[e] # {} BY <4>1, Zenon
          <6>3. QED BY <6>1, <6>2, Zenon
        <5>2. ASSUME NEW f \in Events, f # e PROVE todo'[f] = todo[f]
          BY <4>2, <5>2, Zenon
        <5>3. QED BY <5>1, <5>2, Zenon
      <4>5. SuccessIsPaid'
        BY <4>3, <4>4
      <4>6. SoldIsPaid'
        BY <4>1
      <4>7. QED BY <4>5, <4>6
    <3>11. QED
      BY <2>2, <3>1, <3>2, <3>3, <3>4, <3>5, <3>6, <3>7, <3>8, <3>9, <3>10 DEF HandlerStep
  <2>3. CASE JobNext
    <3>1. /\ UNCHANGED <<hpc, todo, issued>>
          /\ \A b \in Bookings : status'[b] = "CONFIRMED" => status[b] = "CONFIRMED"
      BY <2>3 DEF JobNext, JobStep, ExpireDocument, ReleaseExpired, JobFails, WorkerDies
    <3>2. QED BY <3>1
  <2>4. CASE CancelNext
    <3>1. /\ UNCHANGED <<hpc, todo, issued>>
          /\ \A b \in Bookings : status'[b] = "CONFIRMED" => status[b] = "CONFIRMED"
      BY <2>4 DEF CancelNext, CancelStep, FindForCancel, CommitCancel,
                  ReleaseCancelled, CancelFails, CancelDies
    <3>2. QED BY <3>1
  <2>5. CASE RedisNext
    BY <2>5 DEF RedisNext, LockTimeout, HoldTimeout, SlotsEvicted, EventDatePasses
  <2>6. QED BY <2>1, <2>2, <2>3, <2>4, <2>5 DEF ServiceNext, HandlerNext
<1>3. QED BY <1>1, <1>2

(* A processPayment call announces a success only with its payment stored. *)
LEMMA PayKeepsPaid ==
  ASSUME TypeOK, PaidInv, NEW p \in Pays,
         \/ FindPayment(p) \/ FindBooking(p) \/ Decline(p) \/ Accept(p)
         \/ StorePayment(p) \/ PayFails(p) \/ PayDies(p) \/ StoredUnannounced(p)
  PROVE  PaidInv'
<1> USE DEF PaidInv, PayTypeOK, PayGoto
<1>1. CASE Decline(p)
  <2>1. /\ Outcome(p, "failed") \in Events
        /\ Outcome(p, "failed").kind = "failed"
    BY OutcomeIsEvent DEF EventKinds
  <2>2. /\ hpc' = [hpc EXCEPT ![Outcome(p, "failed")] = "lock"]
        /\ UNCHANGED <<todo, status, issued, payments>>
    BY <1>1 DEF Decline, PaymentEvent, HandlerGoto, mongoVars
  <2>3. SuccessIsPaid' /\ SoldIsPaid'
    BY <2>1, <2>2 DEF SuccessIsPaid, SoldIsPaid, TypeOK
  <2>4. PayTypeOK' BY <1>1 DEF Decline
  <2>5. QED BY <2>3, <2>4
<1>2. CASE StorePayment(p)
  <2>1. /\ Outcome(p, "succeeded") \in Events
        /\ Outcome(p, "succeeded").booking = p.booking
    BY OutcomeIsEvent DEF EventKinds
  <2>2. /\ hpc' = [hpc EXCEPT ![Outcome(p, "succeeded")] = "lock"]
        /\ payments' = payments \cup {p}
        /\ UNCHANGED <<todo, status, issued>>
    BY <1>2 DEF StorePayment, PaymentEvent, HandlerGoto, mongoVars
  <2>3. SuccessIsPaid' /\ SoldIsPaid'
    BY <2>1, <2>2 DEF SuccessIsPaid, SoldIsPaid, TypeOK
  <2>4. PayTypeOK' BY <1>2 DEF StorePayment
  <2>5. QED BY <2>3, <2>4
<1>3. CASE \/ FindPayment(p) \/ FindBooking(p) \/ Accept(p)
           \/ PayFails(p) \/ PayDies(p) \/ StoredUnannounced(p)
  <2>1. /\ UNCHANGED <<hpc, todo, status, issued>>
        /\ payments \subseteq payments'
        /\ PayTypeOK'
    BY <1>3 DEF FindPayment, FindBooking, Accept, PayFails, PayDies, StoredUnannounced,
                vars, mongoVars, handlerVars, InCall
  <2>2. SuccessIsPaid' /\ SoldIsPaid'
    BY <2>1 DEF SuccessIsPaid, SoldIsPaid
  <2>3. QED BY <2>1, <2>2
<1>4. QED BY <1>1, <1>2, <1>3

(* The type of the whole composition and PaidInv, in every environment. *)
THEOREM PaidInvariant == PaySpec => [](TypeOK /\ PaidInv)
<1>1. PaySpec => []TypeOK
  BY PaymentsImplementBooking, TypeCorrect, PTL
<1>2. PayInit => PaidInv
  BY DEF PayInit, Init, PaidInv, PayTypeOK, SuccessIsPaid, SoldIsPaid
<1>3. TypeOK /\ PaidInv /\ [PayNext]_allVars => PaidInv'
  <2> SUFFICES ASSUME TypeOK, PaidInv, [PayNext]_allVars PROVE PaidInv'
    OBVIOUS
  <2>1. CASE UNCHANGED allVars
    BY <2>1 DEF allVars, payVars, vars, mongoVars, handlerVars, PaidInv, PayTypeOK,
                SuccessIsPaid, SoldIsPaid
  <2>2. CASE ServiceNext /\ UNCHANGED payVars BY <2>2, ServiceKeepsPaid
  <2>3. QED BY <2>1, <2>2, PayKeepsPaid DEF PayNext
<1>4. QED BY <1>1, <1>2, <1>3, PTL DEF PaySpec

(* No booking is sold, or has tickets, without a stored payment.           *)
THEOREM SalesArePaid == PaySpec => []SoldIsPaid
<1>1. PaidInv => SoldIsPaid BY DEF PaidInv
<1>2. QED BY <1>1, PaidInvariant, PTL

------------------------------------------------------------------------------
(* One stored payment *)

(* A step of a call keeps the calls of one booking apart, when the client   *)
(* waits for its answer.                                                   *)
LEMMA PayKeepsOnePayment ==
  ASSUME "resend" \notin Env, PayTypeOK, OnePaymentInv, PayNext
  PROVE  OnePaymentInv'
<1> USE DEF OnePaymentInv, OnePaymentStored, OneCall, PayTypeOK, PayGoto, InCall, PaymentExists
<1>1. CASE UNCHANGED payVars BY <1>1 DEF payVars
<1>2. ASSUME NEW p \in Pays, FindPayment(p) PROVE OnePaymentInv'
  BY <1>2 DEF FindPayment, CalledOnce
<1>3. ASSUME NEW p \in Pays, FindBooking(p) PROVE OnePaymentInv'
  BY <1>3 DEF FindBooking
<1>4. ASSUME NEW p \in Pays, Decline(p) PROVE OnePaymentInv'
  BY <1>4 DEF Decline
<1>5. ASSUME NEW p \in Pays, Accept(p) PROVE OnePaymentInv'
  BY <1>5 DEF Accept
<1>6. ASSUME NEW p \in Pays, StorePayment(p) \/ StoredUnannounced(p) PROVE OnePaymentInv'
  BY <1>6 DEF StorePayment, StoredUnannounced
<1>7. ASSUME NEW p \in Pays, PayFails(p) \/ PayDies(p) PROVE OnePaymentInv'
  BY <1>7 DEF PayFails, PayDies
<1>8. QED BY <1>1, <1>2, <1>3, <1>4, <1>5, <1>6, <1>7 DEF PayNext

(* A booking whose client waits for the answer before it pays again has at   *)
(* most one stored payment, whatever fails or dies and whatever the rest   *)
(* of the service does.  Of what the gateway took this says nothing.       *)
THEOREM PaymentsAreSingle ==
  ASSUME "resend" \notin Env
  PROVE  PaySpec => []OnePaymentStored
<1>1. PayInit => OnePaymentInv
  BY DEF PayInit, OnePaymentInv, OnePaymentStored, OneCall, InCall
<1>2. PayTypeOK /\ OnePaymentInv /\ [PayNext]_allVars => OnePaymentInv'
  <2> SUFFICES ASSUME PayTypeOK, OnePaymentInv, [PayNext]_allVars PROVE OnePaymentInv'
    OBVIOUS
  <2>1. CASE UNCHANGED allVars
    BY <2>1 DEF allVars, payVars, OnePaymentInv, OnePaymentStored, OneCall, InCall, PaymentExists
  <2>2. QED BY <2>1, PayKeepsOnePayment
<1>3. PaidInv => PayTypeOK BY DEF PaidInv
<1>4. OnePaymentInv => OnePaymentStored BY DEF OnePaymentInv
<1>5. QED BY <1>1, <1>2, <1>3, <1>4, PaidInvariant, PTL DEF PaySpec
==============================================================================
