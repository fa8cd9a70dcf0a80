------------------------------ MODULE EventAdmin ------------------------------
(***************************************************************************)
(* modules/event/event.service.ts composed with Booking: one event from    *)
(* its creation to its removal, with the two Redis keys that publication   *)
(* sets and closing deletes, while customers book, pay and cancel.  As in  *)
(* Booking a step is one command to MongoDB or Redis.  The event's date    *)
(* stays ahead.                                                            *)
(***************************************************************************)
EXTENDS Booking

CONSTANT Admins   \* calls of the administration, at most once each

AdminOps == {"create", "publish", "cancel", "remove", "update"}

(* to and size are what the payload of an update sets as status and         *)
(* capacity; "same" and 0 stand for a field that is not in it.             *)
ASSUME AdminsAssumption ==
  Admins \subseteq [op : AdminOps, to : EventStatus \cup {"same"}, size : Nat, n : Nat]
ASSUME DateAhead == "evict" \notin Env

VARIABLES
  apc,        \* control of each administration call
  capacity,   \* MongoDB: Event.capacity
  sized,      \* the capacity in the document that a publish call has read
  late        \* history: bookings asked for after the event was closed

adminVars == <<apc, capacity, sized>>
eventVars == <<vars, adminVars, late>>

InProgress == {"save", "setSlots", "setMeta", "delSlots", "delMeta"}

AdminTypeOK ==
  /\ apc \in [Admins -> InProgress \cup {"idle", "done", "refused", "broken"}]
  /\ capacity \in Nat
  /\ sized \in [Admins -> Nat]
  /\ late \subseteq Bookings

(* Before create. *)
AdminInit == /\ Init
             /\ event = "removed"
             /\ apc = [a \in Admins |-> "idle"]
             /\ capacity = Capacity
             /\ sized = [a \in Admins |-> 0]
             /\ late = {}

AdminGoto(a, label) == apc' = [apc EXCEPT ![a] = label]

(* Administrators wait for each other, but for overlap. *)
Called(a, op) ==
  /\ a.op = op
  /\ apc[a] = "idle"
  /\ "overlap" \in Env \/ \A b \in Admins : apc[b] \notin InProgress

(* What a step of the administration leaves alone in Booking. *)
elsewhere == <<locks, holds, owned, idem, status, issued, valid, available, job, stalls,
               requestVars, handlerVars, cpc, late>>

(* create: a draft with all its tickets available, under a fresh id. *)
CreateEvent(a) ==
  /\ Called(a, "create")
  /\ \A b \in Admins : apc[b] = "idle"
  /\ event = "removed"
  /\ event' = "draft"
  /\ capacity' = Capacity
  /\ AdminGoto(a, "done")
  /\ UNCHANGED <<elsewhere, slots, slotsCached, meta, sized>>

(* The status that publishEvent and cancelEvent ask for, and the one they   *)
(* save.                                                                   *)
From(a) == IF a.op = "publish" THEN "draft" ELSE "published"
Into(a) == IF a.op = "publish" THEN "published" ELSE "canceled"

(* Mutant of Transits: the status is not looked at. *)
MutantAnyStatus(a) == From(a) # "removed" /\ event # "removed"

Transits(a) == event = From(a)

FindEvent(a) ==
  /\ Called(a, "publish") \/ Called(a, "cancel")
  /\ IF Transits(a)
       THEN AdminGoto(a, "save") /\ sized' = [sized EXCEPT ![a] = capacity]
       ELSE AdminGoto(a, "refused") /\ UNCHANGED sized
  /\ UNCHANGED <<elsewhere, slots, slotsCached, meta, event, capacity>>

(* save() sets the status by _id, whatever it is by now; without the        *)
(* document it throws.                                                     *)
SaveStatus(a) ==
  /\ apc[a] = "save"
  /\ IF event = "removed"
       THEN AdminGoto(a, "broken") /\ UNCHANGED event
       ELSE /\ event' = Into(a)
            /\ AdminGoto(a, IF a.op = "publish" THEN "setSlots" ELSE "delSlots")
  /\ UNCHANGED <<elsewhere, slots, slotsCached, meta, capacity, sized>>

(* setEventSlots with the capacity in the document read before. *)
PutSlots(a) ==
  /\ apc[a] = "setSlots"
  /\ SetEventSlots(sized[a])
  /\ AdminGoto(a, "setMeta")
  /\ UNCHANGED <<locks, idem, meta, mongoVars, job, stalls, requestVars, handlerVars, cpc,
                 late, capacity, sized>>

PutMeta(a) ==
  /\ apc[a] = "setMeta"
  /\ meta' = "open"
  /\ AdminGoto(a, "done")
  /\ UNCHANGED <<elsewhere, slots, slotsCached, event, capacity, sized>>

(* cancelEvent deletes the counter and then the hash, remove the other way. *)
DropSlots(a) ==
  /\ apc[a] = "delSlots"
  /\ DeleteEventSlots
  /\ AdminGoto(a, IF a.op = "cancel" THEN "delMeta" ELSE "done")
  /\ UNCHANGED <<locks, idem, meta, mongoVars, job, stalls, requestVars, handlerVars, cpc,
                 late, capacity, sized>>

(* Mutant of DropMeta: the hash is left to an expiry it does not have. *)
MutantKeepMeta(a) ==
  /\ apc[a] = "delMeta"
  /\ AdminGoto(a, IF a.op = "remove" THEN "delSlots" ELSE "done")
  /\ UNCHANGED <<elsewhere, slots, slotsCached, meta, event, capacity, sized>>

DropMeta(a) ==
  /\ apc[a] = "delMeta"
  /\ meta' = "none"
  /\ AdminGoto(a, IF a.op = "remove" THEN "delSlots" ELSE "done")
  /\ UNCHANGED <<elsewhere, slots, slotsCached, event, capacity, sized>>

DeleteDocument(a) ==
  /\ Called(a, "remove")
  /\ IF event = "removed"
       THEN AdminGoto(a, "refused") /\ UNCHANGED event
       ELSE AdminGoto(a, "delMeta") /\ event' = "removed"
  /\ UNCHANGED <<elsewhere, slots, slotsCached, meta, capacity, sized>>

(* The filter of update: a capacity may not be less than what is available; *)
(* what is sold or held is not in the comparison.                          *)
Fits(a) == event # "removed" /\ (a.size = 0 \/ available <= a.size)

(* Mutant of Refreshed: the hash is written whatever the status. *)
MutantAlwaysSet(s) == IF s = "published" THEN "setMeta" ELSE "done"

Refreshed(s) == IF s = "published" THEN "setMeta" ELSE "delMeta"

(* findOneAndUpdate, one step: it sets any status, and a capacity without   *)
(* availableTickets or the counter.                                        *)
UpdateDocument(a) ==
  /\ Called(a, "update")
  /\ IF Fits(a)
       THEN /\ event' = IF a.to = "same" THEN event ELSE a.to
            /\ capacity' = IF a.size = 0 THEN capacity ELSE a.size
            /\ AdminGoto(a, Refreshed(event'))
       ELSE AdminGoto(a, "refused") /\ UNCHANGED <<event, capacity>>
  /\ UNCHANGED <<elsewhere, slots, slotsCached, meta, sized>>

(* An await rejects or the process dies: the call ends there, and nothing   *)
(* done so far is undone.  save() may also refuse a document with a         *)
(* negative availableTickets.                                              *)
AdminBreaks(a) ==
  /\ Env \cap {"fault", "crash"} # {} \/ (apc[a] = "save" /\ available < 0)
  /\ apc[a] \in InProgress
  /\ AdminGoto(a, "broken")
  /\ UNCHANGED <<elsewhere, slots, slotsCached, meta, event, capacity, sized>>

AdminStep(a) ==
  \/ CreateEvent(a) \/ FindEvent(a) \/ SaveStatus(a) \/ PutSlots(a) \/ PutMeta(a)
  \/ DropSlots(a) \/ DropMeta(a) \/ DeleteDocument(a) \/ UpdateDocument(a)
  \/ AdminBreaks(a)

Answered(op) == \E a \in Admins : a.op = op /\ apc[a] = "done"

Closed == Answered("cancel") \/ Answered("remove")

(* A customer books what was published, but for early; what was published   *)
(* may be closed by then.                                                  *)
BookingStep ==
  LET asked == {r \in Bookings : rpc[r] = "start" /\ rpc'[r] # "start"}
  IN  /\ Next
      /\ asked # {} => "early" \in Env \/ Answered("publish")
      /\ late' = IF Closed THEN late \cup asked ELSE late
      /\ UNCHANGED adminVars

AdminNext == BookingStep \/ \E a \in Admins : AdminStep(a)

AdminSpec == AdminInit /\ [][AdminNext]_eventVars

------------------------------------------------------------------------------
(* No update has set the status by hand. *)
Unedited == \A a \in Admins : a.op = "update" /\ a.to # "same" => apc[a] = "idle"

(* Every call so far was answered, none broke off. *)
AllAnswered == \A a \in Admins : apc[a] \in {"idle", "done", "refused"}

(* Redis has the hash that makes an event bookable exactly while MongoDB    *)
(* has the event as published, after any sequence of publications,         *)
(* cancellations, updates of any status and removals                       *)
(* (event.service.ts:178-185, 206-207, 244-249, 290-291).                  *)
MetaFollowsStatus == AllAnswered => (meta = "open" <=> event = "published")

(* What is published can be sold once: while the event is published, every  *)
(* unit of the capacity it was published with is in the counter or with    *)
(* one booking; no second publication, refill or update sets the counter   *)
(* over the holds (event.service.ts:232-248).                              *)
PublishedLedger ==
  \A a \in Admins :
    a.op = "publish" /\ apc[a] = "done" /\ event = "published" /\ Unedited =>
      slots + Cardinality(Units(owned)) = sized[a]

(* And it is not sold over: the valid tickets fit in the capacity the event *)
(* was published with, although no purchase ever looks at MongoDB's own    *)
(* capacity and an update may set that below what is sold                  *)
(* (event.service.ts:150-161, 242-249).                                    *)
PublishedFits ==
  \A a \in Admins :
    a.op = "publish" /\ apc[a] = "done" /\ event = "published" /\ Unedited =>
      Cardinality(Units(valid)) <= sized[a]

(* A booking that is asked for after cancelEvent or remove was answered is  *)
(* not stored, although createBooking never looks at the event's status    *)
(* and its own refill brings the counter back (event.service.ts:290-291,   *)
(* booking.service.ts:112-174).                                            *)
LateIsRefused == Unedited => \A r \in late : ~Exists(r)

------------------------------------------------------------------------------
(* What these rest on, while administrators wait for each other *)

(* One call at a time, and what kind of call gets where. *)
OneAdmin ==
  \A a \in Admins :
    /\ apc[a] = "save" => a.op \in {"publish", "cancel"}
    /\ apc[a] \in {"setSlots", "setMeta"} => a.op \in {"publish", "update"}
    /\ \A b \in Admins : apc[a] \in InProgress /\ apc[b] \in InProgress => a = b

(* What each control point of a call finds, if none has broken off. *)
CallsInv ==
  (\A a \in Admins : apc[a] # "broken") =>
    /\ (\A a \in Admins : apc[a] \notin {"setSlots", "setMeta", "delSlots", "delMeta"}) =>
         (meta = "open" <=> event = "published")
    /\ \A a \in Admins :
         /\ apc[a] \in {"setSlots", "setMeta"} => event = "published"
         /\ apc[a] \in {"delSlots", "delMeta"} => event # "published"
         /\ apc[a] = "delSlots" /\ a.op # "cancel" => meta = "none"

(* Inductive without overlap. *)
MetaInv == meta \in {"open", "none"} /\ OneAdmin /\ CallsInv

(* A call that closes the event has closed it in MongoDB before it deletes  *)
(* anything in Redis, and nothing opens it again.                          *)
ClosingInv ==
  /\ \A a \in Admins :
       a.op \in {"cancel", "remove"} =>
         /\ apc[a] \in {"delSlots", "delMeta"} => event \in {"canceled", "removed"}
         /\ apc[a] = "delSlots" /\ a.op = "remove" => meta = "none"
  /\ Closed =>
       /\ event \in {"canceled", "removed"}
       /\ meta = "none"
       /\ \A a \in Admins : apc[a] \notin {"save", "setSlots", "setMeta"}

(* A late call gets no price, and without one there is no document. *)
LateInv ==
  /\ late # {} => Closed
  /\ \A r \in late : r \notin priced /\ rpc[r] # "start" /\ ~Exists(r)
  /\ \A r \in Bookings : rpc[r] = "start" => r \notin priced /\ ~Exists(r)

(* Inductive without overlap and as long as no status is set by hand. *)
ClosedInv == Unedited => ClosingInv /\ LateInv
==============================================================================
