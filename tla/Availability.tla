----------------------------- MODULE Availability -----------------------------
(***************************************************************************)
(* The Redis inventory of one event: modules/availability and its two Lua  *)
(* scripts.  event:<id>:slots is the counter of units still for sale,      *)
(* hold:<booking> the marker of a booking's hold.  A script or a single    *)
(* Redis command is one step; setEventSlots is a plain SET and a refill    *)
(* after a cache miss is two steps of its caller (read Mongo, then SET).   *)
(*                                                                         *)
(* owned is a history variable, no state of the code: the bookings whose   *)
(* units some hold took out of the counter and no release has put back.    *)
(***************************************************************************)
EXTENDS Integers, FiniteSets

CONSTANTS
  Bookings,   \* the bookings of the event
  Qty,        \* [Bookings -> Nat \ {0}], units each booking asks for
  Capacity    \* units of the event

ASSUME BookingsAssumption == IsFiniteSet(Bookings)
ASSUME QtyAssumption == Qty \in [Bookings -> Nat \ {0}]
ASSUME CapacityAssumption == Capacity \in Nat

VARIABLES
  slots,         \* the counter; 0 while the key does not exist
  slotsCached,   \* whether the key exists
  holds,         \* the bookings b with a key hold:<b>
  owned          \* history: see above

availabilityVars == <<slots, slotsCached, holds, owned>>

(* One element per ticket of a booking: the number of units of the         *)
(* bookings S is the cardinality of Units(S).                              *)
Units(S) == UNION {{b} \X (1 .. Qty[b]) : b \in S}

AvailabilityTypeOK == /\ slots \in Int
                      /\ slotsCached \in BOOLEAN
                      /\ holds \subseteq Bookings
                      /\ owned \subseteq Bookings

(* A published event has its counter, a draft or ended one has no key. *)
AvailabilityInit(published) ==
  /\ slotsCached = published
  /\ slots = IF published THEN Capacity ELSE 0
  /\ holds = {}
  /\ owned = {}

(* Mutant of EnoughSlots: any unit left is enough. *)
MutantAnySlot(b) == 0 < slots

(* check-and-hold.lua: GET or 0, compare, DECRBY, SET hold PX, in one step. *)
EnoughSlots(b) == Qty[b] <= slots

CheckAndHold(b) == /\ EnoughSlots(b)
                   /\ slots' = slots - Qty[b]
                   /\ holds' = holds \cup {b}
                   /\ owned' = owned \cup {b}
                   /\ UNCHANGED slotsCached

(* Mutant of ReleaseHold: the script drops the hold and forgets INCRBY. *)
MutantDropOnly(b) == /\ holds' = holds \ {b}
                     /\ owned' = owned \ {b}
                     /\ UNCHANGED <<slots, slotsCached>>

(* release-hold.lua: INCRBY always, then DEL; the hold is never looked at. *)
(* INCRBY creates a missing counter.                                       *)
ReleaseHold(b) == /\ slots' = slots + Qty[b]
                  /\ slotsCached' = TRUE
                  /\ holds' = holds \ {b}
                  /\ owned' = owned \ {b}

(* setEventSlots: SET whatever the counter held before, with the holds      *)
(* that are out left as they are.                                          *)
SetEventSlots(n) == /\ slots' = n
                    /\ slotsCached' = TRUE
                    /\ UNCHANGED <<holds, owned>>

(* deleteEventSlots: DEL, whether the key exists or not. *)
DeleteEventSlots == /\ slots' = 0
                    /\ slotsCached' = FALSE
                    /\ UNCHANGED <<holds, owned>>

(* The counter's key goes: its TTL floors to whole seconds before the date *)
(* of the event, or Redis evicts it.                                       *)
SlotsLost == slotsCached /\ DeleteEventSlots

(* The PX of the hold key runs out; the units stay out of the counter. *)
HoldExpires(b) == /\ b \in holds
                  /\ holds' = holds \ {b}
                  /\ UNCHANGED <<slots, slotsCached, owned>>

==============================================================================
