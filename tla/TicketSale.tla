------------------------------ MODULE TicketSale ------------------------------
(***************************************************************************)
(* What the reservation engine promises its customers                      *)
(* (RESERVATION_ENGINE.md:15-35): the units of an event are reserved for   *)
(* a booking when they fit beside everything reserved or sold; only what   *)
(* is reserved is sold; what is sold leaves only by being withdrawn first; *)
(* a booking gives its units back once.                                    *)
(***************************************************************************)
EXTENDS Integers, FiniteSets

CONSTANTS Bookings, Qty, Capacity

VARIABLE stage   \* [Bookings -> {"out", "reserved", "sold", "withdrawn"}]

Units(S) == UNION {{b} \X (1 .. Qty[b]) : b \in S}

Taking == {b \in Bookings : stage[b] # "out"}

Move(b, from, to) == stage[b] = from /\ stage' = [stage EXCEPT ![b] = to]

Init == stage = [b \in Bookings |-> "out"]

Reserve(b) == /\ Move(b, "out", "reserved")
              /\ Cardinality(Units(Taking)) + Qty[b] <= Capacity

Sell(b) == Move(b, "reserved", "sold")

Withdraw(b) == Move(b, "sold", "withdrawn")

GiveBack(b) == Move(b, "reserved", "out") \/ Move(b, "withdrawn", "out")

Next == \E b \in Bookings : Reserve(b) \/ Sell(b) \/ Withdraw(b) \/ GiveBack(b)

Spec == Init /\ [][Next]_stage
==============================================================================
