----------------------------- MODULE MCEventAdmin -----------------------------
(* One booking of two units, and an event that is created, published twice, *)
(* resized, given another status by hand, cancelled and removed, in any     *)
(* order.                                                                  *)
EXTENDS EventAdmin

CONSTANTS b1, k1

MCQty   == [b \in Bookings |-> 2]
MCKeyOf == [b \in Bookings |-> k1]

Call(op, n) == [op |-> op, to |-> "same", size |-> 0, n |-> n]
MCAdmins == {Call("create", 1), Call("publish", 1), Call("publish", 2),
             Call("cancel", 1), Call("remove", 1),
             [op |-> "update", to |-> "same", size |-> 3, n |-> 1],
             [op |-> "update", to |-> "sold_out", size |-> 0, n |-> 1]}
==============================================================================
