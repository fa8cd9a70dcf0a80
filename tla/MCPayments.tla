----------------------------- MODULE MCPayments -----------------------------
(* One booking that is paid for twice: with both outcomes of each call, a   *)
(* declined first attempt and its retry, or two answers that contradict    *)
(* each other.                                                             *)
EXTENDS Payments

CONSTANTS b1, k1

MCKeyOf  == [b \in Bookings |-> k1]
MCQty    == [b \in Bookings |-> 1]
MCPays   == {[booking |-> b1, n |-> 1], [booking |-> b1, n |-> 2]}
MCEvents == [kind : EventKinds, booking : {b1}, n : {1, 2}]
MCOneCancel == {[booking |-> b1, byOwner |-> TRUE, n |-> 1]}
MCNoCancel  == {}
==============================================================================
