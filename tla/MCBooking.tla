----------------------------- MODULE MCBooking -----------------------------
(***************************************************************************)
(* Small instances of Booking.  b1 and b2 are two calls; with MCSameKey    *)
(* b2 retries b1, with MCOwnKeys they compete.  Of the payment events of   *)
(* b1, one succeeded and one failed contradict each other.                 *)
(***************************************************************************)
EXTENDS BookingInvariants, TLC

CONSTANTS b1, b2, k1, k2

MCSameKey == [b \in Bookings |-> k1]
MCOwnKeys == [b \in Bookings |-> IF b = b1 THEN k1 ELSE k2]
MCQty     == [b \in Bookings |-> IF b = b1 THEN 1 ELSE 2]

Paid(b)     == [kind |-> "succeeded", booking |-> b, n |-> 1]
Declined(b) == [kind |-> "failed", booking |-> b, n |-> 1]
Cancel(b)   == [booking |-> b, byOwner |-> TRUE, n |-> 1]
Intruder(b) == [booking |-> b, byOwner |-> FALSE, n |-> 2]

MCContradiction == {Paid(b1), Declined(b1)}
MCPaidOne       == {Paid(b1)}
MCPaidBoth      == {Paid(b1), Paid(b2)}
MCMixed         == {Paid(b1), Declined(b1), Paid(b2)}
MCOneCancel     == {Cancel(b1)}
MCOneIntruder   == {Cancel(b1), Intruder(b1)}
MCTwoCancels    == {Cancel(b1), [Cancel(b1) EXCEPT !.n = 2]}
MCNoCancel      == {}
MCNoEvent       == {}
============================================================================
