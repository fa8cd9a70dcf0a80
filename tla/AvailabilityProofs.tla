-------------------------- MODULE AvailabilityProofs --------------------------
(***************************************************************************)
(* Lemmas about Units, the set whose cardinality is the number of tickets  *)
(* of a set of bookings, for every finite set of bookings.                 *)
(***************************************************************************)
EXTENDS Availability, FiniteSetTheorems, TLAPS

(* The units of one booking are as many as it asks for. *)
LEMMA UnitsOfOne ==
  ASSUME NEW b \in Bookings
  PROVE  /\ IsFiniteSet({b} \X (1 .. Qty[b]))
         /\ Cardinality({b} \X (1 .. Qty[b])) = Qty[b]
<1>1. Qty[b] \in Nat \ {0}
  BY QtyAssumption
<1>2. IsFiniteSet(1 .. Qty[b]) /\ Cardinality(1 .. Qty[b]) = Qty[b]
  BY <1>1, FS_Interval
<1>3. IsFiniteSet({b}) /\ Cardinality({b}) = 1
  BY FS_Singleton
<1>4. /\ IsFiniteSet({b} \X (1 .. Qty[b]))
      /\ Cardinality({b} \X (1 .. Qty[b])) = Cardinality({b}) * Cardinality(1 .. Qty[b])
  BY <1>2, <1>3, FS_Product
<1>5. QED BY <1>1, <1>2, <1>3, <1>4

(* Only finitely many units exist. *)
LEMMA UnitsFinite ==
  ASSUME NEW S \in SUBSET Bookings
  PROVE  IsFiniteSet(Units(S)) /\ Cardinality(Units(S)) \in Nat
<1> DEFINE Part == {{b} \X (1 .. Qty[b]) : b \in S}
           f == [b \in S |-> {b} \X (1 .. Qty[b])]
<1>1. IsFiniteSet(S)
  BY BookingsAssumption, FS_Subset
<1>2. f \in Surjection(S, Part)
  BY DEF Surjection
<1>3. IsFiniteSet(Part)
  BY <1>1, <1>2, FS_Surjection
<1>4. \A T \in Part : IsFiniteSet(T)
  BY UnitsOfOne
<1>5. IsFiniteSet(UNION Part)
  BY <1>3, <1>4, FS_UNION
<1>6. QED BY <1>5, FS_CardinalityType DEF Units

(* No booking has no unit. *)
LEMMA UnitsOfNone == Units({}) = {} /\ Cardinality(Units({})) = 0
BY FS_EmptySet DEF Units

(* More bookings have more units. *)
LEMMA UnitsMonotone ==
  ASSUME NEW S \in SUBSET Bookings, NEW T \in SUBSET S
  PROVE  Cardinality(Units(T)) <= Cardinality(Units(S))
<1>1. Units(T) \subseteq Units(S)
  BY DEF Units
<1>2. QED BY <1>1, UnitsFinite, FS_Subset

(* A booking adds exactly its own units. *)
LEMMA UnitsOfAdded ==
  ASSUME NEW S \in SUBSET Bookings, NEW b \in Bookings \ S
  PROVE  Cardinality(Units(S \cup {b})) = Cardinality(Units(S)) + Qty[b]
<1> DEFINE one == {b} \X (1 .. Qty[b])
<1>1. Units(S \cup {b}) = Units(S) \cup one
  BY DEF Units
<1>2. Units(S) \cap one = {}
  <2>1. \A u \in Units(S) : u[1] \in S
    BY DEF Units
  <2>2. \A u \in one : u[1] = b
    OBVIOUS
  <2>3. QED BY <2>1, <2>2
<1>3. IsFiniteSet(one) /\ Cardinality(one) = Qty[b]
  BY UnitsOfOne
<1>4. Cardinality(Units(S) \cup one)
        = Cardinality(Units(S)) + Cardinality(one) - Cardinality(Units(S) \cap one)
  BY <1>3, UnitsFinite, FS_Union
<1>5. Cardinality(Units(S) \cap one) = 0
  BY <1>2, FS_EmptySet
<1>6. Qty[b] \in Nat BY QtyAssumption
<1>7. Cardinality(Units(S)) \in Nat BY UnitsFinite
<1>8. Cardinality(Units(S) \cup one) = Cardinality(Units(S)) + Qty[b]
  <2> HIDE DEF one
  <2>1. Cardinality(Units(S) \cup one) = Cardinality(Units(S)) + Qty[b] - 0
    BY <1>3, <1>4, <1>5
  <2>2. QED BY <2>1, <1>6, <1>7
<1>9. QED BY <1>1, <1>8, Zenon

(* And takes exactly its own units away. *)
LEMMA UnitsOfRemoved ==
  ASSUME NEW S \in SUBSET Bookings, NEW b \in S
  PROVE  Cardinality(Units(S)) = Cardinality(Units(S \ {b})) + Qty[b]
<1>1. S \ {b} \in SUBSET Bookings /\ b \in Bookings \ (S \ {b})
  OBVIOUS
<1>2. (S \ {b}) \cup {b} = S
  OBVIOUS
<1>3. QED BY <1>1, <1>2, UnitsOfAdded
==============================================================================
