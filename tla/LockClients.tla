----------------------------- MODULE LockClients -----------------------------
(***************************************************************************)
(* The way booking.service.ts uses the lock, twice (createBooking and the  *)
(* payment handlers): acquireLock, give up at once when it is busy, do the *)
(* work inside try, releaseLock in finally.  A process may die anywhere;   *)
(* its key then stays until the TTL.  OutliveTTL says whether a live       *)
(* section may take longer than the TTL (10 s and 30 s in the code).       *)
(***************************************************************************)
EXTENDS CachingLock, TLAPS

CONSTANTS Clients, Keys, OutliveTTL

ASSUME OutliveTTLAssumption == OutliveTTL \in BOOLEAN

VARIABLES
  pc,    \* [Clients -> {"idle", "section", "dead"}]
  key    \* [Clients -> Keys], the key of the last call

vars == <<locks, pc, key>>

TypeOK == /\ locks \subseteq Keys
          /\ pc \in [Clients -> {"idle", "section", "dead"}]
          /\ key \in [Clients -> Keys]

Init == LocksInit /\ pc = [c \in Clients |-> "idle"] /\ key \in [Clients -> Keys]

Enter(c, k) == /\ pc[c] = "idle"
               /\ AcquireLock(k)
               /\ pc' = [pc EXCEPT ![c] = "section"]
               /\ key' = [key EXCEPT ![c] = k]

(* Conflict to the HTTP client, or the payment event is dropped. *)
GiveUp(c, k) == /\ pc[c] = "idle"
                /\ LockBusy(k)
                /\ key' = [key EXCEPT ![c] = k]
                /\ UNCHANGED pc

(* finally { releaseLock }, whether the section returned or threw. *)
Leave(c) == /\ pc[c] = "section"
            /\ ReleaseLock(key[c])
            /\ pc' = [pc EXCEPT ![c] = "idle"]
            /\ UNCHANGED key

(* finally, but the DEL itself is lost: the key stays until its TTL. *)
LeaveUnreleased(c) == /\ pc[c] = "section"
                      /\ pc' = [pc EXCEPT ![c] = "idle"]
                      /\ UNCHANGED <<locks, key>>

Die(c) == /\ pc[c] # "dead"
          /\ pc' = [pc EXCEPT ![c] = "dead"]
          /\ UNCHANGED <<locks, key>>

Holds(c, k) == pc[c] = "section" /\ key[c] = k

(* Without a live holder the TTL always runs out; with one only when the   *)
(* section outlives it.                                                    *)
Expire(k) == /\ OutliveTTL \/ \A c \in Clients : ~Holds(c, k)
             /\ LockExpires(k)
             /\ UNCHANGED <<pc, key>>

Next == \/ \E c \in Clients, k \in Keys : Enter(c, k) \/ GiveUp(c, k)
        \/ \E c \in Clients : Leave(c) \/ LeaveUnreleased(c) \/ Die(c)
        \/ \E k \in Keys : Expire(k)

Spec == Init /\ [][Next]_vars

(* A live section ends, and Redis expires keys; nobody has to call. *)
Fairness == /\ \A c \in Clients : WF_vars(Leave(c))
            /\ \A k \in Keys : WF_vars(Expire(k))

FairSpec == Spec /\ Fairness

(* While no section outlives the TTL, two live sections never hold the    *)
(* same key, although the DEL in finally does not look at who set the key  *)
(* (caching.service.ts:66-75).                                             *)
Mutex == \A c, d \in Clients, k \in Keys : Holds(c, k) /\ Holds(d, k) => c = d

(* A lock never outlives its holder for good: after a death or a lost DEL  *)
(* the key is free again, so the next client can enter.                    *)
LockFreed == \A k \in Keys : k \in locks ~> k \notin locks

(* A live section keeps its key: nobody else's finally deletes it. *)
HeldIsLocked == \A c \in Clients : pc[c] = "section" => key[c] \in locks

MutexInv == TypeOK /\ HeldIsLocked /\ Mutex

------------------------------------------------------------------------------
(* Every live section keeps its key set: an acquisition needs it unset, the  *)
(* TTL runs out only without a holder, a DEL removes the caller's own.     *)
LEMMA MutexStep ==
  ASSUME ~OutliveTTL, MutexInv, [Next]_vars
  PROVE  MutexInv'
<1> USE DEF MutexInv, TypeOK, HeldIsLocked, Mutex, Holds
<1>1. ASSUME NEW c \in Clients, NEW k \in Keys, Enter(c, k) PROVE MutexInv'
  BY <1>1 DEF Enter, AcquireLock
<1>2. ASSUME NEW c \in Clients, NEW k \in Keys, GiveUp(c, k) PROVE MutexInv'
  BY <1>2 DEF GiveUp, LockBusy
<1>3. ASSUME NEW c \in Clients, Leave(c) PROVE MutexInv'
  BY <1>3 DEF Leave, ReleaseLock
<1>4. ASSUME NEW c \in Clients, LeaveUnreleased(c) \/ Die(c) PROVE MutexInv'
  BY <1>4 DEF LeaveUnreleased, Die
<1>5. ASSUME NEW k \in Keys, Expire(k) PROVE MutexInv'
  BY <1>5 DEF Expire, LockExpires
<1>6. CASE UNCHANGED vars
  BY <1>6 DEF vars
<1>7. QED BY <1>1, <1>2, <1>3, <1>4, <1>5, <1>6 DEF Next

(* Two live sections never hold one key: the unconditional DEL of           *)
(* releaseLock only removes the caller's own key, because each live section *)
(* still has its key set.                                                  *)
THEOREM LockExcludes == ASSUME ~OutliveTTL PROVE Spec => []Mutex
<1>1. Init => MutexInv
  BY DEF Init, LocksInit, MutexInv, TypeOK, HeldIsLocked, Mutex, Holds
<1>2. MutexInv /\ [Next]_vars => MutexInv'
  BY MutexStep
<1>3. MutexInv => Mutex
  BY DEF MutexInv
<1>4. QED BY <1>1, <1>2, <1>3, PTL DEF Spec
==============================================================================
