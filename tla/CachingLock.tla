----------------------------- MODULE CachingLock -----------------------------
(***************************************************************************)
(* The lock of core/caching/caching.service.ts: acquireLock is one Redis   *)
(* SET lock:<key> LOCK PX ttl NX, releaseLock one DEL of the key.  The     *)
(* value is the constant LOCK, so the key does not say who set it, and the *)
(* DEL removes whatever lock is there.  Redis holds exactly the set of     *)
(* keys that exist; a key vanishes by DEL or when its TTL runs out.        *)
(***************************************************************************)
VARIABLE locks   \* the keys k for which lock:k exists

LocksInit == locks = {}

(* Mutant of AcquireLock: SET without NX. *)
MutantSetWithoutNX(k) == locks' = locks \cup {k}

(* SET NX answers OK: the key did not exist and does now. *)
AcquireLock(k) == k \notin locks /\ locks' = locks \cup {k}

(* SET NX answers nil. *)
LockBusy(k) == k \in locks /\ UNCHANGED locks

(* An unconditional DEL, whoever set the key. *)
ReleaseLock(k) == locks' = locks \ {k}

(* Mutant of LockExpires: SET NX without PX. *)
MutantNoTTL(k) == FALSE /\ UNCHANGED locks

(* The TTL (PX) of the key runs out. *)
LockExpires(k) == k \in locks /\ locks' = locks \ {k}
==============================================================================
