------------------------------ MODULE RequestLog ------------------------------
(***************************************************************************)
(* One wide event per HTTP request: core/logging.  The middleware opens a  *)
(* context, everything the request runs assigns to it, the interceptor     *)
(* adds how the handler ended and, if the event is to be kept, starts a    *)
(* write to MongoDB that nobody waits for.  Of a payload, the fields that  *)
(* decide something are kept: status code, outcome and level.              *)
(* Actions only; Accounts extends this module.                             *)
(***************************************************************************)
EXTENDS Integers

CONSTANT Requests   \* the HTTP requests

VARIABLES
  ctx,       \* [Requests -> Contexts], the AsyncLocalStorage of each request
  writing,   \* documents given to logModel.create and not yet answered
  logs,      \* the documents of the collection "logs"
  dropped    \* documents whose create failed: a line on stderr is left

logVars == <<ctx, writing, logs, dropped>>

Levels == {"verbose", "debug", "log", "warn", "error", "fatal"}

Priority == [verbose |-> 0, debug |-> 1, log |-> 2, warn |-> 3,
             error |-> 4, fatal |-> 5]

(* An HttpException is known by its status; anything else that is thrown   *)
(* (a driver's, a validation error of Mongoose) by OtherError.             *)
OtherError == 0

StatusOf(error) == IF error = OtherError THEN 500 ELSE error

Contexts == [status : Nat, outcome : {"none", "success", "error"},
             assigned : Levels \cup {"none"}, level : Levels]

Documents == [request : Requests, status : Nat,
              outcome : {"none", "success", "error"}, level : Levels]

NewContext == [status |-> 0, outcome |-> "none", assigned |-> "none",
               level |-> "log"]

(* Mutant of MoreSevere: the comparison the other way round. *)
MutantLessSevere(new, current) == Priority[new] < Priority[current]

MoreSevere(new, current) == Priority[new] > Priority[current]

(* assign without a level: the fields given replace those of the payload. *)
Assign(c, status, outcome) ==
  [status |-> status, outcome |-> outcome, assigned |-> c.assigned, level |-> c.level]

(* assign with one: the payload takes it, the context only if it is more   *)
(* severe.                                                                 *)
AssignLevel(c, level) ==
  [status |-> c.status, outcome |-> c.outcome, assigned |-> level,
   level |-> IF MoreSevere(level, c.level) THEN level ELSE c.level]

(* tap: the handler returned, status is what the response has by then. *)
Tapped(c, status) ==
  Assign(c, status, IF status >= 400 THEN "error" ELSE "success")

(* Mutant of Caught: an HttpException is no failure of the server. *)
MutantCaughtQuietly(c, error) ==
  LET d == Assign(c, StatusOf(error), "error")
  IN  IF error = OtherError THEN AssignLevel(d, "error") ELSE d

(* catchError: the handler threw. *)
Caught(c, error) == AssignLevel(Assign(c, StatusOf(error), "error"), "error")

(* shouldLog; kept stands for "slow, or sampled".  Nobody sets isVip.      *)
ShouldLog(c, kept) == c.level \in {"error", "fatal"} \/ c.status >= 500 \/ kept

(* persist: the document is made at once, and prefers the payload's level. *)
Document(r, c) ==
  [request |-> r, status |-> c.status, outcome |-> c.outcome,
   level |-> IF c.assigned = "none" THEN c.level ELSE c.assigned]

LogInit == /\ ctx = [r \in Requests |-> NewContext]
           /\ writing = {}
           /\ logs = {}
           /\ dropped = {}

(* The middleware: a fresh context for the request. *)
OpenContext(r) == /\ ctx' = [ctx EXCEPT ![r] = NewContext]
                  /\ UNCHANGED <<writing, logs, dropped>>

(* finalize: c is the context tap or catchError left behind. *)
Finalize(r, c) ==
  /\ ctx' = [ctx EXCEPT ![r] = c]
  /\ \E kept \in BOOLEAN :
       writing' = IF ShouldLog(c, kept) THEN writing \cup {Document(r, c)}
                                        ELSE writing
  /\ UNCHANGED <<logs, dropped>>

(* create succeeds, or persist reports on stderr that it did not. *)
StoreLog(d) == /\ d \in writing
               /\ writing' = writing \ {d}
               /\ logs' = logs \cup {d}
               /\ UNCHANGED <<ctx, dropped>>

DropLog(d) == /\ d \in writing
              /\ writing' = writing \ {d}
              /\ dropped' = dropped \cup {d}
              /\ UNCHANGED <<ctx, logs>>

(* The process ends and its writes with it. *)
LoseWrites(r) == /\ writing' = {d \in writing : d.request # r}
                 /\ UNCHANGED <<ctx, logs, dropped>>
===============================================================================
