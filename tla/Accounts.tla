-------------------------------- MODULE Accounts --------------------------------
(***************************************************************************)
(* The way of a request through the API: middleware, guards, interceptor,  *)
(* handler, answer (Nest's order), with the user service as the handlers   *)
(* modelled here.  The handlers of the other controllers are those of      *)
(* Booking, Payments and EventAdmin; here they answer or throw.            *)
(*                                                                         *)
(* A document of the users collection is named after the call of register  *)
(* that stored it, so what users hold is in Call.  bcrypt and the signing  *)
(* of tokens touch nothing shared: they are part of the step before them.  *)
(***************************************************************************)
EXTENDS RequestLog, FiniteSets

CONSTANTS
  Call,      \* [Requests -> Calls], what each request asks
  Emails,
  Passwords,
  NoOne,     \* no account, or no token: a missing header, a scheme other
             \* than Bearer and a token nobody signed are treated alike
  Scenarios, \* sets of requests: those of one of them are sent
  Env        \* which of the hazards below may happen

Ops == {"register", "login", "profile", "users", "open", "customer", "admin"}

Roles == {"guest", "user", "admin", "all"}

(* The role of a registration is any string or left out. *)
Calls == [op : Ops, email : Emails, pw : Passwords,
          role : Roles \cup {"none", "other"}, token : Requests \cup {NoOne}]

(* fault: a command to MongoDB fails, or its answer is lost;               *)
(* crash: the process that serves a request ends.                          *)
Hazards == {"fault", "crash"}

ASSUME NoOneAssumption == NoOne \notin Requests
ASSUME CallAssumption == Call \in [Requests -> Calls]
ASSUME ScenariosAssumption == Scenarios \subseteq SUBSET Requests
ASSUME EnvAssumption == Env \subseteq Hazards

VARIABLES
  pc,        \* [Requests -> ControlPoints]
  answer,    \* [Requests -> Nat], the status the client got; 0 before
  acct,      \* [Requests -> Requests \cup {NoOne}], the account it acts for
  users,     \* the calls of register whose document is stored
  granted,   \* the calls of login that were given a token
  expired,   \* those whose token has outlived its TTL
  known      \* history, [Requests -> SUBSET Requests]: the registrations
             \* answered 201 before a login was sent

accountVars == <<acct, users, granted, expired>>
vars == <<pc, answer, known, accountVars, logVars>>

ControlPoints == {"absent", "new", "guard", "handler", "save", "done", "gone"}

Op(r) == Call[r].op
EmailOf(r) == Call[r].email

(* role || USER *)
RoleOf(u) == IF Call[u].role = "none" THEN "user" ELSE Call[u].role

(* The guards of the routes. getAllUsers names a role and has no RolesGuard *)
Guarded == Ops \ {"register", "login"}
AnyRole == {"open"}
RoleGuarded == {"customer", "admin"}
Required(op) == IF op = "admin" THEN "admin" ELSE "user"

(* The status of a response whose handler returns; of the routes that are  *)
(* not modelled here it stands for any below 400.                          *)
Success(op) == IF op \in {"profile", "users"} THEN 200 ELSE 201

AccountsTypeOK ==
  /\ ctx \in [Requests -> Contexts]
  /\ writing \subseteq Documents
  /\ logs \subseteq Documents
  /\ dropped \subseteq Documents
  /\ pc \in [Requests -> ControlPoints]
  /\ answer \in [Requests -> Nat]
  /\ acct \in [Requests -> Requests \cup {NoOne}]
  /\ users \subseteq Requests
  /\ granted \subseteq Requests
  /\ expired \subseteq Requests
  /\ known \in [Requests -> SUBSET Requests]

Init == /\ LogInit
        /\ \E sent \in Scenarios :
             pc = [r \in Requests |-> IF r \in sent THEN "new" ELSE "absent"]
        /\ answer = [r \in Requests |-> 0]
        /\ acct = [r \in Requests |-> NoOne]
        /\ users = {}
        /\ granted = {}
        /\ expired = {}
        /\ known = [r \in Requests |-> {}]

Goes(r, p) == pc' = [pc EXCEPT ![r] = p]

Answered(r, status) == Goes(r, "done") /\ answer' = [answer EXCEPT ![r] = status]

(* The handler's result passes the interceptor on its way to the client; an *)
(* error also passes Nest's exception filter, which turns what is no        *)
(* HttpException into a 500.                                                *)
Returns(r) == Answered(r, Success(Op(r))) /\ Finalize(r, Tapped(ctx[r], Success(Op(r))))
Throws(r, error) == Answered(r, StatusOf(error)) /\ Finalize(r, Caught(ctx[r], error))

Registered(g) == Op(g) = "register" /\ answer[g] = 201

(* A request is sent, with a token its client was given before. *)
Arrives(r) ==
  /\ pc[r] = "new"
  /\ Call[r].token \in granted \cup {NoOne}
  /\ Goes(r, IF Op(r) \in Guarded THEN "guard" ELSE "handler")
  /\ OpenContext(r)
  /\ known' = [known EXCEPT ![r] =
                 {g \in Requests : Op(r) = "login" /\ Registered(g)}]
  /\ UNCHANGED <<answer, accountVars>>

(* verifyAsync: the token was signed here and its time has not run out. *)
Verified(r) == Call[r].token \in granted \ expired

(* Mutant of HasRole: anybody logged in. *)
MutantAnyAccount(r) == TRUE

(* The token carries the role its account had at the login. *)
HasRole(r) == Op(r) \in RoleGuarded => RoleOf(acct[Call[r].token]) = Required(Op(r))

(* JwtAuthGuard, then RolesGuard. *)
Admits(r) == /\ pc[r] = "guard"
             /\ Verified(r)
             /\ HasRole(r)
             /\ acct' = [acct EXCEPT ![r] = acct[Call[r].token]]
             /\ Goes(r, "handler")
             /\ UNCHANGED <<answer, known, users, granted, expired, logVars>>

AdmitsGuest(r) == /\ pc[r] = "guard"
                  /\ ~Verified(r)
                  /\ Op(r) \in AnyRole
                  /\ Goes(r, "handler")
                  /\ UNCHANGED <<answer, known, accountVars, logVars>>

(* An error of a guard is answered without passing the interceptor. *)
RejectsToken(r) == /\ pc[r] = "guard"
                   /\ ~Verified(r)
                   /\ Op(r) \notin AnyRole
                   /\ Answered(r, 401)
                   /\ UNCHANGED <<known, accountVars, logVars>>

RejectsRole(r) == /\ pc[r] = "guard"
                  /\ Verified(r)
                  /\ ~HasRole(r)
                  /\ Answered(r, 403)
                  /\ UNCHANGED <<known, accountVars, logVars>>

Handles(r, op) == pc[r] = "handler" /\ Op(r) = op

SameEmail(r) == {u \in users : EmailOf(u) = EmailOf(r)}

(* The pipes run behind the interceptor: a body that does not validate. *)
RefusesBody(r) == /\ pc[r] = "handler"
                  /\ Op(r) \in {"register", "login"}
                  /\ Throws(r, 400)
                  /\ UNCHANGED <<known, accountVars>>

(* register: findOne, then the hash. *)
FindExisting(r) ==
  /\ Handles(r, "register")
  /\ IF SameEmail(r) # {}
     THEN Throws(r, 409)
     ELSE Goes(r, "save") /\ UNCHANGED <<answer, logVars>>
  /\ UNCHANGED <<known, accountVars>>

(* Mutant of Storable: the schema has no unique index. *)
MutantNoIndex(r) == RoleOf(r) \in Roles

(* save: Mongoose looks at the enum, MongoDB at the unique index. *)
Storable(r) == RoleOf(r) \in Roles /\ SameEmail(r) = {}

Save(r) == /\ pc[r] = "save"
           /\ IF Storable(r)
              THEN users' = users \cup {r} /\ Returns(r)
              ELSE users' = users /\ Throws(r, OtherError)
           /\ UNCHANGED <<known, acct, granted, expired>>

(* Mutant of SamePassword: the promise of compare is not awaited. *)
MutantPromise(u, r) == TRUE

SamePassword(u, r) == Call[u].pw = Call[r].pw

(* login: findOne, compare, sign. *)
LogsIn(r) == \E u \in SameEmail(r) :
               /\ Handles(r, "login")
               /\ SamePassword(u, r)
               /\ acct' = [acct EXCEPT ![r] = u]
               /\ granted' = granted \cup {r}
               /\ Returns(r)
               /\ UNCHANGED <<known, users, expired>>

(* No such account, or the one that was found has another password. *)
FailsLogin(r) ==
  /\ Handles(r, "login")
  /\ SameEmail(r) = {} \/ \E u \in SameEmail(r) : ~SamePassword(u, r)
  /\ Throws(r, 401)
  /\ UNCHANGED <<known, accountVars>>

GetProfile(r) == /\ Handles(r, "profile")
                 /\ IF acct[r] \in users THEN Returns(r) ELSE Throws(r, 404)
                 /\ UNCHANGED <<known, accountVars>>

FindAll(r) == /\ Handles(r, "users")
              /\ Returns(r)
              /\ UNCHANGED <<known, accountVars>>

(* Any handler of the other controllers. *)
Serves(r) == /\ pc[r] = "handler"
             /\ Op(r) \in AnyRole \cup RoleGuarded
             /\ Returns(r) \/ \E error \in {400, 401, 404, 409, OtherError} : Throws(r, error)
             /\ UNCHANGED <<known, accountVars>>

(* A command of a handler fails; a save may have been done all the same. *)
Fails(r) == /\ "fault" \in Env
            /\ pc[r] \in {"handler", "save"}
            /\ Throws(r, OtherError)
            /\ UNCHANGED <<known, accountVars>>

SavesUnanswered(r) == /\ "fault" \in Env
                      /\ pc[r] = "save"
                      /\ Storable(r)
                      /\ users' = users \cup {r}
                      /\ Throws(r, OtherError)
                      /\ UNCHANGED <<known, acct, granted, expired>>

LosesLog(r) == \E d \in writing : /\ "fault" \in Env
                                  /\ d.request = r
                                  /\ DropLog(d)
                                  /\ UNCHANGED <<pc, answer, known, accountVars>>

WritesLog(r) == \E d \in writing : /\ d.request = r
                                   /\ StoreLog(d)
                                   /\ UNCHANGED <<pc, answer, known, accountVars>>

(* The process ends, before or after it answered. *)
Dies(r) == /\ "crash" \in Env
           /\ pc[r] \notin {"absent", "new", "gone"}
           /\ Goes(r, "gone")
           /\ LoseWrites(r)
           /\ UNCHANGED <<answer, known, accountVars>>

TokenExpires(r) == /\ r \in granted \ expired
                   /\ expired' = expired \cup {r}
                   /\ UNCHANGED <<pc, answer, known, acct, users, granted, logVars>>

Next == \E r \in Requests :
          \/ Arrives(r)
          \/ Admits(r) \/ AdmitsGuest(r) \/ RejectsToken(r) \/ RejectsRole(r)
          \/ RefusesBody(r) \/ FindExisting(r) \/ Save(r) \/ LogsIn(r) \/ FailsLogin(r)
          \/ GetProfile(r) \/ FindAll(r) \/ Serves(r)
          \/ WritesLog(r)
          \/ Fails(r) \/ SavesUnanswered(r) \/ LosesLog(r) \/ Dies(r)
          \/ TokenExpires(r)

Spec == Init /\ [][Next]_vars

-----------------------------------------------------------------------------
(* Who was told that the registration succeeded is not refused afterwards,  *)
(* whatever registrations of the same address came between: the address is  *)
(* looked up before the hash and stored after it (user.service.ts:30-44).   *)
RegisteredCanLogIn ==
  \A r \in Requests :
    Op(r) = "login" /\ answer[r] = 401 =>
      \A g \in known[r] : ~(EmailOf(g) = EmailOf(r) /\ Call[g].pw = Call[r].pw)

(* A request the guards let through to a handler or past it. *)
Served(r) == pc[r] \in {"handler", "save"} \/ ctx[r].outcome # "none"

(* A route behind RolesGuard serves who gave the password of a stored       *)
(* account of the route's role at some login (jwt-auth.guard.ts,            *)
(* roles.guard.ts).  A role that is only declared keeps nobody out: GET     *)
(* /users names ADMIN without RolesGuard and serves any account             *)
(* (user.controller.ts:60-63).                                             *)
ServedInRole ==
  \A r \in Requests :
    Op(r) \in RoleGuarded /\ Served(r) =>
      \E u \in users, l \in granted :
        /\ EmailOf(u) = EmailOf(l) /\ Call[u].pw = Call[l].pw
        /\ RoleOf(u) = Required(Op(r))
        /\ l = Call[r].token

(* The log of a request says what its client was told, an error at level    *)
(* ERROR (logging.interceptor.ts:31-57, logging.service.ts:107-129).        *)
LogTellsAnswer ==
  \A d \in writing \cup logs \cup dropped :
    /\ d.status = answer[d.request]
    /\ d.level = (IF d.status >= 400 THEN "error" ELSE "log")
    /\ d.outcome = (IF d.status >= 400 THEN "error" ELSE "success")

(* "Always keep errors" (logging.interceptor.ts:76), as far as a request    *)
(* gets to the interceptor: an error that was answered is stored, or on its *)
(* way, or reported on stderr, unless the process has ended.                *)
ErrorsKept ==
  \A r \in Requests :
    pc[r] = "done" /\ answer[r] >= 400 /\ Served(r) =>
      \E d \in writing \cup logs \cup dropped : d.request = r

(* What each control point of a request finds. *)
Control(r) ==
  /\ pc[r] \notin {"done", "gone"} => ctx[r] = NewContext
  /\ pc[r] \in {"absent", "new", "guard", "handler", "save"} => answer[r] = 0
  /\ pc[r] = "guard" => Op(r) \in Guarded
  /\ pc[r] = "save" => Op(r) = "register"
  /\ Registered(r) => r \in users
  /\ \A g \in known[r] : Registered(g)

ControlInv == \A r \in Requests : Control(r)

(* What is stored: one document per address, with a role of the enum.  *)
UserInv ==
  /\ \A u \in users : RoleOf(u) \in Roles
  /\ \A u, v \in users : EmailOf(u) = EmailOf(v) => u = v

(* A token names an account that is stored and whose password was given. *)
TokenInv ==
  \A l \in granted : /\ Op(l) = "login"
                     /\ pc[l] \in {"done", "gone"}
                     /\ acct[l] \in SameEmail(l)
                     /\ Call[acct[l]].pw = Call[l].pw

(* Behind RolesGuard is who brought the token of an account with the role. *)
GuardInv ==
  \A r \in Requests :
    Op(r) \in RoleGuarded /\ Served(r) =>
      /\ Call[r].token \in granted
      /\ RoleOf(acct[Call[r].token]) = Required(Op(r))

(* A document was made when its request was answered. *)
LogInv == \A d \in writing \cup logs \cup dropped : pc[d.request] \in {"done", "gone"}

(* The inductive invariant. *)
AccountsInv == /\ AccountsTypeOK
               /\ ControlInv
               /\ UserInv
               /\ TokenInv
               /\ GuardInv
               /\ LogInv
               /\ RegisteredCanLogIn
               /\ LogTellsAnswer
               /\ ErrorsKept

AccountOf(u) == [email |-> EmailOf(u), pw |-> Call[u].pw, role |-> RoleOf(u)]

LoginOf(r) == [call |-> r, email |-> EmailOf(r), pw |-> Call[r].pw]

Book == INSTANCE AccountBook WITH
  People <- [email : Emails, pw : Passwords, role : Roles],
  Logins <- [call : Requests, email : Emails, pw : Passwords],
  accounts <- {AccountOf(u) : u \in users},
  tokens <- {[login |-> LoginOf(r), role |-> RoleOf(acct[r])] : r \in granted}

(* The user service implements the book of accounts: no address is stored  *)
(* twice, no account changes, and a token is given only for the password   *)
(* of its account (user.service.ts:27-78).                                 *)
BookSpec == Book!Spec
===============================================================================
