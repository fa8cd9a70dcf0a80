---------------------------- MODULE AccountsProofs ----------------------------
(***************************************************************************)
(* Proofs about Accounts for any set of requests, whatever they ask, in    *)
(* every environment.  A step of a request is one of a few kinds, told     *)
(* apart by what it does to the log and to the accounts; each part of      *)
(* AccountsInv is shown for each kind.                                     *)
(***************************************************************************)
EXTENDS Accounts, TLAPS

ErrorContext(s) == [status |-> s, outcome |-> "error", assigned |-> "error",
                    level |-> "error"]
GoodContext(s) == [status |-> s, outcome |-> "success", assigned |-> "none",
                   level |-> "log"]
ErrorDocument(r, s) == [request |-> r, status |-> s, outcome |-> "error", level |-> "error"]
GoodDocument(r, s) == [request |-> r, status |-> s, outcome |-> "success", level |-> "log"]

Failures == {400, 401, 404, 409, 500}

Ends(r, s) == /\ pc[r] \in {"handler", "save"}
              /\ Answered(r, s)
              /\ UNCHANGED <<logs, dropped, known, expired>>

EndsBadly(r, s) == /\ Ends(r, s)
                   /\ s \in Failures
                   /\ ctx' = [ctx EXCEPT ![r] = ErrorContext(s)]
                   /\ writing' = writing \cup {ErrorDocument(r, s)}

EndsWell(r, s) == /\ Ends(r, s)
                  /\ s \in {200, 201}
                  /\ ctx' = [ctx EXCEPT ![r] = GoodContext(s)]
                  /\ writing' \in {writing, writing \cup {GoodDocument(r, s)}}

(* The kinds of steps that are not guards or arrivals. *)
Drafts(r) == /\ Handles(r, "register")
             /\ Goes(r, "save")
             /\ UNCHANGED <<answer, known, accountVars, logVars>>

EndsInVain(r) == \E s \in Failures :
  /\ EndsBadly(r, s)
  /\ s = 401 => FailsLogin(r) \/ Op(r) # "login"
  /\ UNCHANGED accountVars

Stores(r) == /\ pc[r] = "save"
             /\ Storable(r)
             /\ users' = users \cup {r}
             /\ UNCHANGED <<acct, granted>>
             /\ EndsWell(r, 201) \/ EndsBadly(r, 500)

Signs(r) == \E u \in SameEmail(r) :
  /\ Handles(r, "login")
  /\ Call[u].pw = Call[r].pw
  /\ acct' = [acct EXCEPT ![r] = u]
  /\ granted' = granted \cup {r}
  /\ EndsWell(r, 201)
  /\ UNCHANGED users

Delivers(r) == \E s \in {200, 201} : /\ EndsWell(r, s)
                                     /\ Op(r) \notin {"register", "login"}
                                     /\ UNCHANGED accountVars

Moves(r) == \E d \in writing :
  /\ writing' = writing \ {d}
  /\ \/ logs' = logs \cup {d} /\ dropped' = dropped
     \/ dropped' = dropped \cup {d} /\ logs' = logs
  /\ UNCHANGED <<pc, answer, known, accountVars, ctx>>

(* assign, on a context that nothing was assigned to. *)
LEMMA AssignFirst ==
  ASSUME NEW s, NEW o
  PROVE  Assign(NewContext, s, o) =
           [status |-> s, outcome |-> o, assigned |-> "none", level |-> "log"]
  BY DEF Assign, NewContext

(* What catchError and finalize leave of a request that throws. *)
LEMMA Thrown ==
  ASSUME AccountsTypeOK, NEW r \in Requests, ctx[r] = NewContext,
         pc[r] \in {"handler", "save"},
         NEW e \in {400, 401, 404, 409, OtherError}, Throws(r, e),
         UNCHANGED <<known, expired>>
  PROVE  EndsBadly(r, StatusOf(e)) /\ StatusOf(e) \in Failures
         /\ (StatusOf(e) = 401 <=> e = 401)
<1> DEFINE c == Caught(ctx[r], e)
<1>1. StatusOf(e) \in Failures /\ (StatusOf(e) = 401 <=> e = 401)
  BY DEF StatusOf, OtherError, Failures
<1>2. MoreSevere("error", "log")
  BY DEF MoreSevere, Priority
<1>3. c = ErrorContext(StatusOf(e))
  <2> DEFINE d == [status |-> StatusOf(e), outcome |-> "error",
                   assigned |-> "none", level |-> "log"]
  <2>1. c = AssignLevel(d, "error")
    BY AssignFirst DEF Caught
  <2>2. d.level = "log"
    OBVIOUS
  <2>3. AssignLevel(d, "error") = ErrorContext(StatusOf(e))
    BY <1>2, <2>2 DEF AssignLevel, ErrorContext
  <2>4. QED BY <2>1, <2>3
<1>4. Document(r, c) = ErrorDocument(r, StatusOf(e))
  BY <1>3 DEF Document, ErrorContext, ErrorDocument
<1>5. \A kept \in BOOLEAN : ShouldLog(c, kept)
  BY <1>3 DEF ShouldLog, ErrorContext
<1>6. writing' = writing \cup {Document(r, c)} /\ ctx' = [ctx EXCEPT ![r] = c]
      /\ UNCHANGED <<logs, dropped>> /\ Answered(r, StatusOf(e))
  <2>1. Answered(r, StatusOf(e)) /\ Finalize(r, c)
    BY DEF Throws
  <2>2. PICK kept \in BOOLEAN :
          writing' = IF ShouldLog(c, kept) THEN writing \cup {Document(r, c)} ELSE writing
    BY <2>1, Zenon DEF Finalize
  <2>3. ShouldLog(c, kept)
    BY <1>5, <2>2
  <2>4. writing' = writing \cup {Document(r, c)}
    BY <2>2, <2>3
  <2>5. ctx' = [ctx EXCEPT ![r] = c] /\ UNCHANGED <<logs, dropped>>
    BY <2>1, Zenon DEF Finalize
  <2>6. QED BY <2>1, <2>4, <2>5
<1>7. QED BY <1>1, <1>3, <1>4, <1>6 DEF EndsBadly, Ends

(* What tap and finalize leave of a request whose handler returns. *)
LEMMA Returned ==
  ASSUME AccountsTypeOK, NEW r \in Requests, ctx[r] = NewContext,
         pc[r] \in {"handler", "save"}, Returns(r),
         UNCHANGED <<known, expired>>
  PROVE  EndsWell(r, Success(Op(r))) /\ Success(Op(r)) \in {200, 201}
<1> DEFINE s == Success(Op(r))
           c == Tapped(ctx[r], s)
<1>1. s \in {200, 201}
  BY DEF Success
<1>2. c = GoodContext(s)
  BY <1>1, AssignFirst DEF Tapped, GoodContext
<1>3. Document(r, c) = GoodDocument(r, s)
  BY <1>2 DEF Document, GoodContext, GoodDocument
<1>4. writing' \in {writing, writing \cup {Document(r, c)}}
      /\ ctx' = [ctx EXCEPT ![r] = c]
      /\ UNCHANGED <<logs, dropped>> /\ Answered(r, s)
  <2>1. Answered(r, s) /\ Finalize(r, c)
    BY DEF Returns
  <2>2. PICK kept \in BOOLEAN :
          writing' = IF ShouldLog(c, kept) THEN writing \cup {Document(r, c)} ELSE writing
    BY <2>1, Zenon DEF Finalize
  <2>3. writing' \in {writing, writing \cup {Document(r, c)}}
    BY <2>2
  <2>4. ctx' = [ctx EXCEPT ![r] = c] /\ UNCHANGED <<logs, dropped>>
    BY <2>1, Zenon DEF Finalize
  <2>5. QED BY <2>1, <2>3, <2>4
<1>5. QED BY <1>1, <1>2, <1>3, <1>4 DEF EndsWell, Ends

(* Every step is of one of the kinds. *)
Kind(r) == \/ Arrives(r) \/ Admits(r) \/ AdmitsGuest(r)
           \/ RejectsToken(r) \/ RejectsRole(r)
           \/ Drafts(r) \/ EndsInVain(r) \/ Stores(r) \/ Signs(r) \/ Delivers(r)
           \/ Moves(r) \/ Dies(r) \/ TokenExpires(r)

LEMMA Kinds ==
  ASSUME AccountsInv, NEW r \in Requests,
         \/ RefusesBody(r) \/ FindExisting(r) \/ Save(r) \/ LogsIn(r) \/ FailsLogin(r)
         \/ GetProfile(r) \/ FindAll(r) \/ Serves(r)
         \/ WritesLog(r) \/ Fails(r) \/ SavesUnanswered(r) \/ LosesLog(r)
  PROVE  Kind(r)
<1> USE DEF AccountsInv
<1>1. pc[r] \in {"handler", "save"} => ctx[r] = NewContext
  BY DEF ControlInv, Control
<1>2. ASSUME NEW e \in {400, 404, 409, OtherError}, Throws(r, e),
             pc[r] \in {"handler", "save"}, UNCHANGED <<known, accountVars>>
      PROVE  EndsInVain(r)
  <2>1. EndsBadly(r, StatusOf(e)) /\ StatusOf(e) \in Failures /\ StatusOf(e) # 401
    BY <1>1, <1>2, Thrown DEF accountVars, OtherError
  <2>2. QED BY <2>1, <1>2 DEF EndsInVain
<1>3. CASE RefusesBody(r)
  BY <1>3, <1>2 DEF RefusesBody, Kind
<1>4. CASE FindExisting(r)
  <2>1. CASE SameEmail(r) # {}
    <3>1. Throws(r, 409) /\ pc[r] = "handler" /\ UNCHANGED <<known, accountVars>>
      BY <1>4, <2>1 DEF FindExisting, Handles
    <3>2. QED BY <3>1, <1>2 DEF Kind
  <2>2. CASE SameEmail(r) = {}
    BY <1>4, <2>2 DEF FindExisting, Drafts, Kind
  <2>3. QED BY <2>1, <2>2
<1>5. CASE Save(r)
  <2>1. CASE Storable(r)
    <3>1. Returns(r) /\ pc[r] = "save" /\ users' = users \cup {r}
          /\ UNCHANGED <<known, expired, acct, granted>>
      BY <1>5, <2>1 DEF Save
    <3>2. Op(r) = "register"
      BY <3>1 DEF ControlInv, Control
    <3>3. EndsWell(r, Success(Op(r)))
      BY <3>1, <1>1, Returned
    <3>4. Success(Op(r)) = 201
      BY <3>2 DEF Success
    <3>5. EndsWell(r, 201)
      BY <3>3, <3>4
    <3>6. QED BY <3>1, <3>5, <2>1 DEF Stores, Kind
  <2>2. CASE ~Storable(r)
    <3>1. Throws(r, OtherError) /\ pc[r] = "save" /\ UNCHANGED <<known, accountVars>>
      BY <1>5, <2>2 DEF Save, accountVars
    <3>2. QED BY <3>1, <1>2 DEF Kind
  <2>3. QED BY <2>1, <2>2
<1>6. CASE LogsIn(r)
  <2>1. PICK u \in SameEmail(r) :
          /\ Handles(r, "login") /\ Call[u].pw = Call[r].pw
          /\ acct' = [acct EXCEPT ![r] = u] /\ granted' = granted \cup {r}
          /\ Returns(r) /\ UNCHANGED <<known, users, expired>>
    BY <1>6 DEF LogsIn, SamePassword
  <2>2. EndsWell(r, Success(Op(r))) /\ Success(Op(r)) = 201
    BY <2>1, <1>1, Returned DEF Handles, Success
  <2>3. EndsWell(r, 201)
    BY <2>2
  <2>4. QED BY <2>1, <2>3 DEF Signs, Kind
<1>7. CASE FailsLogin(r)
  <2>1. Throws(r, 401) /\ pc[r] = "handler" /\ UNCHANGED <<known, accountVars>>
    BY <1>7 DEF FailsLogin, Handles
  <2>2. EndsBadly(r, StatusOf(401)) /\ StatusOf(401) \in Failures
    BY <2>1, <1>1, Thrown DEF accountVars
  <2>3. QED BY <2>1, <2>2, <1>7 DEF EndsInVain, Kind
<1>8. ASSUME Returns(r), pc[r] = "handler", Op(r) \notin {"register", "login"},
             UNCHANGED <<known, accountVars>>
      PROVE  Delivers(r)
  BY <1>8, <1>1, Returned DEF Delivers, accountVars
<1>9. CASE GetProfile(r)
  <2>1. pc[r] = "handler" /\ Op(r) = "profile" /\ UNCHANGED <<known, accountVars>>
        /\ (Returns(r) \/ Throws(r, 404))
    BY <1>9 DEF GetProfile, Handles
  <2>2. QED BY <2>1, <1>2, <1>8 DEF Kind
<1>10. CASE FindAll(r)
  BY <1>10, <1>8 DEF FindAll, Handles, Kind
<1>11. CASE Serves(r)
  <2>1. pc[r] = "handler" /\ Op(r) \notin {"register", "login"}
        /\ UNCHANGED <<known, accountVars>>
    BY <1>11 DEF Serves, AnyRole, RoleGuarded
  <2>2. CASE Returns(r)
    BY <2>1, <2>2, <1>8 DEF Kind
  <2>3. ASSUME NEW e \in {400, 401, 404, 409, OtherError}, Throws(r, e) PROVE Kind(r)
    <3>1. EndsBadly(r, StatusOf(e)) /\ StatusOf(e) \in Failures
      BY <1>1, <2>1, <2>3, Thrown DEF accountVars
    <3>2. QED BY <2>1, <3>1 DEF EndsInVain, Kind
  <2>4. QED BY <1>11, <2>2, <2>3 DEF Serves
<1>12. CASE WritesLog(r)
  BY <1>12 DEF WritesLog, StoreLog, Moves, Kind
<1>13. CASE LosesLog(r)
  BY <1>13 DEF LosesLog, DropLog, Moves, Kind
<1>14. CASE Fails(r)
  BY <1>14, <1>2 DEF Fails, Kind
<1>15. CASE SavesUnanswered(r)
  <2>1. Throws(r, OtherError) /\ pc[r] = "save" /\ Storable(r) /\ users' = users \cup {r}
        /\ UNCHANGED <<known, expired, acct, granted>>
    BY <1>15 DEF SavesUnanswered
  <2>2. EndsBadly(r, StatusOf(OtherError)) /\ StatusOf(OtherError) = 500
    BY <2>1, <1>1, Thrown DEF StatusOf
  <2>3. EndsBadly(r, 500)
    BY <2>2
  <2>4. QED BY <2>1, <2>3 DEF Stores, Kind
<1>16. QED BY <1>3, <1>4, <1>5, <1>6, <1>7, <1>9, <1>10, <1>11, <1>12, <1>13, <1>14, <1>15

LEMMA SomeKind ==
  ASSUME AccountsInv, Next
  PROVE  \E r \in Requests : Kind(r)
<1>1. PICK r \in Requests :
          \/ Kind(r)
          \/ \/ RefusesBody(r) \/ FindExisting(r) \/ Save(r) \/ LogsIn(r) \/ FailsLogin(r)
             \/ GetProfile(r) \/ FindAll(r) \/ Serves(r)
             \/ WritesLog(r) \/ Fails(r) \/ SavesUnanswered(r) \/ LosesLog(r)
  BY Zenon DEF Next, Kind
<1>2. QED BY <1>1, Kinds

LEMMA CallTypes ==
  ASSUME NEW r \in Requests
  PROVE  Op(r) \in Ops /\ EmailOf(r) \in Emails /\ Call[r].pw \in Passwords
  BY CallAssumption DEF Op, EmailOf, Calls

LEMMA DocumentTypes ==
  ASSUME NEW r \in Requests, NEW s \in Nat
  PROVE  /\ ErrorContext(s) \in Contexts /\ ErrorDocument(r, s) \in Documents
         /\ GoodContext(s) \in Contexts /\ GoodDocument(r, s) \in Documents
         /\ NewContext \in Contexts
  BY DEF ErrorContext, ErrorDocument, GoodContext, GoodDocument, NewContext,
         Contexts, Documents, Levels

(* An answer moves the request to "done" and adds at most one document,     *)
(* which tells the answer.                                                  *)
LEMMA Ended ==
  ASSUME AccountsTypeOK, NEW r \in Requests, NEW s, EndsBadly(r, s) \/ EndsWell(r, s)
  PROVE  /\ s \in Nat
         /\ pc[r] \in {"handler", "save"}
         /\ pc' = [pc EXCEPT ![r] = "done"]
         /\ answer' = [answer EXCEPT ![r] = s]
         /\ \E c \in Contexts : ctx' = [ctx EXCEPT ![r] = c]
         /\ \E d \in Documents : /\ writing' \in {writing, writing \cup {d}}
                                 /\ d.request = r /\ d.status = s
                                 /\ d.level = (IF s >= 400 THEN "error" ELSE "log")
                                 /\ d.outcome = (IF s >= 400 THEN "error" ELSE "success")
         /\ UNCHANGED <<logs, dropped, known, expired>>
<1>1. CASE EndsBadly(r, s)
  <2>1. s \in Nat /\ s >= 400
    BY <1>1 DEF EndsBadly, Failures
  <2>2. ErrorContext(s) \in Contexts /\ ErrorDocument(r, s) \in Documents
    BY <2>1, DocumentTypes
  <2>3. ErrorDocument(r, s).request = r /\ ErrorDocument(r, s).status = s
        /\ ErrorDocument(r, s).level = "error" /\ ErrorDocument(r, s).outcome = "error"
    BY DEF ErrorDocument
  <2>4. QED BY <1>1, <2>1, <2>2, <2>3 DEF EndsBadly, Ends, Answered, Goes
<1>2. CASE EndsWell(r, s)
  <2>1. s \in Nat /\ ~(s >= 400)
    BY <1>2 DEF EndsWell
  <2>2. GoodContext(s) \in Contexts /\ GoodDocument(r, s) \in Documents
    BY <2>1, DocumentTypes
  <2>3. GoodDocument(r, s).request = r /\ GoodDocument(r, s).status = s
        /\ GoodDocument(r, s).level = "log" /\ GoodDocument(r, s).outcome = "success"
    BY DEF GoodDocument
  <2>4. QED BY <1>2, <2>1, <2>2, <2>3 DEF EndsWell, Ends, Answered, Goes
<1>3. QED BY <1>1, <1>2

LEMMA TypesKept ==
  ASSUME AccountsInv, NEW r \in Requests, Kind(r)
  PROVE  AccountsTypeOK'
<1> USE DEF AccountsInv
<1>1. NewContext \in Contexts
  BY DocumentTypes
<1>2. ASSUME NEW s, EndsBadly(r, s) \/ EndsWell(r, s)
      PROVE  /\ ctx' \in [Requests -> Contexts] /\ writing' \subseteq Documents
             /\ logs' \subseteq Documents /\ dropped' \subseteq Documents
             /\ pc' \in [Requests -> ControlPoints] /\ answer' \in [Requests -> Nat]
             /\ expired' \subseteq Requests /\ known' \in [Requests -> SUBSET Requests]
  <2>1. PICK c \in Contexts : ctx' = [ctx EXCEPT ![r] = c]
    BY <1>2, Ended
  <2>2. PICK d \in Documents : writing' \in {writing, writing \cup {d}}
    BY <1>2, Ended
  <2>3. /\ s \in Nat /\ pc' = [pc EXCEPT ![r] = "done"]
        /\ answer' = [answer EXCEPT ![r] = s]
        /\ UNCHANGED <<logs, dropped, known, expired>>
    BY <1>2, Ended
  <2>4. QED BY <2>1, <2>2, <2>3 DEF AccountsTypeOK, ControlPoints
<1>3. CASE Arrives(r)
  BY <1>3, <1>1 DEF Arrives, OpenContext, Goes, AccountsTypeOK, ControlPoints, accountVars
<1>4. CASE Admits(r)
  <2>1. Call[r].token \in Requests
    BY <1>4 DEF Admits, Verified, AccountsTypeOK
  <2>2. acct' \in [Requests -> Requests \cup {NoOne}]
    BY <1>4, <2>1 DEF Admits, AccountsTypeOK
  <2>3. QED BY <1>4, <2>2 DEF Admits, Goes, AccountsTypeOK, ControlPoints, logVars
<1>5. CASE AdmitsGuest(r)
  BY <1>5 DEF AdmitsGuest, Goes, AccountsTypeOK, ControlPoints, logVars, accountVars
<1>6. CASE RejectsToken(r) \/ RejectsRole(r)
  BY <1>6 DEF RejectsToken, RejectsRole, Answered, Goes, AccountsTypeOK, ControlPoints,
              logVars, accountVars
<1>7. CASE Drafts(r)
  BY <1>7 DEF Drafts, Goes, AccountsTypeOK, ControlPoints, logVars, accountVars
<1>8. CASE EndsInVain(r)
  BY <1>8, <1>2 DEF EndsInVain, accountVars, AccountsTypeOK
<1>9. CASE Stores(r)
  BY <1>9, <1>2 DEF Stores, AccountsTypeOK
<1>10. CASE Signs(r)
  <2>1. PICK u \in SameEmail(r) : acct' = [acct EXCEPT ![r] = u]
          /\ granted' = granted \cup {r} /\ EndsWell(r, 201) /\ UNCHANGED users
    BY <1>10 DEF Signs
  <2>2. u \in Requests
    BY DEF SameEmail, AccountsTypeOK
  <2>3. QED BY <2>1, <2>2, <1>2 DEF AccountsTypeOK
<1>11. CASE Delivers(r)
  BY <1>11, <1>2 DEF Delivers, accountVars, AccountsTypeOK
<1>12. CASE Moves(r)
  BY <1>12 DEF Moves, AccountsTypeOK, accountVars
<1>13. CASE Dies(r)
  BY <1>13 DEF Dies, LoseWrites, Goes, AccountsTypeOK, ControlPoints, accountVars
<1>14. CASE TokenExpires(r)
  BY <1>14 DEF TokenExpires, AccountsTypeOK, logVars
<1>15. QED BY <1>3, <1>4, <1>5, <1>6, <1>7, <1>8, <1>9, <1>10, <1>11, <1>12, <1>13, <1>14
           DEF Kind

LEMMA UsersKept ==
  ASSUME AccountsInv, NEW r \in Requests, Kind(r)
  PROVE  UserInv' /\ users \subseteq users'
<1>1. CASE Stores(r)
  BY <1>1 DEF Stores, Storable, SameEmail, AccountsInv, UserInv
<1>2. CASE users' = users
  BY <1>2 DEF AccountsInv, UserInv
<1>3. QED BY <1>1, <1>2 DEF Kind, Arrives, Admits, AdmitsGuest, RejectsToken, RejectsRole,
                Drafts, EndsInVain, Signs, Delivers, Moves, Dies, TokenExpires, accountVars

(* Nothing is granted but to a login that ends, nothing else changes the    *)
(* account a login acts for.                                               *)
LEMMA TokensKept ==
  ASSUME AccountsInv, NEW r \in Requests, Kind(r)
  PROVE  TokenInv' /\ granted \subseteq granted'
<1> USE DEF AccountsInv
<1>1. users \subseteq users' /\ users' \subseteq Requests
  BY UsersKept, TypesKept DEF AccountsTypeOK
<1>2. \A q \in Requests : pc[q] \in {"done", "gone"} => pc'[q] \in {"done", "gone"}
  <2>1. \A s : EndsBadly(r, s) \/ EndsWell(r, s) => pc' = [pc EXCEPT ![r] = "done"]
    BY DEF EndsBadly, EndsWell, Ends, Answered, Goes
  <2>2. \/ pc' = pc
        \/ pc' = [pc EXCEPT ![r] = "done"]
        \/ pc' = [pc EXCEPT ![r] = "gone"]
        \/ pc[r] \notin {"done", "gone"} /\ \E p \in ControlPoints : pc' = [pc EXCEPT ![r] = p]
    BY <2>1 DEF Kind, Arrives, Admits, AdmitsGuest, RejectsToken, RejectsRole, Drafts,
           EndsInVain, Stores, Signs, Delivers, Moves, Dies, TokenExpires, Answered, Goes,
           Handles, ControlPoints
  <2>3. QED BY <2>2 DEF AccountsTypeOK
<1>3. CASE Signs(r)
  <2>1. PICK u \in SameEmail(r) : /\ Handles(r, "login") /\ Call[u].pw = Call[r].pw
          /\ acct' = [acct EXCEPT ![r] = u] /\ granted' = granted \cup {r}
          /\ EndsWell(r, 201) /\ UNCHANGED users
    BY <1>3 DEF Signs
  <2>2. pc' = [pc EXCEPT ![r] = "done"]
    BY <2>1 DEF EndsWell, Ends, Answered, Goes
  <2>3. ASSUME NEW l \in granted'
        PROVE  /\ Op(l) = "login" /\ pc'[l] \in {"done", "gone"}
               /\ acct'[l] \in SameEmail(l)' /\ Call[acct'[l]].pw = Call[l].pw
    <3>1. CASE l = r
      BY <3>1, <2>1, <2>2 DEF Handles, AccountsTypeOK, SameEmail
    <3>2. CASE l # r
      BY <3>2, <2>1, <2>2 DEF TokenInv, AccountsTypeOK, SameEmail
    <3>3. QED BY <3>1, <3>2
  <2>4. QED BY <2>1, <2>3 DEF TokenInv
<1>4. CASE Admits(r)
  <2>1. r \notin granted
    BY <1>4 DEF Admits, TokenInv
  <2>2. acct' = [acct EXCEPT ![r] = acct[Call[r].token]] /\ UNCHANGED <<users, granted>>
    BY <1>4 DEF Admits
  <2>3. QED BY <1>2, <2>1, <2>2 DEF TokenInv, SameEmail, AccountsTypeOK
<1>5. CASE acct' = acct /\ granted' = granted
  BY <1>1, <1>2, <1>5 DEF TokenInv, SameEmail, AccountsTypeOK
<1>6. QED BY <1>3, <1>4, <1>5 DEF Kind, Arrives, AdmitsGuest, RejectsToken, RejectsRole,
                Drafts, EndsInVain, Stores, Delivers, Moves, Dies, TokenExpires, accountVars

(* A registration is answered 201 only by the step that stores it. *)
LEMMA ControlKept ==
  ASSUME AccountsInv, NEW r \in Requests, Kind(r)
  PROVE  ControlInv'
<1> USE DEF AccountsInv
<1>1. users \subseteq users'
  BY UsersKept
<1>2. SUFFICES ASSUME NEW q \in Requests PROVE Control(q)'
  BY DEF ControlInv
<1>3. Control(q) /\ Control(r)
  BY DEF ControlInv
<1>4. known[q] \subseteq Requests /\ pc \in [Requests -> ControlPoints]
      /\ answer \in [Requests -> Nat] /\ ctx \in [Requests -> Contexts]
      /\ known \in [Requests -> SUBSET Requests]
  BY DEF AccountsTypeOK
<1>5. ASSUME NEW s, EndsBadly(r, s) \/ EndsWell(r, s),
             Op(r) = "register" /\ s = 201 => r \in users'
      PROVE  Control(q)'
  <2>1. /\ s \in Nat /\ pc' = [pc EXCEPT ![r] = "done"] /\ pc[r] \in {"handler", "save"}
        /\ answer' = [answer EXCEPT ![r] = s] /\ UNCHANGED known
    BY <1>5, Ended
  <2>2. PICK c \in Contexts : ctx' = [ctx EXCEPT ![r] = c]
    BY <1>5, Ended
  <2>3. answer[r] = 0
    BY <2>1, <1>3 DEF Control
  <2>4. \A g \in Requests : Registered(g) => Registered(g)'
    BY <2>1, <2>3, <1>4 DEF Registered
  <2>5. Registered(q)' => q \in users'
    BY <2>1, <1>5, <1>3, <1>1, <1>4 DEF Registered, Control
  <2>6. QED BY <2>1, <2>2, <2>4, <2>5, <1>3, <1>4 DEF Control
<1>6. ASSUME NEW p \in {"handler", "save"}, pc[r] \in {"guard", "handler"},
             p = "save" => Op(r) = "register",
             Goes(r, p), UNCHANGED <<answer, known, ctx, users>>
      PROVE  Control(q)'
  BY <1>6, <1>3, <1>4 DEF Control, Goes, Registered
<1>7. CASE Arrives(r)
  <2>1. /\ pc[r] = "new" /\ ctx' = [ctx EXCEPT ![r] = NewContext]
        /\ pc' = [pc EXCEPT ![r] = IF Op(r) \in Guarded THEN "guard" ELSE "handler"]
        /\ known' = [known EXCEPT ![r] =
                       {g \in Requests : Op(r) = "login" /\ Registered(g)}]
        /\ UNCHANGED <<answer, users>>
    BY <1>7 DEF Arrives, OpenContext, Goes, accountVars
  <2>2. \A g \in Requests : Registered(g)' <=> Registered(g)
    BY <2>1 DEF Registered
  <2>3. \A g \in known'[q] : Registered(g)'
    BY <2>1, <2>2, <1>3, <1>4 DEF Control
  <2>4. QED BY <2>1, <2>2, <2>3, <1>3, <1>4 DEF Control
<1>8. CASE Admits(r) \/ AdmitsGuest(r)
  BY <1>8, <1>6 DEF Admits, AdmitsGuest, logVars, accountVars
<1>9. CASE RejectsToken(r) \/ RejectsRole(r)
  <2>1. PICK s \in {401, 403} : Answered(r, s)
    BY <1>9 DEF RejectsToken, RejectsRole
  <2>2. pc[r] = "guard" /\ UNCHANGED <<known, users, ctx>>
    BY <1>9 DEF RejectsToken, RejectsRole, accountVars, logVars
  <2>3. \A g \in Requests : Registered(g)' <=> Registered(g)
    BY <2>1, <2>2, <1>3, <1>4 DEF Registered, Answered, Control
  <2>4. QED BY <2>1, <2>2, <2>3, <1>3, <1>4 DEF Control, Answered, Goes
<1>10. CASE Drafts(r)
  BY <1>10, <1>6 DEF Drafts, Handles, logVars, accountVars
<1>11. CASE EndsInVain(r)
  BY <1>11, <1>5 DEF EndsInVain, Failures
<1>12. CASE Stores(r)
  <2>1. r \in users'
    BY <1>12 DEF Stores
  <2>2. QED BY <1>12, <2>1, <1>5 DEF Stores
<1>13. CASE Signs(r)
  BY <1>13, <1>5 DEF Signs, Handles
<1>14. CASE Delivers(r)
  BY <1>14, <1>5 DEF Delivers
<1>15. CASE Moves(r)
  BY <1>15, <1>3 DEF Moves, Control, Registered, accountVars
<1>16. CASE Dies(r)
  <2>1. /\ pc' = [pc EXCEPT ![r] = "gone"]
        /\ UNCHANGED <<ctx, answer, known, users>>
    BY <1>16 DEF Dies, LoseWrites, Goes, accountVars
  <2>2. QED BY <2>1, <1>3, <1>4 DEF Control, Registered
<1>17. CASE TokenExpires(r)
  BY <1>17, <1>3 DEF TokenExpires, Control, Registered, logVars
<1>18. QED BY <1>7, <1>8, <1>9, <1>10, <1>11, <1>12, <1>13, <1>14, <1>15, <1>16, <1>17
           DEF Kind

(* The account behind a token is the one of its login for good. *)
LEMMA TokenFixed ==
  ASSUME AccountsInv, NEW r \in Requests, Kind(r), NEW l \in granted
  PROVE  acct'[l] = acct[l]
<1> USE DEF AccountsInv
<1>1. pc[l] \in {"done", "gone"} /\ l \in Requests
  BY DEF TokenInv, AccountsTypeOK
<1>2. acct' = acct \/ (pc[r] \in {"guard", "handler"} /\ \E u : acct' = [acct EXCEPT ![r] = u])
  BY DEF Kind, Arrives, Admits, AdmitsGuest, RejectsToken, RejectsRole, Drafts, EndsInVain,
         Stores, Signs, Delivers, Moves, Dies, TokenExpires, Handles, accountVars
<1>3. QED BY <1>1, <1>2 DEF AccountsTypeOK

LEMMA GuardKept ==
  ASSUME AccountsInv, NEW r \in Requests, Kind(r)
  PROVE  GuardInv'
<1> USE DEF AccountsInv
<1>1. SUFFICES ASSUME NEW q \in Requests, Op(q) \in RoleGuarded, Served(q)'
      PROVE  /\ Call[q].token \in granted'
             /\ RoleOf(acct'[Call[q].token]) = Required(Op(q))
  BY DEF GuardInv
<1>2. granted \subseteq granted'
  BY TokensKept
<1>3. CASE Served(q)
  BY <1>1, <1>2, <1>3, TokenFixed DEF GuardInv
<1>4. CASE Admits(r) /\ q = r
  <2>1. Call[q].token \in granted /\ RoleOf(acct[Call[q].token]) = Required(Op(q))
    BY <1>1, <1>4 DEF Admits, Verified, HasRole
  <2>2. QED BY <2>1, <1>2, TokenFixed
<1>5. ASSUME ~Served(q), ~(Admits(r) /\ q = r) PROVE FALSE
  <2>1. pc[q] \notin {"handler", "save"} /\ ctx[q].outcome = "none"
    BY <1>5, TypesKept DEF Served
  <2>2. pc'[q] \in {"handler", "save"} \/ ctx'[q] # ctx[q]
    BY <1>1, <2>1 DEF Served
  <2>3. ASSUME NEW s, EndsBadly(r, s) \/ EndsWell(r, s) PROVE FALSE
    <3>1. pc[r] \in {"handler", "save"} /\ pc' = [pc EXCEPT ![r] = "done"]
      BY <2>3, Ended
    <3>2. PICK c \in Contexts : ctx' = [ctx EXCEPT ![r] = c]
      BY <2>3, Ended
    <3>3. q # r
      BY <2>1, <3>1
    <3>4. QED BY <2>1, <2>2, <3>1, <3>2, <3>3 DEF AccountsTypeOK
  <2>4. CASE Arrives(r)
    <3>1. ctx[r] = NewContext /\ ctx' = [ctx EXCEPT ![r] = NewContext]
          /\ pc' = [pc EXCEPT ![r] = IF Op(r) \in Guarded THEN "guard" ELSE "handler"]
      BY <2>4 DEF Arrives, OpenContext, Goes, ControlInv, Control
    <3>2. Op(q) \in Guarded
      BY <1>1 DEF RoleGuarded, Guarded, Ops
    <3>3. QED BY <2>1, <2>2, <3>1, <3>2 DEF AccountsTypeOK
  <2>5. CASE Admits(r)
    BY <1>5, <2>1, <2>2, <2>5 DEF Admits, Goes, logVars, AccountsTypeOK
  <2>6. CASE AdmitsGuest(r)
    <3>1. q # r
      BY <1>1, <2>6 DEF AdmitsGuest, AnyRole, RoleGuarded
    <3>2. QED BY <2>1, <2>2, <2>6, <3>1 DEF AdmitsGuest, Goes, logVars, AccountsTypeOK
  <2>7. CASE RejectsToken(r) \/ RejectsRole(r)
    BY <2>1, <2>2, <2>7 DEF RejectsToken, RejectsRole, Answered, Goes, logVars, AccountsTypeOK
  <2>8. CASE Drafts(r)
    BY <2>1, <2>2, <2>8 DEF Drafts, Handles, Goes, logVars, AccountsTypeOK
  <2>9. CASE Dies(r)
    BY <2>1, <2>2, <2>9 DEF Dies, LoseWrites, Goes, AccountsTypeOK
  <2>10. CASE Moves(r) \/ TokenExpires(r)
    BY <2>1, <2>2, <2>10 DEF Moves, TokenExpires, logVars
  <2>11. CASE EndsInVain(r) \/ Stores(r) \/ Signs(r) \/ Delivers(r)
    BY <2>3, <2>11 DEF EndsInVain, Stores, Signs, Delivers
  <2>12. QED BY <2>4, <2>5, <2>6, <2>7, <2>8, <2>9, <2>10, <2>11 DEF Kind
<1>6. QED BY <1>3, <1>4, <1>5

(* Once a request has ended its answer stays, and so do its documents.     *)
LEMMA LogsKept ==
  ASSUME AccountsInv, NEW r \in Requests, Kind(r)
  PROVE  LogInv' /\ LogTellsAnswer'
<1> USE DEF AccountsInv
<1> DEFINE Tells(d) ==
             /\ d.status = answer[d.request]
             /\ d.level = (IF d.status >= 400 THEN "error" ELSE "log")
             /\ d.outcome = (IF d.status >= 400 THEN "error" ELSE "success")
           all == writing \cup logs \cup dropped
<1>1. \A d \in all : d.request \in Requests /\ pc[d.request] \in {"done", "gone"} /\ Tells(d)
  BY DEF AccountsTypeOK, Documents, LogInv, LogTellsAnswer
<1>2. SUFFICES \A d \in all' : pc'[d.request] \in {"done", "gone"} /\ Tells(d)'
  BY DEF LogInv, LogTellsAnswer
<1>3. ASSUME NEW s, EndsBadly(r, s) \/ EndsWell(r, s)
      PROVE  \A d \in all' : pc'[d.request] \in {"done", "gone"} /\ Tells(d)'
  <2>1. /\ pc[r] \in {"handler", "save"} /\ pc' = [pc EXCEPT ![r] = "done"]
        /\ answer' = [answer EXCEPT ![r] = s] /\ UNCHANGED <<logs, dropped>>
    BY <1>3, Ended
  <2>2. PICK n \in Documents :
          /\ writing' \in {writing, writing \cup {n}} /\ n.request = r /\ n.status = s
          /\ n.level = (IF s >= 400 THEN "error" ELSE "log")
          /\ n.outcome = (IF s >= 400 THEN "error" ELSE "success")
    BY <1>3, Ended
  <2>3. ASSUME NEW d \in all PROVE pc'[d.request] \in {"done", "gone"} /\ Tells(d)'
    BY <2>1, <2>3, <1>1 DEF AccountsTypeOK
  <2>4. pc'[n.request] \in {"done", "gone"} /\ Tells(n)'
    BY <2>1, <2>2 DEF AccountsTypeOK
  <2>5. \A d \in all' : d \in all \/ d = n
    BY <2>1, <2>2
  <2>6. QED BY <2>3, <2>4, <2>5
<1>4. ASSUME all' \subseteq all,
             \A q \in Requests : pc[q] \in {"done", "gone"} =>
               pc'[q] \in {"done", "gone"} /\ answer'[q] = answer[q]
      PROVE  \A d \in all' : pc'[d.request] \in {"done", "gone"} /\ Tells(d)'
  BY <1>1, <1>4
<1>5. CASE Arrives(r) \/ Admits(r) \/ AdmitsGuest(r) \/ Drafts(r)
  <2>1. pc[r] \notin {"done", "gone"} /\ answer' = answer /\ all' = all
        /\ \E p \in ControlPoints : pc' = [pc EXCEPT ![r] = p]
    BY <1>5 DEF Arrives, OpenContext, Admits, AdmitsGuest, Drafts, Handles, Goes, logVars,
                ControlPoints
  <2>2. QED BY <2>1, <1>4 DEF AccountsTypeOK
<1>6. CASE RejectsToken(r) \/ RejectsRole(r)
  <2>1. pc[r] = "guard" /\ all' = all /\ pc' = [pc EXCEPT ![r] = "done"]
        /\ \E s \in Nat : answer' = [answer EXCEPT ![r] = s]
    BY <1>6 DEF RejectsToken, RejectsRole, Answered, Goes, logVars
  <2>2. QED BY <2>1, <1>4 DEF AccountsTypeOK
<1>7. CASE EndsInVain(r) \/ Stores(r) \/ Signs(r) \/ Delivers(r)
  BY <1>3, <1>7 DEF EndsInVain, Stores, Signs, Delivers
<1>8. CASE Moves(r)
  <2>1. all' \subseteq all /\ UNCHANGED <<pc, answer>>
    BY <1>8 DEF Moves
  <2>2. QED BY <2>1, <1>4
<1>9. CASE Dies(r)
  <2>1. all' \subseteq all /\ answer' = answer /\ pc' = [pc EXCEPT ![r] = "gone"]
    BY <1>9 DEF Dies, LoseWrites, Goes
  <2>2. QED BY <2>1, <1>4 DEF AccountsTypeOK
<1>10. CASE TokenExpires(r)
  <2>1. all' = all /\ UNCHANGED <<pc, answer>>
    BY <1>10 DEF TokenExpires, logVars
  <2>2. QED BY <2>1, <1>4
<1>11. QED BY <1>5, <1>6, <1>7, <1>8, <1>9, <1>10 DEF Kind

(* A login is refused only if the one document of its address has another  *)
(* password; a registration that was answered is that document.            *)
LEMMA RegisteredKept ==
  ASSUME AccountsInv, NEW r \in Requests, Kind(r)
  PROVE  RegisteredCanLogIn'
<1> USE DEF AccountsInv
<1>1. SUFFICES ASSUME NEW q \in Requests, Op(q) = "login", answer'[q] = 401,
                      NEW g \in known'[q], EmailOf(g) = EmailOf(q), Call[g].pw = Call[q].pw
      PROVE  FALSE
  BY DEF RegisteredCanLogIn
<1>2. ~(answer[q] = 401 /\ known'[q] = known[q])
  BY <1>1 DEF RegisteredCanLogIn
<1>3. ASSUME FailsLogin(r), q = r, known' = known PROVE FALSE
  <2>1. g \in users /\ g \in Requests
    BY <1>1, <1>3 DEF ControlInv, Control, AccountsTypeOK
  <2>2. g \in SameEmail(r)
    BY <2>1, <1>1, <1>3 DEF SameEmail
  <2>3. \A u \in SameEmail(r) : u = g
    BY <2>1, <1>1, <1>3 DEF SameEmail, UserInv
  <2>4. QED BY <2>2, <2>3, <1>1, <1>3 DEF FailsLogin, SamePassword
<1>4. ASSUME NEW s, EndsBadly(r, s) \/ EndsWell(r, s),
             s = 401 => FailsLogin(r) \/ Op(r) # "login"
      PROVE  FALSE
  <2>1. answer' = [answer EXCEPT ![r] = s] /\ known' = known
    BY <1>4, Ended
  <2>2. CASE q = r
    BY <2>1, <2>2, <1>1, <1>3, <1>4 DEF AccountsTypeOK
  <2>3. CASE q # r
    BY <2>1, <2>3, <1>1, <1>2 DEF AccountsTypeOK
  <2>4. QED BY <2>2, <2>3
<1>5. CASE Arrives(r)
  <2>1. /\ pc[r] = "new" /\ answer[r] = 0 /\ answer' = answer
        /\ \E S : known' = [known EXCEPT ![r] = S]
    BY <1>5 DEF Arrives, ControlInv, Control
  <2>2. QED BY <2>1, <1>1, <1>2 DEF AccountsTypeOK
<1>6. CASE RejectsToken(r) \/ RejectsRole(r)
  <2>1. Op(r) \in Guarded /\ known' = known /\ \E s : answer' = [answer EXCEPT ![r] = s]
    BY <1>6 DEF RejectsToken, RejectsRole, Answered, ControlInv, Control
  <2>2. q # r
    BY <2>1, <1>1 DEF Guarded
  <2>3. QED BY <2>1, <2>2, <1>1, <1>2 DEF AccountsTypeOK
<1>7. CASE EndsInVain(r) \/ Stores(r) \/ Signs(r) \/ Delivers(r)
  BY <1>4, <1>7 DEF EndsInVain, Stores, Signs, Delivers
<1>8. CASE answer' = answer /\ known' = known
  BY <1>1, <1>2, <1>8
<1>9. QED BY <1>5, <1>6, <1>7, <1>8
         DEF Kind, Admits, AdmitsGuest, Drafts, Moves, Dies, TokenExpires

(* What ends badly behind the interceptor leaves a document.               *)
LEMMA ErrorsStayKept ==
  ASSUME AccountsInv, NEW r \in Requests, Kind(r)
  PROVE  ErrorsKept'
<1> USE DEF AccountsInv
<1>1. SUFFICES ASSUME NEW q \in Requests, pc'[q] = "done", answer'[q] >= 400, Served(q)'
      PROVE  \E d \in (writing \cup logs \cup dropped)' : d.request = q
  BY DEF ErrorsKept
<1>2. ctx'[q].outcome # "none"
  BY <1>1 DEF Served
<1>3. ASSUME UNCHANGED <<pc[q], answer[q], ctx[q]>>
      PROVE  \E d \in writing \cup logs \cup dropped : d.request = q
  BY <1>1, <1>2, <1>3 DEF ErrorsKept, Served
<1>4. ASSUME NEW s, EndsBadly(r, s)
      PROVE  \E d \in (writing \cup logs \cup dropped)' : d.request = q
  <2>1. CASE q = r
    <3>1. ErrorDocument(r, s) \in writing' /\ ErrorDocument(r, s).request = r
      BY <1>4 DEF EndsBadly, ErrorDocument
    <3>2. QED BY <3>1, <2>1
  <2>2. CASE q # r
    <3>1. UNCHANGED <<pc[q], answer[q], ctx[q]>>
      BY <2>2, <1>4 DEF EndsBadly, Ends, Answered, Goes, AccountsTypeOK
    <3>2. QED BY <3>1, <1>3, <1>4 DEF EndsBadly, Ends
  <2>3. QED BY <2>1, <2>2
<1>5. ASSUME NEW s, EndsWell(r, s)
      PROVE  \E d \in (writing \cup logs \cup dropped)' : d.request = q
  <2>1. q # r
    BY <1>1, <1>5 DEF EndsWell, Ends, Answered, AccountsTypeOK
  <2>2. UNCHANGED <<pc[q], answer[q], ctx[q]>>
    BY <2>1, <1>5 DEF EndsWell, Ends, Answered, Goes, AccountsTypeOK
  <2>3. writing \cup logs \cup dropped \subseteq (writing \cup logs \cup dropped)'
    BY <1>5 DEF EndsWell, Ends
  <2>4. QED BY <2>2, <2>3, <1>3
<1>6. CASE Arrives(r) \/ Admits(r) \/ AdmitsGuest(r) \/ Drafts(r)
  <2>1. /\ \E p \in {"guard", "handler", "save"} : pc' = [pc EXCEPT ![r] = p]
        /\ UNCHANGED <<answer, writing, logs, dropped>>
        /\ \E c : ctx' = [ctx EXCEPT ![r] = c] \/ ctx' = ctx
    BY <1>6 DEF Arrives, OpenContext, Admits, AdmitsGuest, Drafts, Goes, logVars
  <2>2. q # r
    BY <2>1, <1>1 DEF AccountsTypeOK
  <2>3. UNCHANGED <<pc[q], answer[q], ctx[q]>>
    BY <2>1, <2>2 DEF AccountsTypeOK
  <2>4. QED BY <2>1, <2>3, <1>3
<1>7. CASE RejectsToken(r) \/ RejectsRole(r)
  <2>1. /\ pc[r] = "guard" /\ pc' = [pc EXCEPT ![r] = "done"] /\ UNCHANGED logVars
        /\ \E s : answer' = [answer EXCEPT ![r] = s]
    BY <1>7 DEF RejectsToken, RejectsRole, Answered, Goes
  <2>2. ctx'[r].outcome = "none"
    BY <2>1 DEF ControlInv, Control, NewContext, logVars
  <2>3. q # r
    BY <2>2, <1>2
  <2>4. UNCHANGED <<pc[q], answer[q], ctx[q]>>
    BY <2>1, <2>3 DEF AccountsTypeOK, logVars
  <2>5. QED BY <2>1, <2>4, <1>3 DEF logVars
<1>8. CASE EndsInVain(r) \/ Stores(r) \/ Signs(r) \/ Delivers(r)
  BY <1>4, <1>5, <1>8 DEF EndsInVain, Stores, Signs, Delivers
<1>9. CASE Moves(r)
  <2>1. UNCHANGED <<pc[q], answer[q], ctx[q]>>
    BY <1>9 DEF Moves
  <2>2. writing \cup logs \cup dropped \subseteq (writing \cup logs \cup dropped)'
    BY <1>9 DEF Moves
  <2>3. QED BY <2>1, <2>2, <1>3
<1>10. CASE Dies(r)
  <2>1. /\ pc' = [pc EXCEPT ![r] = "gone"] /\ UNCHANGED <<answer, ctx, logs, dropped>>
        /\ writing' = {d \in writing : d.request # r}
    BY <1>10 DEF Dies, LoseWrites, Goes
  <2>2. q # r
    BY <2>1, <1>1 DEF AccountsTypeOK
  <2>3. UNCHANGED <<pc[q], answer[q], ctx[q]>>
    BY <2>1, <2>2 DEF AccountsTypeOK
  <2>4. PICK d \in writing \cup logs \cup dropped : d.request = q
    BY <2>3, <1>3
  <2>5. QED BY <2>1, <2>2, <2>4
<1>11. CASE TokenExpires(r)
  <2>1. UNCHANGED <<pc, answer, ctx, writing, logs, dropped>>
    BY <1>11 DEF TokenExpires, logVars
  <2>2. QED BY <2>1, <1>3
<1>12. QED BY <1>6, <1>7, <1>8, <1>9, <1>10, <1>11 DEF Kind

LEMMA AccountsInvInit == Init => AccountsInv
<1> SUFFICES ASSUME Init PROVE AccountsInv
  OBVIOUS
<1>1. /\ pc \in [Requests -> {"absent", "new"}]
      /\ answer = [r \in Requests |-> 0] /\ acct = [r \in Requests |-> NoOne]
      /\ known = [r \in Requests |-> {}] /\ ctx = [r \in Requests |-> NewContext]
      /\ users = {} /\ granted = {} /\ expired = {}
      /\ writing = {} /\ logs = {} /\ dropped = {}
  BY DEF Init, LogInit
<1>2. NewContext \in Contexts /\ NewContext.outcome = "none"
  BY DEF NewContext, Contexts, Levels
<1>3. AccountsTypeOK
  BY <1>1, <1>2 DEF AccountsTypeOK, ControlPoints
<1>4. ControlInv
  <2> SUFFICES ASSUME NEW r \in Requests PROVE Control(r)
    BY DEF ControlInv
  <2>1. pc[r] \in {"absent", "new"} /\ answer[r] = 0 /\ known[r] = {} /\ ctx[r] = NewContext
    BY <1>1
  <2>2. QED BY <2>1 DEF Control, Registered
<1>5. UserInv /\ TokenInv /\ LogInv /\ LogTellsAnswer
  BY <1>1 DEF UserInv, TokenInv, LogInv, LogTellsAnswer
<1>6. \A r \in Requests : ~Served(r)
  BY <1>1, <1>2 DEF Served
<1>7. GuardInv /\ ErrorsKept
  BY <1>6 DEF GuardInv, ErrorsKept
<1>8. RegisteredCanLogIn
  BY <1>1 DEF RegisteredCanLogIn
<1>9. QED BY <1>3, <1>4, <1>5, <1>7, <1>8 DEF AccountsInv

LEMMA AccountsInvStep ==
  ASSUME AccountsInv, [Next]_vars
  PROVE  AccountsInv'
<1>1. CASE Next
  <2>1. PICK r \in Requests : Kind(r)
    BY <1>1, SomeKind
  <2>2. QED BY <2>1, TypesKept, ControlKept, UsersKept, TokensKept, GuardKept, LogsKept,
               RegisteredKept, ErrorsStayKept DEF AccountsInv
<1>2. CASE UNCHANGED vars
  <2> USE <1>2 DEF vars, logVars, accountVars, AccountsInv
  <2>1. AccountsTypeOK'
    BY DEF AccountsTypeOK
  <2>2. ControlInv'
    BY DEF ControlInv, Control, Registered
  <2>3. UserInv' /\ TokenInv' /\ LogInv'
    BY DEF UserInv, TokenInv, LogInv, SameEmail
  <2>4. GuardInv' /\ ErrorsKept'
    BY DEF GuardInv, ErrorsKept, Served
  <2>5. RegisteredCanLogIn' /\ LogTellsAnswer'
    BY DEF RegisteredCanLogIn, LogTellsAnswer
  <2>6. QED BY <2>1, <2>2, <2>3, <2>4, <2>5
<1>3. QED BY <1>1, <1>2

(* What each control point of a request finds, in every environment.       *)
THEOREM AccountsInvariant == Spec => []AccountsInv
<1>1. QED BY AccountsInvInit, AccountsInvStep, PTL DEF Spec

(* Who was told that the registration succeeded can log in (there is no    *)
(* other document of the address, user.schema.ts:7).                       *)
THEOREM RegistrationsCount == Spec => []RegisteredCanLogIn
<1>1. AccountsInv => RegisteredCanLogIn
  BY DEF AccountsInv
<1>2. QED BY <1>1, AccountsInvariant, PTL

(* A route behind RolesGuard serves only holders of an account with the role *)
(* it asks for; GET /users declares one and is not behind that guard.      *)
THEOREM RolesAreServed == Spec => []ServedInRole
<1>1. AccountsInv => ServedInRole
  <2> SUFFICES ASSUME AccountsInv, NEW r \in Requests, Op(r) \in RoleGuarded, Served(r)
               PROVE  \E u \in users, l \in granted :
                        /\ EmailOf(u) = EmailOf(l) /\ Call[u].pw = Call[l].pw
                        /\ RoleOf(u) = Required(Op(r))
                        /\ l = Call[r].token
    BY DEF ServedInRole
  <2> DEFINE l == Call[r].token
  <2>1. l \in granted /\ RoleOf(acct[l]) = Required(Op(r))
    BY DEF AccountsInv, GuardInv
  <2>2. acct[l] \in users /\ EmailOf(acct[l]) = EmailOf(l) /\ Call[acct[l]].pw = Call[l].pw
    BY <2>1 DEF AccountsInv, TokenInv, SameEmail
  <2>3. QED BY <2>1, <2>2
<1>2. QED BY <1>1, AccountsInvariant, PTL

(* A log entry says what its client was told.                              *)
THEOREM LogsTell == Spec => []LogTellsAnswer
<1>1. AccountsInv => LogTellsAnswer
  BY DEF AccountsInv
<1>2. QED BY <1>1, AccountsInvariant, PTL

(* An error behind the interceptor is never sampled away.                  *)
THEOREM ErrorsAreKept == Spec => []ErrorsKept
<1>1. AccountsInv => ErrorsKept
  BY DEF AccountsInv
<1>2. QED BY <1>1, AccountsInvariant, PTL

(* The user service implements the book of accounts.                       *)
THEOREM BookImplemented == Spec => BookSpec
<1> DEFINE accounts == {AccountOf(u) : u \in users}
           tokens == {[login |-> LoginOf(r), role |-> RoleOf(acct[r])] : r \in granted}
<1>1. Init => Book!Init
  BY DEF Init, Book!Init
<1>2. ASSUME AccountsInv, [Next]_vars
      PROVE  [Book!Next]_<<accounts, tokens>>
  <2> USE DEF AccountsInv
  <2>1. CASE UNCHANGED vars
    BY <2>1 DEF vars, accountVars
  <2>2. ASSUME NEW r \in Requests, Kind(r), UNCHANGED <<users, granted>>
        PROVE  UNCHANGED <<accounts, tokens>>
    <3>1. \A l \in granted : acct'[l] = acct[l]
      BY <1>2, <2>2, TokenFixed
    <3>2. QED BY <2>2, <3>1
  <2>3. ASSUME NEW r \in Requests, Stores(r) PROVE Book!Next
    <3>1. /\ users' = users \cup {r} /\ UNCHANGED <<acct, granted>>
          /\ RoleOf(r) \in Roles /\ SameEmail(r) = {}
      BY <2>3 DEF Stores, Storable
    <3>2. AccountOf(r) \in [email : Emails, pw : Passwords, role : Roles]
      BY <3>1, CallTypes DEF AccountOf
    <3>3. \A b \in accounts : b.email # AccountOf(r).email
      BY <3>1 DEF SameEmail, AccountOf
    <3>4. accounts' = accounts \cup {AccountOf(r)} /\ tokens' = tokens
      BY <3>1
    <3>5. Book!Open(AccountOf(r))
      BY <3>3, <3>4 DEF Book!Open
    <3>6. QED BY <3>2, <3>5 DEF Book!Next
  <2>4. ASSUME NEW r \in Requests, Signs(r) PROVE Book!Next
    <3>1. PICK u \in SameEmail(r) :
            /\ Handles(r, "login") /\ Call[u].pw = Call[r].pw
            /\ acct' = [acct EXCEPT ![r] = u] /\ granted' = granted \cup {r}
            /\ UNCHANGED users
      BY <2>4 DEF Signs
    <3>2. u \in users /\ EmailOf(u) = EmailOf(r)
      BY DEF SameEmail
    <3>3. r \notin granted
      BY <1>2, <3>1 DEF Handles, TokenInv
    <3>4. acct'[r] = u /\ \A l \in granted : acct'[l] = acct[l]
      BY <1>2, <3>1, <3>3 DEF AccountsTypeOK
    <3>5. tokens' = tokens \cup {[login |-> LoginOf(r), role |-> RoleOf(u)]}
      BY <3>1, <3>4
    <3>6. accounts' = accounts /\ AccountOf(u) \in accounts
      BY <3>1, <3>2
    <3>7. LoginOf(r) \in [call : Requests, email : Emails, pw : Passwords]
      BY CallTypes DEF LoginOf
    <3>8. AccountOf(u).email = LoginOf(r).email /\ AccountOf(u).pw = LoginOf(r).pw
          /\ AccountOf(u).role = RoleOf(u)
      BY <3>1, <3>2 DEF AccountOf, LoginOf
    <3>9. Book!Grant(LoginOf(r), AccountOf(u))
      BY <3>5, <3>6, <3>8 DEF Book!Grant
    <3>10. QED BY <3>6, <3>7, <3>9 DEF Book!Next
  <2>5. ASSUME NEW r \in Requests, Kind(r), ~Stores(r), ~Signs(r)
        PROVE  UNCHANGED <<users, granted>>
    BY <2>5 DEF Kind, Arrives, Admits, AdmitsGuest, RejectsToken, RejectsRole, Drafts,
           EndsInVain, Delivers, Moves, Dies, TokenExpires, accountVars
  <2>6. CASE Next
    <3>1. PICK r \in Requests : Kind(r)
      BY <1>2, <2>6, SomeKind
    <3>2. QED BY <3>1, <2>2, <2>3, <2>4, <2>5
  <2>7. QED BY <1>2, <2>1, <2>6
<1>3. QED BY <1>1, <1>2, AccountsInvariant, PTL DEF Spec, BookSpec, Book!Spec
===============================================================================
