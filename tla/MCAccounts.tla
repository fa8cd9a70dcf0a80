------------------------------ MODULE MCAccounts ------------------------------
(***************************************************************************)
(* Three registrations of one address (two passwords, two roles, a role    *)
(* that does not exist), a login, and requests that bring its token.       *)
(***************************************************************************)
EXTENDS Accounts, TLC

CONSTANTS g1, g2, g3, l1, a1, c1, p1, u1, o1, e1, w1, w2

Asks(op, pw, role, token) ==
  [op |-> op, email |-> e1, pw |-> pw, role |-> role, token |-> token]

MCCall == g1 :> Asks("register", w1, "admin", NoOne)
       @@ g2 :> Asks("register", w2, "none", NoOne)
       @@ g3 :> Asks("register", w1, "other", NoOne)
       @@ l1 :> Asks("login", w1, "none", NoOne)
       @@ a1 :> Asks("admin", w1, "none", l1)
       @@ c1 :> Asks("customer", w1, "none", l1)
       @@ p1 :> Asks("profile", w1, "none", l1)
       @@ u1 :> Asks("users", w1, "none", l1)
       @@ o1 :> Asks("open", w1, "none", l1)

MCScenarios == {{g1, g2, l1}, {g1, g3, l1}, {g1, l1, a1}, {g1, l1, c1},
                {g1, l1, p1}, {g1, l1, u1}, {g1, l1, o1}}
===============================================================================
