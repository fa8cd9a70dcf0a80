------------------------------ MODULE AccountBook ------------------------------
(***************************************************************************)
(* What the user service promises: an e-mail address is registered at most *)
(* once, what was registered stays as it is, and a token is given to who   *)
(* shows the password of an account, with the role of that account.        *)
(***************************************************************************)
CONSTANTS
  People,    \* [email, pw, role], the accounts anybody may ask for
  Logins     \* the calls of login

VARIABLES accounts, tokens

Init == accounts = {} /\ tokens = {}

Open(a) == /\ \A b \in accounts : b.email # a.email
           /\ accounts' = accounts \cup {a}
           /\ UNCHANGED tokens

(* A call is given one token. *)
Grant(l, a) == /\ a \in accounts
               /\ a.email = l.email
               /\ a.pw = l.pw
               /\ tokens' = tokens \cup {[login |-> l, role |-> a.role]}
               /\ UNCHANGED accounts

Next == \/ \E a \in People : Open(a)
        \/ \E l \in Logins, a \in accounts : Grant(l, a)

Spec == Init /\ [][Next]_<<accounts, tokens>>
================================================================================
