---------------------------- MODULE MCAccounts ----------------------------
(***************************************************************************)
(* Accounts with the bodies that its run sends, addresses that differ by   *)
(* their case only, and the symmetry of accounts and requests.             *)
(***************************************************************************)
EXTENDS Accounts, TLC

CONSTANT lower  \* the address that is in lower case

\* One field in each body: every address, and every state.
OneFieldEach ==
  {[Unchanged EXCEPT !.email = email] : email \in Emails}
    \cup {[Unchanged EXCEPT !.status = status] : status \in Statuses}

Lowered == [email \in Emails |-> lower]

Symmetric == Permutations(Users) \cup Permutations(Requests)
=============================================================================
