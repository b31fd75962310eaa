----------------------------- MODULE MCAccounts -----------------------------
(* Accounts for TLC: two users, of whom each may have branches. *)
EXTENDS Accounts, TLC

CONSTANTS ann, bob, x, y

LoginsVal == {ann, bob}
PasswordsVal == {x, y}

Ann == [login |-> ann, password |-> x]
Bob == [login |-> bob, password |-> y]
Row(user, parent, document) ==
  [user |-> user, parent |-> parent, document |-> document]

\* A user with three branches, of which the second is not listed, and one
\* with none.
TablesVal == {
  [users |-> <<Ann, Bob>>, rows |-> <<Row(1, 0, 2), Row(1, 2, 2), Row(1, 2, 2)>>]}
=============================================================================
