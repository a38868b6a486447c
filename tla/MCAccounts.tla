----------------------------- MODULE MCAccounts -----------------------------
(* Instance of Accounts for TLC: two clients with one address. *)
EXTENDS Accounts
CONSTANTS c1, c2
TwoClients == {c1, c2}
OneEmail == [c \in TwoClients |-> "e"]
AdminAndUser == [c \in TwoClients |-> IF c = c1 THEN "ADMIN" ELSE "USER"]
=============================================================================
