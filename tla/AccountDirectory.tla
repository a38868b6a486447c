-------------------------- MODULE AccountDirectory --------------------------
(***************************************************************************)
(* What registration promises: a directory that creates the account of an  *)
(* address if there is none, in one step, and tells each client how its    *)
(* request came out.  How the service looks up, hashes, inserts and issues *)
(* tokens, in turns that interleave, is not to be seen.                    *)
(***************************************************************************)
CONSTANTS Clients,  \* each registers at most one account
          EmailOf   \* EmailOf[c]: the address c registers

VARIABLES users,    \* the clients that have an account
          outcome   \* outcome[c]: where the last registration of c stands

directoryVars == <<users, outcome>>

\* Nobody waits for an answer: none was asked for, one was given, or the call was lost.
AtRest == {"none", "201", "409", "500"}

Taken(c) == \E u \in users : EmailOf[u] = EmailOf[c]

DirectoryInit ==
    /\ users = {}
    /\ outcome = [c \in Clients |-> "none"]

Comes(c, from, to) ==
    /\ outcome[c] = from
    /\ outcome' = [outcome EXCEPT ![c] = to]

Ask(c) ==
    /\ \E from \in AtRest : Comes(c, from, "asked")
    /\ UNCHANGED users

\* The address was free and now is the client's, who may yet be told of an error.
Create(c) ==
    /\ ~Taken(c)
    /\ users' = users \cup {c}
    /\ \E to \in {"created", "500"} : Comes(c, "asked", to)

\* 201, only for the account this very request created.
Welcome(c) ==
    /\ Comes(c, "created", "201")
    /\ UNCHANGED users

\* 409, only while the address is taken.
Refuse(c) ==
    /\ Taken(c)
    /\ Comes(c, "asked", "409")
    /\ UNCHANGED users

Fail(c) ==
    /\ Comes(c, "asked", "500")
    /\ UNCHANGED users

\* Every client that waits is left without an answer; accounts stay.
LoseCalls ==
    /\ outcome' = [c \in Clients |-> IF outcome[c] \in AtRest THEN outcome[c] ELSE "none"]
    /\ UNCHANGED users

DirectoryNext ==
    \/ \E c \in Clients : Ask(c) \/ Create(c) \/ Welcome(c) \/ Refuse(c) \/ Fail(c)
    \/ LoseCalls

DirectorySpec == DirectoryInit /\ [][DirectoryNext]_directoryVars
=============================================================================
