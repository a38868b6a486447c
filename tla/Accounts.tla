------------------------------ MODULE Accounts ------------------------------
(***************************************************************************)
(* Accounts and tokens: registration as a lookup and a later insert that   *)
(* meets the unique index, login and refresh as two reads (the row of the  *)
(* user, then its roles) and a later signature, and what a token still     *)
(* allows when the account has changed.                                    *)
(* The server stores no token: every pair issued is good until it expires. *)
(***************************************************************************)
EXTENDS Integers, FiniteSets

CONSTANTS
    Clients,      \* each registers at most one account; two may use one e-mail address
    EmailOf,      \* EmailOf[c]: the address c registers and logs in with
    RoleAsked,    \* RoleAsked[c]: the role in c's registration
    AccessLife,   \* JWT_EXPIRES_IN, in units of time
    RefreshLife,  \* JWT_REFRESH_EXPIRES_IN
    NULL

Roles == {"USER", "ADMIN"}

ASSUME AccountsAssumption ==
    /\ IsFiniteSet(Clients)
    /\ RoleAsked \in [Clients -> Roles]
    /\ AccessLife \in Nat \ {0} /\ RefreshLife \in Nat /\ AccessLife <= RefreshLife
    /\ NULL \notin Clients

VARIABLES
    users,    \* rows of users: who created them
    roles,    \* rows of user_roles: roles[u]
    active,   \* users.is_active
    pairs,    \* the pairs of pairs issued, until both are expired
    call,     \* call[c]: the request of c that is being served
    answer,   \* answer[c]: the status of the last answer to a registration of c
    faulted,  \* history: whose last registration met a failing or lost call
    adminSince,  \* history: units of time since u last had the role ADMIN
    activeSince  \* history: units of time since u last was active

since == <<adminSince, activeSince>>
vars == <<users, roles, active, pairs, call, answer, faulted, since>>
calls == <<call, answer, faulted>>

\* A registration looks up, inserts and issues; a login or a refresh reads and issues.
Steps == {"none", "lookup", "insert", "welcome", "read", "roles", "sign"}

\* The calls that know something of the account that may be out of date.
Informed == {"welcome", "roles", "sign"}

\* subject: whose tokens are to be signed; roles: as the database returned them;
\* lag: whether a unit of time has ended since then.
CallRecord == [step : Steps, subject : Clients \cup {NULL}, roles : SUBSET Roles, lag : 0..1]

NoCall == [step |-> "none", subject |-> NULL, roles |-> {}, lag |-> 0]

Pair == [user : Clients, roles : SUBSET Roles, age : 0..(RefreshLife - 1)]

TypeOK ==
    /\ users \subseteq Clients
    /\ roles \in [Clients -> SUBSET Roles]
    /\ active \in [Clients -> BOOLEAN]
    /\ pairs \subseteq Pair
    /\ call \in [Clients -> CallRecord]
    /\ answer \in [Clients -> {"none", "201", "409", "500"}]
    /\ faulted \subseteq Clients
    /\ adminSince \in [Clients -> 0..(AccessLife + 1)]
    /\ activeSince \in [Clients -> 0..(AccessLife + 1)]

Init ==
    /\ users = {}
    /\ roles = [u \in Clients |-> {}]
    /\ active = [u \in Clients |-> FALSE]
    /\ pairs = {}
    /\ call = [c \in Clients |-> NoCall]
    /\ answer = [c \in Clients |-> "none"]
    /\ faulted = {}
    /\ adminSince = [u \in Clients |-> AccessLife + 1]
    /\ activeSince = [u \in Clients |-> AccessLife + 1]

------------------------------------------------------------------------------
(* Registration *)

Idle(c) == call[c].step = "none"

Accounts(c) == {u \in users : EmailOf[u] = EmailOf[c]}

Ended(c) == call' = [call EXCEPT ![c] = NoCall]

\* What came out of a registration: the answer and the end of the call.
Answered(c, status) ==
    /\ Ended(c)
    /\ answer' = [answer EXCEPT ![c] = status]

Register(c) ==
    /\ Idle(c)
    /\ call' = [call EXCEPT ![c] = [NoCall EXCEPT !.step = "lookup"]]
    /\ answer' = [answer EXCEPT ![c] = "none"]
    /\ faulted' = faulted \ {c}
    /\ UNCHANGED <<users, roles, active, pairs, since>>

\* findByEmail; if there is no account, the password is hashed before the insert.
FindByEmail(c) ==
    /\ call[c].step = "lookup"
    /\ \/ /\ Accounts(c) # {}
          /\ Answered(c, "409")
       \/ /\ Accounts(c) = {}
          /\ call' = [call EXCEPT ![c].step = "insert"]
          /\ UNCHANGED answer
    /\ UNCHANGED <<users, roles, active, pairs, faulted, since>>

\* The rows of a new account and its role, as one transaction.
NewAccount(c) ==
    /\ users' = users \cup {c}
    /\ roles' = [roles EXCEPT ![c] = {RoleAsked[c]}]
    /\ active' = [active EXCEPT ![c] = TRUE]
    /\ adminSince' = [adminSince EXCEPT ![c] = IF RoleAsked[c] = "ADMIN" THEN 0 ELSE @]
    /\ activeSince' = [activeSince EXCEPT ![c] = 0]

Insert(c) ==
    /\ NewAccount(c)
    /\ \/ /\ call' = [call EXCEPT ![c].step = "welcome", ![c].subject = c,
                                  ![c].roles = {RoleAsked[c]}]
          /\ UNCHANGED <<answer, faulted>>
       \/ /\ Answered(c, "500")  \* committed, but the reply is lost
          /\ faulted' = faulted \cup {c}

\* Variation: the index on the address is not unique.
CreateUserNotUnique(c) ==
    /\ call[c].step = "insert"
    /\ Insert(c)
    /\ UNCHANGED pairs

\* Variation: the error handler does not know the unique index's error.
CreateUserUnmapped(c) ==
    /\ call[c].step = "insert"
    /\ \/ Accounts(c) = {} /\ Insert(c)
       \/ /\ Accounts(c) # {}
          /\ Answered(c, "500")
          /\ UNCHANGED <<users, roles, active, since, faulted>>
    /\ UNCHANGED pairs

\* Whoever comes second meets the unique index: P2002, which the error handler answers
\* with 409.
CreateUser(c) ==
    /\ call[c].step = "insert"
    /\ \/ Accounts(c) = {} /\ Insert(c)
       \/ /\ Accounts(c) # {}
          /\ Answered(c, "409")
          /\ UNCHANGED <<users, roles, active, since, faulted>>
    /\ UNCHANGED pairs

------------------------------------------------------------------------------
(* Login and refresh *)

Read(c, u) ==
    /\ Idle(c)
    /\ call' = [call EXCEPT ![c] = [NoCall EXCEPT !.step = "read", !.subject = u]]
    /\ UNCHANGED <<users, roles, active, pairs, answer, faulted, since>>

\* The account is looked up by its address.
Login(c) == \E u \in Accounts(c) : Read(c, u)

\* The signature and the expiry of the refresh token are verified at once.
Refresh(c) == \E p \in pairs : p.age < RefreshLife /\ Read(c, p.user)

\* Variation: a deactivated account may go on.
ReadUserInactive(c) ==
    /\ call[c].step = "read"
    /\ call' = [call EXCEPT ![c].step = "roles"]
    /\ UNCHANGED <<users, roles, active, pairs, answer, faulted, since>>

\* The first SELECT of findUnique returns the row as it is now: isActive is its value.
ReadUser(c) ==
    /\ call[c].step = "read"
    /\ active[call[c].subject]
    /\ call' = [call EXCEPT ![c].step = "roles"]
    /\ UNCHANGED <<users, roles, active, pairs, answer, faulted, since>>

\* The second SELECT, for the included roles.
ReadRoles(c) ==
    /\ call[c].step = "roles"
    /\ call' = [call EXCEPT ![c].step = "sign", ![c].roles = roles[call[c].subject]]
    /\ UNCHANGED <<users, roles, active, pairs, answer, faulted, since>>

\* The account is deactivated, the password is wrong, or a read fails: refreshToken
\* makes 401 of any error.
ReadRefused(c) ==
    /\ call[c].step \in {"read", "roles", "sign"}
    /\ Ended(c)
    /\ UNCHANGED <<users, roles, active, pairs, answer, faulted, since>>

\* Both tokens and the answer, in a later turn than the reads.
GenerateTokenPair(c) ==
    /\ call[c].step \in {"welcome", "sign"}
    /\ pairs' = pairs \cup {[user |-> call[c].subject, roles |-> call[c].roles, age |-> 0]}
    /\ IF call[c].step = "welcome" THEN Answered(c, "201") ELSE Ended(c) /\ UNCHANGED answer
    /\ UNCHANGED <<users, roles, active, faulted, since>>

\* A query or the hash fails, and the error handler answers 500.
RegistrationFails(c) ==
    /\ call[c].step \in {"lookup", "insert"}
    /\ Answered(c, "500")
    /\ faulted' = faulted \cup {c}
    /\ UNCHANGED <<users, roles, active, pairs, since>>

\* The process stops: nobody is answered, and everything issued stays valid.
Crash ==
    /\ call' = [c \in Clients |-> NoCall]
    /\ faulted' = faulted \cup {c \in Clients : ~Idle(c)}
    /\ UNCHANGED <<users, roles, active, pairs, answer, since>>

------------------------------------------------------------------------------
(* Around the server *)

IsAdmin(u) == "ADMIN" \in roles[u]

\* An operator changes the role of an account in the database.
ChangeRole(u, role) ==
    /\ u \in users
    /\ roles' = [roles EXCEPT ![u] = {role}]
    /\ adminSince' = [adminSince EXCEPT ![u] = IF role = "ADMIN" THEN 0 ELSE @]
    /\ UNCHANGED <<users, active, pairs, calls, activeSince>>

\* An operator deactivates an account or activates it again.
SetActive(u, isActive) ==
    /\ u \in users
    /\ active' = [active EXCEPT ![u] = isActive]
    /\ activeSince' = [activeSince EXCEPT ![u] = IF isActive THEN 0 ELSE @]
    /\ UNCHANGED <<users, roles, pairs, calls, adminSince>>

\* Variation: the refresh tokens never expire.
OlderForEver(P) == {[p EXCEPT !.age = @ + 1] : p \in P}

Older(P) == {[p EXCEPT !.age = @ + 1] : p \in {q \in P : q.age + 1 < RefreshLife}}

\* One unit more, as far as it is counted.
OneMore(n) == IF n > AccessLife THEN n ELSE n + 1

\* A unit of time ends.  No call takes longer than one unit from its first read.
Tick ==
    /\ \A c \in Clients : call[c].lag = 0
    /\ call' = [c \in Clients |-> [call[c] EXCEPT !.lag = IF call[c].step \in Informed THEN 1 ELSE 0]]
    /\ pairs' = Older(pairs)
    /\ adminSince' = [u \in Clients |-> IF IsAdmin(u) THEN 0 ELSE OneMore(adminSince[u])]
    /\ activeSince' = [u \in Clients |-> IF active[u] THEN 0 ELSE OneMore(activeSince[u])]
    /\ UNCHANGED <<users, roles, active, answer, faulted>>

CallStep(c) ==
    \/ FindByEmail(c) \/ CreateUser(c) \/ ReadUser(c) \/ ReadRoles(c) \/ GenerateTokenPair(c)
    \/ ReadRefused(c) \/ RegistrationFails(c)

Next ==
    \/ \E c \in Clients : Register(c) \/ Login(c) \/ Refresh(c) \/ CallStep(c)
    \/ Crash
    \/ \E u \in Clients, role \in Roles : ChangeRole(u, role)
    \/ \E u \in Clients, isActive \in BOOLEAN : SetActive(u, isActive)
    \/ Tick

\* A call that has been started goes on, and time passes.
Fairness == WF_vars(Tick) /\ \A c \in Clients : WF_vars(CallStep(c))

Spec == Init /\ [][Next]_vars /\ Fairness

------------------------------------------------------------------------------
(* Properties *)

\* authenticate: the request carries a token that is not expired; the database is not
\* asked.
Admitted(u) == \E p \in pairs : p.user = u /\ p.age < AccessLife

\* authorize("ADMIN"): the token names the role.
Authorized(u) ==
    \E p \in pairs : p.user = u /\ p.age < AccessLife /\ "ADMIN" \in p.roles

\* However registrations race, fail, are repeated or are cut off, an address has one
\* account, and an account has its role.
OneWholeAccount ==
    \A u \in users : Accounts(u) = {u} /\ roles[u] # {}

\* Where the registration of a client stands, seen from outside.
OutcomeOf(c) ==
    CASE call[c].step \in {"lookup", "insert"} -> "asked"
      [] call[c].step = "welcome" -> "created"
      [] OTHER -> answer[c]

Outcome == [c \in Clients |-> OutcomeOf(c)]

Directory == INSTANCE AccountDirectory WITH outcome <- Outcome

\* A lookup and a later insert, with other registrations, failures and crashes between
\* them, do what one step that creates an account if there is none would do
\* (auth.service.ts:32-45).
ImplementsDirectory == Directory!DirectorySpec

\* What a client is told of its registration is true: 201 only if the account is its own,
\* 409 only if there is one, and a lost race is never a server error.
AnswersAreTrue ==
    \A c \in Clients :
        /\ answer[c] = "201" => c \in users
        /\ answer[c] = "409" => Accounts(c) # {}
        /\ answer[c] = "500" => c \in faulted

\* Whoever is admitted was active, and whoever is let through as an administrator had
\* the role, within the lifetime of an access token (and of the request that issued it).
\* Not necessarily both at once: the row of the user and its roles are read one after
\* the other.
AuthorityIsRecent ==
    \A u \in Clients : /\ Admitted(u) => activeSince[u] <= AccessLife
                       /\ Authorized(u) => adminSince[u] <= AccessLife

\* Deactivating an account ends its access and taking the role away ends its authority in
\* the end, however often tokens are refreshed.
AuthorityEnds ==
    \A u \in Clients : /\ <>[]~active[u] => <>[]~Admitted(u)
                       /\ <>[]~IsAdmin(u) => <>[]~Authorized(u)
=============================================================================
