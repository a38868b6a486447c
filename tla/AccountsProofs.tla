--------------------------- MODULE AccountsProofs ---------------------------
(***************************************************************************)
(* Proofs about Accounts for every number of clients, every distribution   *)
(* of addresses and roles, and every lifetime of the tokens.               *)
(***************************************************************************)
EXTENDS Accounts, TLAPS

Issuing(c) == call[c].step \in {"welcome", "sign"}

\* Whose tokens a call is about.
SubjectsAreKnown ==
    \A c \in Clients :
        call[c].step \in {"read", "roles", "welcome", "sign"} => call[c].subject \in Clients

WelcomesAreOwn ==
    \A c \in Clients : call[c].step = "welcome" => call[c].subject = c /\ c \in users

\* How old the authority can be that is still held, about to be signed, or in a token.
HeldNow ==
    \A u \in Clients : (IsAdmin(u) => adminSince[u] = 0) /\ (active[u] => activeSince[u] = 0)

SignedSoon ==
    \A c \in Clients :
        /\ Issuing(c) /\ "ADMIN" \in call[c].roles => adminSince[call[c].subject] <= call[c].lag
        /\ call[c].step \in Informed => activeSince[call[c].subject] <= call[c].lag

TokensAge ==
    \A p \in pairs : /\ "ADMIN" \in p.roles => adminSince[p.user] <= p.age + 1
                     /\ activeSince[p.user] <= p.age + 1

------------------------------------------------------------------------------
(* Types *)

\* The initial state is of the types.
LEMMA InitType == Init => TypeOK
  BY AccountsAssumption DEF Init, TypeOK, NoCall, CallRecord, Steps

\* The record of a call that has ended is of its type.
LEMMA NoCallType == NoCall \in CallRecord
  BY DEF NoCall, CallRecord, Steps

\* What a call may become.
LEMMA CallFieldsType ==
    ASSUME NEW r \in CallRecord, NEW s \in Steps, NEW u \in Clients \cup {NULL},
           NEW R \in SUBSET Roles
    PROVE  /\ [r EXCEPT !.step = s] \in CallRecord
           /\ [r EXCEPT !.step = s, !.subject = u] \in CallRecord
           /\ [r EXCEPT !.step = s, !.roles = R] \in CallRecord
           /\ [r EXCEPT !.step = s, !.subject = u, !.roles = R] \in CallRecord
  BY DEF CallRecord

\* A call of c ends: the calls keep their type.
LEMMA EndedType == ASSUME TypeOK, NEW c \in Clients, Ended(c) PROVE call' \in [Clients -> CallRecord]
  BY NoCallType DEF TypeOK, Ended

\* The new row and its insertion are of the types.
LEMMA InsertType ==
    ASSUME TypeOK, NEW c \in Clients, Insert(c), pairs' = pairs
    PROVE  TypeOK'
  <1>1. RoleAsked[c] \in Roles
    BY AccountsAssumption
  <1>2. /\ users' \subseteq Clients
        /\ roles' \in [Clients -> SUBSET Roles]
        /\ active' \in [Clients -> BOOLEAN]
        /\ adminSince' \in [Clients -> 0..(AccessLife + 1)]
        /\ activeSince' \in [Clients -> 0..(AccessLife + 1)]
    <2>1. 0 \in 0..(AccessLife + 1)
      BY AccountsAssumption
    <2> QED
      BY <1>1, <2>1 DEF TypeOK, Insert, NewAccount
  <1>3. /\ call' \in [Clients -> CallRecord]
        /\ answer' \in [Clients -> {"none", "201", "409", "500"}]
        /\ faulted' \subseteq Clients
    <2>1. CASE call' = [call EXCEPT ![c].step = "welcome", ![c].subject = c,
                                    ![c].roles = {RoleAsked[c]}] /\ UNCHANGED <<answer, faulted>>
      <3>1. [call[c] EXCEPT !.step = "welcome", !.subject = c, !.roles = {RoleAsked[c]}]
               \in CallRecord
        <4>1. {RoleAsked[c]} \in SUBSET Roles /\ "welcome" \in Steps /\ call[c] \in CallRecord
          BY <1>1 DEF TypeOK, Steps
        <4> QED
          BY <4>1, CallFieldsType
      <3> QED
        BY <2>1, <3>1 DEF TypeOK
    <2>2. CASE Answered(c, "500") /\ faulted' = faulted \cup {c}
      BY <2>2, EndedType DEF TypeOK, Answered
    <2> QED
      BY <2>1, <2>2 DEF Insert
  <1> QED
    BY <1>2, <1>3 DEF TypeOK

\* The requests and queries of a client.
LEMMA CallType ==
    ASSUME TypeOK, NEW c \in Clients, Register(c) \/ Login(c) \/ Refresh(c) \/ CallStep(c),
           SubjectsAreKnown
    PROVE  TypeOK'
  <1>1. CASE Register(c)
    <2>1. [NoCall EXCEPT !.step = "lookup"] \in CallRecord
      BY DEF NoCall, CallRecord, Steps
    <2> QED
      BY <1>1, <2>1 DEF TypeOK, Register, since
  <1>2. ASSUME NEW u \in Clients, Read(c, u) PROVE TypeOK'
    <2>1. [NoCall EXCEPT !.step = "read", !.subject = u] \in CallRecord
      <3>1. "read" \in Steps /\ {} \in SUBSET Roles
        BY DEF Steps
      <3> QED
        BY <3>1, NoCallType, CallFieldsType
    <2> QED
      BY <1>2, <2>1 DEF TypeOK, Read, since
  <1>3. CASE Login(c) \/ Refresh(c)
    BY <1>2, <1>3 DEF TypeOK, Login, Refresh, Accounts, Pair
  <1>4. CASE FindByEmail(c)
    <2>1. CASE Answered(c, "409")
      BY <1>4, <2>1, EndedType DEF TypeOK, FindByEmail, Answered, since
    <2>2. CASE call' = [call EXCEPT ![c].step = "insert"] /\ UNCHANGED answer
      <3>1. [call[c] EXCEPT !.step = "insert"] \in CallRecord
        BY DEF TypeOK, CallRecord, Steps
      <3> QED
        BY <1>4, <2>2, <3>1 DEF TypeOK, FindByEmail, since
    <2> QED
      BY <1>4, <2>1, <2>2 DEF FindByEmail
  <1>5. CASE CreateUser(c)
    <2>1. CASE Insert(c)
      BY <1>5, <2>1, InsertType DEF CreateUser
    <2>2. CASE Answered(c, "409") /\ UNCHANGED <<users, roles, active, since, faulted>>
      BY <1>5, <2>2, EndedType DEF TypeOK, CreateUser, Answered, since
    <2> QED
      BY <1>5, <2>1, <2>2 DEF CreateUser
  <1>6. CASE ReadUser(c) \/ ReadRoles(c)
    <2>1. call[c].subject \in Clients /\ call[c] \in CallRecord
      BY <1>6 DEF ReadUser, ReadRoles, SubjectsAreKnown, TypeOK
    <2>2. [call[c] EXCEPT !.step = "roles"] \in CallRecord
      <3>1. "roles" \in Steps /\ {} \in SUBSET Roles
        BY DEF Steps
      <3> QED
        BY <2>1, <3>1, CallFieldsType
    <2>3. [call[c] EXCEPT !.step = "sign", !.roles = roles[call[c].subject]] \in CallRecord
      <3>1. roles[call[c].subject] \in SUBSET Roles /\ "sign" \in Steps
        BY <2>1 DEF TypeOK, Steps
      <3> QED
        BY <2>1, <3>1, CallFieldsType
    <2> QED
      BY <1>6, <2>2, <2>3 DEF TypeOK, ReadUser, ReadRoles, since
  <1>7. CASE GenerateTokenPair(c)
    <2>1. call[c].subject \in Clients /\ call[c].roles \subseteq Roles /\ 0 \in 0..(RefreshLife - 1)
      BY <1>7, AccountsAssumption DEF GenerateTokenPair, SubjectsAreKnown, TypeOK, CallRecord
    <2>2. pairs' \subseteq Pair
      BY <1>7, <2>1 DEF GenerateTokenPair, TypeOK, Pair
    <2>3. /\ call' \in [Clients -> CallRecord]
          /\ answer' \in [Clients -> {"none", "201", "409", "500"}]
      BY <1>7, EndedType DEF GenerateTokenPair, TypeOK, Answered
    <2> QED
      BY <1>7, <2>2, <2>3 DEF GenerateTokenPair, TypeOK, since
  <1>8. CASE ReadRefused(c)
    BY <1>8, EndedType DEF ReadRefused, TypeOK, since
  <1>9. CASE RegistrationFails(c)
    BY <1>9, EndedType DEF RegistrationFails, TypeOK, Answered, since
  <1> QED
    BY <1>1, <1>3, <1>4, <1>5, <1>6, <1>7, <1>8, <1>9 DEF CallStep

\* A crash, an operator and time.
LEMMA SurroundingsType ==
    ASSUME TypeOK,
           \/ Crash
           \/ \E u \in Clients, role \in Roles : ChangeRole(u, role)
           \/ \E u \in Clients, isActive \in BOOLEAN : SetActive(u, isActive)
           \/ Tick
    PROVE  TypeOK'
  <1>1. AccessLife \in Nat /\ RefreshLife \in Nat /\ 0 \in 0..(AccessLife + 1)
    BY AccountsAssumption
  <1>2. CASE Crash
    BY <1>2, NoCallType DEF Crash, TypeOK, since
  <1>3. ASSUME NEW u \in Clients, NEW role \in Roles, ChangeRole(u, role) PROVE TypeOK'
    BY <1>1, <1>3 DEF ChangeRole, TypeOK, calls
  <1>4. ASSUME NEW u \in Clients, NEW isActive \in BOOLEAN, SetActive(u, isActive) PROVE TypeOK'
    BY <1>1, <1>4 DEF SetActive, TypeOK, calls
  <1>5. CASE Tick
    <2>1. call' \in [Clients -> CallRecord]
      <3>1. \A c \in Clients, lag \in 0..1 : [call[c] EXCEPT !.lag = lag] \in CallRecord
        BY DEF TypeOK, CallRecord
      <3>2. \A c \in Clients : (IF call[c].step \in Informed THEN 1 ELSE 0) \in 0..1
        OBVIOUS
      <3>3. call' = [c \in Clients |-> [call[c] EXCEPT
                        !.lag = IF call[c].step \in Informed THEN 1 ELSE 0]]
        BY <1>5 DEF Tick
      <3> QED
        BY <3>1, <3>2, <3>3
    <2>2. pairs' \subseteq Pair
      <3>1. ASSUME NEW q \in pairs, q.age + 1 < RefreshLife
            PROVE  [q EXCEPT !.age = @ + 1] \in Pair
        <4>1. q \in Pair /\ q.age \in Nat
          BY <1>1 DEF TypeOK, Pair
        <4>2. q.age + 1 \in 0..(RefreshLife - 1)
          BY <1>1, <3>1, <4>1
        <4> QED
          BY <4>1, <4>2 DEF Pair
      <3> QED
        BY <1>5, <3>1 DEF Tick, Older
    <2>3. /\ adminSince' \in [Clients -> 0..(AccessLife + 1)]
          /\ activeSince' \in [Clients -> 0..(AccessLife + 1)]
      <3>1. \A n \in 0..(AccessLife + 1) : OneMore(n) \in 0..(AccessLife + 1)
        BY <1>1 DEF OneMore
      <3> QED
        BY <1>1, <1>5, <3>1 DEF Tick, TypeOK
    <2> QED
      BY <1>5, <2>1, <2>2, <2>3 DEF Tick, TypeOK
  <1> QED
    BY <1>2, <1>3, <1>4, <1>5

\* Every step.
LEMMA NextType == ASSUME TypeOK, SubjectsAreKnown, [Next]_vars PROVE TypeOK'
  <1>1. CASE UNCHANGED vars
    BY <1>1 DEF vars, since, TypeOK
  <1> QED
    BY <1>1, CallType, SurroundingsType DEF Next

------------------------------------------------------------------------------
(* Calls *)

\* What a step may do to a call: nothing, end or begin it, or move it along.
CallMoves(c) ==
    \/ call'[c] = call[c]
    \/ call'[c].step \in {"none", "lookup", "insert"}
    \/ call'[c].step = "read" /\ call'[c].subject \in Clients
    \/ /\ call[c].step \in {"read", "roles"} /\ call'[c].step \in {"roles", "sign"}
       /\ call'[c].subject = call[c].subject
    \/ call[c].step = "insert" /\ call'[c].step = "welcome" /\ call'[c].subject = c /\ c \in users'
    \/ call'[c].step = call[c].step /\ call'[c].subject = call[c].subject

\* The requests and queries of a client move its own call and keep the accounts.
LEMMA CallMovesOn ==
    ASSUME TypeOK, NEW d \in Clients, Register(d) \/ Login(d) \/ Refresh(d) \/ CallStep(d),
           NEW c \in Clients
    PROVE  CallMoves(c) /\ users \subseteq users'
  <1> USE DEF TypeOK, CallMoves
  <1>1. CASE Register(d)
    BY <1>1 DEF Register, NoCall
  <1>2. CASE Login(d) \/ Refresh(d)
    <2>1. PICK u \in Clients : Read(d, u)
      BY <1>2 DEF Login, Refresh, Accounts, Pair
    <2>2. CASE c = d
      <3>1. call'[c] = [NoCall EXCEPT !.step = "read", !.subject = u]
        BY <2>1, <2>2 DEF Read
      <3>2. call'[c].step = "read" /\ call'[c].subject = u
        BY <3>1 DEF NoCall
      <3> QED
        BY <2>1, <3>2 DEF Read
    <2>3. CASE c # d
      BY <2>1, <2>3 DEF Read
    <2> QED
      BY <2>2, <2>3
  <1>3. CASE FindByEmail(d)
    BY <1>3 DEF FindByEmail, Answered, Ended, NoCall, CallRecord
  <1>4. CASE CreateUser(d)
    BY <1>4 DEF CreateUser, Insert, NewAccount, Answered, Ended, NoCall, CallRecord
  <1>5. CASE ReadUser(d) \/ ReadRoles(d)
    BY <1>5 DEF ReadUser, ReadRoles, CallRecord
  <1>6. CASE GenerateTokenPair(d)
    BY <1>6 DEF GenerateTokenPair, Answered, Ended, NoCall
  <1>7. CASE ReadRefused(d) \/ RegistrationFails(d)
    BY <1>7 DEF ReadRefused, RegistrationFails, Answered, Ended, NoCall
  <1> QED
    BY <1>1, <1>2, <1>3, <1>4, <1>5, <1>6, <1>7 DEF CallStep

\* Every step moves calls so, and no account is ever removed.
LEMMA EveryCallMoves ==
    ASSUME TypeOK, [Next]_vars, NEW c \in Clients
    PROVE  CallMoves(c) /\ users \subseteq users'
  <1>1. CASE Crash
    BY <1>1 DEF Crash, CallMoves, NoCall
  <1>2. CASE Tick
    <2>1. /\ call'[c].step = call[c].step
          /\ call'[c].subject = call[c].subject
      BY <1>2 DEF Tick, TypeOK, CallRecord
    <2> QED
      BY <1>2, <2>1 DEF Tick, CallMoves
  <1>3. CASE (\E u \in Clients, role \in Roles : ChangeRole(u, role))
             \/ (\E u \in Clients, isActive \in BOOLEAN : SetActive(u, isActive))
    BY <1>3 DEF ChangeRole, SetActive, calls, CallMoves
  <1>4. CASE UNCHANGED vars
    BY <1>4 DEF vars, CallMoves
  <1> QED
    BY <1>1, <1>2, <1>3, <1>4, CallMovesOn DEF Next

\* A call about an account is about one that exists; a welcome is to its own account.
LEMMA SubjectsStep ==
    ASSUME TypeOK, SubjectsAreKnown, WelcomesAreOwn, [Next]_vars
    PROVE  SubjectsAreKnown' /\ WelcomesAreOwn'
  <1>1. ASSUME NEW c \in Clients
        PROVE  call'[c].step \in {"read", "roles", "welcome", "sign"} => call'[c].subject \in Clients
    BY <1>1, EveryCallMoves DEF SubjectsAreKnown, CallMoves
  <1>2. ASSUME NEW c \in Clients
        PROVE  call'[c].step = "welcome" => call'[c].subject = c /\ c \in users'
    BY <1>2, EveryCallMoves DEF WelcomesAreOwn, CallMoves
  <1> QED
    BY <1>1, <1>2 DEF SubjectsAreKnown, WelcomesAreOwn

------------------------------------------------------------------------------
(* Accounts and answers *)

\* Only CreateUser adds an account, and only where there is none.
LEMMA AccountStep ==
    ASSUME TypeOK, OneWholeAccount, [Next]_vars
    PROVE  OneWholeAccount'
  <1>1. CASE users' = users /\ roles' = roles
    BY <1>1 DEF OneWholeAccount, Accounts
  <1>2. ASSUME NEW c \in Clients, CreateUser(c), users' # users \/ roles' # roles
        PROVE  OneWholeAccount'
    <2>1. /\ Accounts(c) = {}
          /\ users' = users \cup {c}
          /\ roles' = [roles EXCEPT ![c] = {RoleAsked[c]}]
      BY <1>2 DEF CreateUser, Insert, NewAccount
    <2>2. \A u \in users : u # c /\ EmailOf[u] # EmailOf[c]
      BY <2>1 DEF Accounts
    <2>3. ASSUME NEW u \in users' PROVE Accounts(u)' = {u} /\ roles'[u] # {}
      <3>1. CASE u = c
        BY <2>1, <2>2, <3>1 DEF Accounts, TypeOK
      <3>2. CASE u # c
        <4>1. u \in users /\ Accounts(u) = {u} /\ roles[u] # {}
          BY <2>1, <3>2 DEF OneWholeAccount
        <4>2. Accounts(u)' = {u}
          BY <2>1, <2>2, <4>1 DEF Accounts
        <4>3. roles'[u] = roles[u]
          BY <2>1, <3>2, <4>1 DEF TypeOK
        <4> QED
          BY <4>1, <4>2, <4>3
      <3> QED
        BY <3>1, <3>2
    <2> QED
      BY <2>3 DEF OneWholeAccount
  <1>3. ASSUME NEW u \in Clients, NEW role \in Roles, ChangeRole(u, role)
        PROVE  OneWholeAccount'
    BY <1>3 DEF ChangeRole, OneWholeAccount, Accounts, TypeOK
  <1>4. ASSUME NEW c \in Clients, CallStep(c), users' # users \/ roles' # roles
        PROVE  CreateUser(c)
    BY <1>4 DEF CallStep, FindByEmail, ReadUser, ReadRoles, GenerateTokenPair, ReadRefused,
       RegistrationFails
  <1>5. ASSUME NEW c \in Clients, Register(c) \/ Login(c) \/ Refresh(c)
        PROVE  users' = users /\ roles' = roles
    BY <1>5 DEF Register, Login, Refresh, Read
  <1>6. ASSUME Crash \/ Tick \/ (\E u \in Clients, isActive \in BOOLEAN : SetActive(u, isActive))
        PROVE  users' = users /\ roles' = roles
    BY <1>6 DEF Crash, Tick, SetActive
  <1>7. CASE UNCHANGED vars
    BY <1>1, <1>7 DEF vars
  <1> QED
    BY <1>1, <1>2, <1>3, <1>4, <1>5, <1>6, <1>7 DEF Next

\* How a step of c itself may answer c.
TrueAnswer(c) ==
    /\ answer'[c] = "201" => c \in users'
    /\ answer'[c] = "409" => Accounts(c)' # {}
    /\ answer'[c] = "500" => c \in faulted'

\* The requests and queries of a client.
LEMMA CallAnswers ==
    ASSUME TypeOK, WelcomesAreOwn, AnswersAreTrue, NEW c \in Clients,
           Register(c) \/ Login(c) \/ Refresh(c) \/ CallStep(c)
    PROVE  /\ TrueAnswer(c)
           /\ \A d \in Clients : d # c => answer'[d] = answer[d] /\ (d \in faulted => d \in faulted')
  <1> USE DEF TypeOK, TrueAnswer, AnswersAreTrue, Accounts
  <1>1. CASE Register(c)
    BY <1>1 DEF Register
  <1>2. CASE Login(c) \/ Refresh(c)
    BY <1>2 DEF Login, Refresh, Read
  <1>3. CASE FindByEmail(c)
    BY <1>3 DEF FindByEmail, Answered
  <1>4. CASE CreateUser(c)
    BY <1>4 DEF CreateUser, Insert, NewAccount, Answered
  <1>5. CASE ReadUser(c) \/ ReadRoles(c)
    BY <1>5 DEF ReadUser, ReadRoles
  <1>6. CASE GenerateTokenPair(c)
    BY <1>6 DEF GenerateTokenPair, Answered, WelcomesAreOwn
  <1>7. CASE ReadRefused(c) \/ RegistrationFails(c)
    BY <1>7 DEF ReadRefused, RegistrationFails, Answered
  <1> QED
    BY <1>1, <1>2, <1>3, <1>4, <1>5, <1>6, <1>7 DEF CallStep

\* Every step keeps the answers true.
LEMMA AnswersStep ==
    ASSUME TypeOK, WelcomesAreOwn, AnswersAreTrue, [Next]_vars
    PROVE  AnswersAreTrue'
  <1>0. users \subseteq users' \/ Clients = {}
    BY EveryCallMoves
  <1>1. ASSUME NEW c \in Clients, Register(c) \/ Login(c) \/ Refresh(c) \/ CallStep(c)
        PROVE  AnswersAreTrue'
    BY <1>0, <1>1, CallAnswers DEF AnswersAreTrue, TrueAnswer, Accounts
  <1>2. ASSUME answer' = answer, faulted \subseteq faulted'
        PROVE  AnswersAreTrue'
    BY <1>0, <1>2 DEF AnswersAreTrue, Accounts
  <1>3. CASE Crash \/ Tick \/ UNCHANGED vars
    BY <1>2, <1>3 DEF Crash, Tick, vars
  <1>4. CASE (\E u \in Clients, role \in Roles : ChangeRole(u, role))
             \/ (\E u \in Clients, isActive \in BOOLEAN : SetActive(u, isActive))
    BY <1>2, <1>4 DEF ChangeRole, SetActive, calls
  <1> QED
    BY <1>1, <1>3, <1>4 DEF Next

------------------------------------------------------------------------------
(* Authority *)

Authority == HeldNow /\ SignedSoon /\ TokensAge

\* Only Tick counts on: in any other step what is counted stays or falls to 0.
KeptOr0(a, b) == \A u \in Clients : a[u] = b[u] \/ a[u] = 0

SinceKeptOr0 == KeptOr0(adminSince', adminSince) /\ KeptOr0(activeSince', activeSince)

LEMMA CallKeepsSince ==
    ASSUME TypeOK, NEW d \in Clients, Register(d) \/ Login(d) \/ Refresh(d) \/ CallStep(d)
    PROVE  SinceKeptOr0
  <1>1. CASE UNCHANGED since
    BY <1>1 DEF since, SinceKeptOr0, KeptOr0
  <1>2. CASE NewAccount(d)
    BY <1>2 DEF NewAccount, SinceKeptOr0, KeptOr0, TypeOK
  <1> QED
    BY <1>1, <1>2 DEF Register, Login, Refresh, CallStep, Read, FindByEmail, CreateUser, Insert,
       ReadUser, ReadRoles, GenerateTokenPair, ReadRefused, RegistrationFails

\* How a step may change what a call knows of its account.
Learns(c) ==
    \/ call'[c] = call[c]
    \/ call'[c].step \notin Informed
    \/ /\ call'[c].step = "welcome" /\ call'[c].subject = c /\ call'[c].roles = {RoleAsked[c]}
       /\ NewAccount(c)
    \/ /\ call[c].step = "read" /\ call'[c].step = "roles"
       /\ call'[c].subject = call[c].subject /\ active[call[c].subject] /\ UNCHANGED since
    \/ /\ call[c].step = "roles" /\ call'[c].step = "sign" /\ call'[c].lag = call[c].lag
       /\ call'[c].subject = call[c].subject /\ call'[c].roles = roles[call[c].subject]
       /\ UNCHANGED since

LEMMA CallLearns ==
    ASSUME TypeOK, NEW d \in Clients, Register(d) \/ Login(d) \/ Refresh(d) \/ CallStep(d),
           NEW c \in Clients
    PROVE  Learns(c)
  <1> USE DEF TypeOK, Learns, Informed
  <1>1. CASE Register(d)
    BY <1>1 DEF Register, NoCall
  <1>2. CASE Login(d) \/ Refresh(d)
    <2>1. PICK u : Read(d, u)
      BY <1>2 DEF Login, Refresh
    <2>2. [NoCall EXCEPT !.step = "read", !.subject = u].step = "read"
      BY DEF NoCall
    <2> QED
      BY <2>1, <2>2 DEF Read
  <1>3. CASE FindByEmail(d)
    BY <1>3 DEF FindByEmail, Answered, Ended, NoCall, CallRecord
  <1>4. CASE CreateUser(d)
    BY <1>4 DEF CreateUser, Insert, Answered, Ended, NoCall, CallRecord
  <1>5. CASE ReadUser(d)
    BY <1>5 DEF ReadUser, CallRecord
  <1>6. CASE ReadRoles(d)
    BY <1>6 DEF ReadRoles, CallRecord
  <1>7. CASE GenerateTokenPair(d)
    BY <1>7 DEF GenerateTokenPair, Answered, Ended, NoCall
  <1>8. CASE ReadRefused(d) \/ RegistrationFails(d)
    BY <1>8 DEF ReadRefused, RegistrationFails, Answered, Ended, NoCall
  <1> QED
    BY <1>1, <1>2, <1>3, <1>4, <1>5, <1>6, <1>7, <1>8 DEF CallStep

\* What a call knows about c's account as of the call's first read.
Fresh(c) ==
    /\ Issuing(c) /\ "ADMIN" \in call[c].roles => adminSince[call[c].subject] <= call[c].lag
    /\ call[c].step \in Informed => activeSince[call[c].subject] <= call[c].lag

\* A call learns what the account has now, or keeps what it knew.
LEMMA IssuesWhatItHas ==
    ASSUME TypeOK, TypeOK', SubjectsAreKnown, HeldNow, SignedSoon, NEW c \in Clients,
           Learns(c), SinceKeptOr0
    PROVE  Fresh(c)'
  <1> USE DEF Issuing, Informed
  <1>1. call[c].lag \in 0..1 /\ call'[c].lag \in 0..1 /\ AccessLife \in Nat
    BY AccountsAssumption DEF TypeOK, CallRecord
  <1>2. \A u \in Clients : adminSince[u] \in Nat /\ activeSince[u] \in Nat
    BY <1>1 DEF TypeOK
  <1>3. CASE call'[c] = call[c]
    <2>1. call[c].step \in Informed => call[c].subject \in Clients
      BY DEF SubjectsAreKnown
    <2> QED
      BY <1>1, <1>2, <1>3, <2>1 DEF SignedSoon, SinceKeptOr0, KeptOr0, Fresh
  <1>4. CASE call'[c].step \notin Informed
    BY <1>4 DEF Fresh
  <1>5. CASE call'[c].step = "welcome" /\ call'[c].subject = c /\ call'[c].roles = {RoleAsked[c]}
             /\ NewAccount(c)
    <2>1. activeSince'[c] = 0 /\ (RoleAsked[c] = "ADMIN" => adminSince'[c] = 0)
      BY <1>5 DEF NewAccount, TypeOK
    <2> QED
      BY <1>1, <1>5, <2>1 DEF Fresh
  <1>6. CASE call[c].step = "read" /\ call'[c].step = "roles"
             /\ call'[c].subject = call[c].subject /\ active[call[c].subject] /\ UNCHANGED since
    <2>1. call[c].subject \in Clients
      BY <1>6 DEF SubjectsAreKnown
    <2>2. activeSince'[call'[c].subject] = 0
      BY <1>6, <2>1 DEF HeldNow, since
    <2> QED
      BY <1>1, <1>6, <2>2 DEF Fresh
  <1>7. CASE call[c].step = "roles" /\ call'[c].step = "sign" /\ call'[c].lag = call[c].lag
             /\ call'[c].subject = call[c].subject /\ call'[c].roles = roles[call[c].subject]
             /\ UNCHANGED since
    <2>1. call[c].subject \in Clients
      BY <1>7 DEF SubjectsAreKnown
    <2>2. "ADMIN" \in call'[c].roles => adminSince'[call'[c].subject] = 0
      BY <1>7, <2>1 DEF HeldNow, IsAdmin, since
    <2>3. activeSince'[call'[c].subject] <= call'[c].lag
      BY <1>7 DEF SignedSoon, since
    <2> QED
      BY <1>1, <1>7, <2>2, <2>3 DEF Fresh
  <1> QED
    BY <1>3, <1>4, <1>5, <1>6, <1>7 DEF Learns

\* Whoever holds the role now has held it up to now, whatever happens to the accounts.
LEMMA HeldStep ==
    ASSUME TypeOK, HeldNow, [Next]_vars
    PROVE  HeldNow'
  <1>1. CASE UNCHANGED <<roles, active, since>>
    BY <1>1 DEF HeldNow, IsAdmin, since
  <1>2. ASSUME NEW c \in Clients, NewAccount(c) PROVE HeldNow'
    BY <1>2, AccountsAssumption DEF NewAccount, HeldNow, IsAdmin, TypeOK, Roles
  <1>3. ASSUME NEW u \in Clients, NEW role \in Roles, ChangeRole(u, role) PROVE HeldNow'
    BY <1>3 DEF ChangeRole, HeldNow, IsAdmin, TypeOK, Roles
  <1>4. ASSUME NEW u \in Clients, NEW isActive \in BOOLEAN, SetActive(u, isActive) PROVE HeldNow'
    BY <1>4 DEF SetActive, HeldNow, IsAdmin, TypeOK
  <1>5. CASE Tick
    BY <1>5 DEF Tick, HeldNow, IsAdmin
  <1>6. ASSUME NEW c \in Clients, Register(c) \/ Login(c) \/ Refresh(c) \/ CallStep(c)
        PROVE  HeldNow'
    BY <1>1, <1>2, <1>6 DEF Register, Login, Refresh, Read, CallStep, FindByEmail, CreateUser,
       Insert, ReadUser, ReadRoles, GenerateTokenPair, ReadRefused, RegistrationFails
  <1>7. CASE Crash \/ UNCHANGED vars
    BY <1>1, <1>7 DEF Crash, vars
  <1> QED
    BY <1>3, <1>4, <1>5, <1>6, <1>7 DEF Next

LEMMA SinceStep ==
    ASSUME TypeOK, [Next]_vars, ~Tick
    PROVE  SinceKeptOr0
  <1> USE DEF TypeOK, SinceKeptOr0, KeptOr0
  <1>1. ASSUME NEW u \in Clients, NEW role \in Roles, ChangeRole(u, role) PROVE SinceKeptOr0
    BY <1>1 DEF ChangeRole
  <1>2. ASSUME NEW u \in Clients, NEW isActive \in BOOLEAN, SetActive(u, isActive)
        PROVE SinceKeptOr0
    BY <1>2 DEF SetActive
  <1>3. CASE Crash \/ UNCHANGED vars
    BY <1>3 DEF Crash, vars, since
  <1> QED
    BY <1>1, <1>2, <1>3, CallKeepsSince DEF Next

\* In a unit of time what is counted grows by one at most.
LEMMA TickAges ==
    ASSUME TypeOK, Tick, NEW u \in Clients
    PROVE  /\ adminSince[u] \in Nat /\ adminSince'[u] \in Nat /\ adminSince'[u] <= adminSince[u] + 1
           /\ activeSince[u] \in Nat /\ activeSince'[u] \in Nat /\ activeSince'[u] <= activeSince[u] + 1
  <1>1. adminSince[u] \in Nat /\ activeSince[u] \in Nat
    BY AccountsAssumption DEF TypeOK
  <1>2. /\ adminSince'[u] = IF IsAdmin(u) THEN 0 ELSE OneMore(adminSince[u])
        /\ activeSince'[u] = IF active[u] THEN 0 ELSE OneMore(activeSince[u])
    BY DEF Tick
  <1>3. \A n \in Nat : OneMore(n) \in Nat /\ OneMore(n) <= n + 1
    BY DEF OneMore
  <1> QED
    BY <1>1, <1>2, <1>3

\* What is about to be signed is no older than the call.
LEMMA SignedStep ==
    ASSUME TypeOK, TypeOK', SubjectsAreKnown, HeldNow, SignedSoon, [Next]_vars
    PROVE  SignedSoon'
  <1>0. SUFFICES ASSUME NEW c \in Clients PROVE Fresh(c)'
    BY DEF SignedSoon, Fresh
  <1>1. ASSUME NEW d \in Clients, Register(d) \/ Login(d) \/ Refresh(d) \/ CallStep(d)
        PROVE  Fresh(c)'
    BY <1>1, CallLearns, CallKeepsSince, IssuesWhatItHas
  <1>2. CASE Crash
    BY <1>2 DEF Crash, NoCall, Issuing, Informed, Fresh
  <1>3. CASE Tick
    <2>1. /\ call'[c].step = call[c].step /\ call'[c].subject = call[c].subject
          /\ call'[c].roles = call[c].roles
          /\ call'[c].lag = IF call[c].step \in Informed THEN 1 ELSE 0
      BY <1>3 DEF Tick, TypeOK, CallRecord
    <2>2. ASSUME call[c].step \in Informed
          PROVE  /\ call'[c].lag = 1 /\ call[c].lag = 0 /\ call[c].subject \in Clients
                 /\ activeSince[call[c].subject] <= 0
                 /\ Issuing(c) /\ "ADMIN" \in call[c].roles => adminSince[call[c].subject] <= 0
      BY <1>3, <2>1, <2>2 DEF Tick, SubjectsAreKnown, SignedSoon, Informed
    <2>3. Issuing(c) => call[c].step \in Informed
      BY DEF Issuing, Informed
    <2>4. CASE call[c].step \in Informed
      <3> DEFINE u == call[c].subject
      <3>1. /\ u \in Clients /\ call'[c].lag = 1 /\ call'[c].subject = u /\ activeSince[u] <= 0
            /\ Issuing(c) /\ "ADMIN" \in call[c].roles => adminSince[u] <= 0
        BY <2>1, <2>2, <2>4
      <3>2. /\ adminSince[u] \in Nat /\ adminSince'[u] \in Nat /\ adminSince'[u] <= adminSince[u] + 1
            /\ activeSince[u] \in Nat /\ activeSince'[u] \in Nat
            /\ activeSince'[u] <= activeSince[u] + 1
        BY <1>3, <3>1, TickAges
      <3>3. activeSince'[u] <= 1 /\ (Issuing(c) /\ "ADMIN" \in call[c].roles => adminSince'[u] <= 1)
        BY <3>1, <3>2
      <3> HIDE DEF u
      <3> QED
        BY <2>1, <3>1, <3>3 DEF Fresh, Issuing
    <2>5. CASE call[c].step \notin Informed
      BY <2>1, <2>3, <2>5 DEF Fresh, Issuing, Informed
    <2> QED
      BY <2>4, <2>5
  <1>4. CASE ~Tick /\ call' = call
    <2>1. SinceKeptOr0 /\ Learns(c)
      BY <1>4, SinceStep DEF Learns
    <2> QED
      BY <2>1, IssuesWhatItHas
  <1>5. CASE (\E u \in Clients, role \in Roles : ChangeRole(u, role))
             \/ (\E u \in Clients, isActive \in BOOLEAN : SetActive(u, isActive))
             \/ UNCHANGED vars
    BY <1>3, <1>4, <1>5 DEF ChangeRole, SetActive, calls, vars
  <1> QED
    BY <1>1, <1>2, <1>3, <1>5 DEF Next

\* What a token says is no older than the token and the call that issued it.
LEMMA TokensStep ==
    ASSUME TypeOK, SubjectsAreKnown, SignedSoon, TokensAge, [Next]_vars
    PROVE  TokensAge'
  <1>1. ASSUME NEW p \in pairs PROVE p.user \in Clients /\ p.age \in Nat
    BY AccountsAssumption DEF TypeOK, Pair
  <1>2. CASE Tick
    <2>1. ASSUME NEW p \in pairs'
          PROVE  /\ "ADMIN" \in p.roles => adminSince'[p.user] <= p.age + 1
                 /\ activeSince'[p.user] <= p.age + 1
      <3>1. PICK q \in pairs : p = [q EXCEPT !.age = @ + 1]
        BY <1>2, <2>1 DEF Tick, Older
      <3>2. p.user = q.user /\ p.roles = q.roles /\ p.age = q.age + 1
        BY <3>1 DEF TypeOK, Pair
      <3>3. /\ "ADMIN" \in q.roles => adminSince[q.user] <= q.age + 1
            /\ activeSince[q.user] <= q.age + 1
        BY DEF TokensAge
      <3>4. q.user \in Clients /\ q.age \in Nat
        BY <1>1
      <3>5. /\ adminSince[q.user] \in Nat /\ adminSince'[q.user] \in Nat
            /\ adminSince'[q.user] <= adminSince[q.user] + 1
            /\ activeSince[q.user] \in Nat /\ activeSince'[q.user] \in Nat
            /\ activeSince'[q.user] <= activeSince[q.user] + 1
        BY <1>2, <3>4, TickAges
      <3>6. /\ "ADMIN" \in q.roles => adminSince'[q.user] <= q.age + 1 + 1
            /\ activeSince'[q.user] <= q.age + 1 + 1
        BY <3>3, <3>4, <3>5
      <3> QED
        BY <3>2, <3>6
    <2> QED
      BY <2>1 DEF TokensAge
  <1>3. ASSUME NEW p \in pairs, ~Tick
        PROVE  /\ "ADMIN" \in p.roles => adminSince'[p.user] <= p.age + 1
               /\ activeSince'[p.user] <= p.age + 1
    <2>1. SinceKeptOr0
      BY <1>3, SinceStep
    <2>2. /\ "ADMIN" \in p.roles => adminSince[p.user] <= p.age + 1
          /\ activeSince[p.user] <= p.age + 1
      BY DEF TokensAge
    <2> QED
      BY <1>1, <2>1, <2>2 DEF SinceKeptOr0, KeptOr0
  <1>4. ASSUME NEW c \in Clients, GenerateTokenPair(c), ~Tick PROVE TokensAge'
    <2> DEFINE t == [user |-> call[c].subject, roles |-> call[c].roles, age |-> 0]
    <2>1. pairs' = pairs \cup {t} /\ adminSince' = adminSince /\ activeSince' = activeSince
      BY <1>4 DEF GenerateTokenPair, since
    <2>2. /\ "ADMIN" \in t.roles => adminSince'[t.user] <= t.age + 1
          /\ activeSince'[t.user] <= t.age + 1
      <3>1. /\ call[c].lag \in 0..1 /\ Issuing(c) /\ call[c].step \in Informed
            /\ call[c].subject \in Clients
        BY <1>4 DEF GenerateTokenPair, TypeOK, CallRecord, Issuing, Informed, SubjectsAreKnown
      <3>2. adminSince[call[c].subject] \in Nat /\ activeSince[call[c].subject] \in Nat
        BY <3>1, AccountsAssumption DEF TypeOK
      <3> QED
        BY <2>1, <3>1, <3>2 DEF SignedSoon
    <2> QED
      BY <1>3, <1>4, <2>1, <2>2 DEF TokensAge
  <1>5. CASE ~Tick /\ pairs' = pairs
    BY <1>3, <1>5 DEF TokensAge
  <1>6. CASE (\E c \in Clients : Register(c) \/ Login(c) \/ Refresh(c) \/ FindByEmail(c)
                 \/ CreateUser(c) \/ ReadUser(c) \/ ReadRoles(c) \/ ReadRefused(c)
                 \/ RegistrationFails(c))
             \/ Crash
             \/ (\E u \in Clients, role \in Roles : ChangeRole(u, role))
             \/ (\E u \in Clients, isActive \in BOOLEAN : SetActive(u, isActive))
             \/ UNCHANGED vars
    <2>1. pairs' = pairs
      BY <1>6 DEF Register, Login, Refresh, Read, FindByEmail, CreateUser, ReadUser, ReadRoles,
         ReadRefused, RegistrationFails, Crash, ChangeRole, SetActive, vars
    <2> QED
      BY <1>2, <1>5, <2>1
  <1>7. ASSUME NEW c \in Clients, GenerateTokenPair(c) PROVE TokensAge'
    BY <1>2, <1>4, <1>7
  <1> QED
    BY <1>2, <1>6, <1>7 DEF Next, CallStep

------------------------------------------------------------------------------
(* The invariant *)

Inv ==
    TypeOK /\ SubjectsAreKnown /\ WelcomesAreOwn /\ OneWholeAccount /\ AnswersAreTrue
    /\ Authority

\* The initial state.
LEMMA InitIsSound == ASSUME Init PROVE Inv
  <1>1. TypeOK
    BY InitType
  <1> QED
    BY <1>1 DEF Init, NoCall, Inv, SubjectsAreKnown, WelcomesAreOwn, OneWholeAccount,
       AnswersAreTrue, Authority, HeldNow, IsAdmin, SignedSoon, Issuing, Informed, TokensAge

\* The invariant holds in every reachable state.
LEMMA Invariance == Spec => []Inv
  <1>1. Init => Inv
    BY InitIsSound
  <1>2. ASSUME Inv, [Next]_vars PROVE Inv'
    BY <1>2, NextType, SubjectsStep, AccountStep, AnswersStep, HeldStep, SignedStep, TokensStep
       DEF Inv, Authority
  <1> QED
    BY <1>1, <1>2, PTL DEF Spec

\* In every reachable state the variables have their types.
THEOREM AccountsTypeCorrect == Spec => []TypeOK
  <1>1. Inv => TypeOK
    BY DEF Inv
  <1> QED
    BY <1>1, Invariance, PTL

\* However many registrations race for an address, it has one account, with a role.
THEOREM AddressHasOneAccount == Spec => []OneWholeAccount
  <1>1. Inv => OneWholeAccount
    BY DEF Inv
  <1> QED
    BY <1>1, Invariance, PTL

\* What registrations are answered is true, and a lost race is never a server error.
THEOREM RegistrationAnswersAreTrue == Spec => []AnswersAreTrue
  <1>1. Inv => AnswersAreTrue
    BY DEF Inv
  <1> QED
    BY <1>1, Invariance, PTL

\* No token, however it was come by, outlives the activity of its account or the role it
\* names by more than the lifetime of an access token.
THEOREM AuthorityIsBounded == Spec => []AuthorityIsRecent
  <1>1. ASSUME Inv PROVE AuthorityIsRecent
    <2>1. ASSUME NEW u \in Clients, NEW p \in pairs, p.user = u, p.age < AccessLife
          PROVE  /\ activeSince[u] <= AccessLife
                 /\ "ADMIN" \in p.roles => adminSince[u] <= AccessLife
      <3>1. p.age \in Nat /\ adminSince[u] \in Nat /\ activeSince[u] \in Nat /\ AccessLife \in Nat
        BY <1>1, AccountsAssumption DEF Inv, TypeOK, Pair
      <3>2. /\ activeSince[u] <= p.age + 1
            /\ "ADMIN" \in p.roles => adminSince[u] <= p.age + 1
        BY <1>1, <2>1 DEF Inv, Authority, TokensAge
      <3> QED
        BY <2>1, <3>1, <3>2
    <2> QED
      BY <2>1 DEF AuthorityIsRecent, Admitted, Authorized
  <1> QED
    BY <1>1, Invariance, PTL

------------------------------------------------------------------------------
(* Registration is atomic *)

\* While a registration is under way its client has no answer yet.
Unanswered ==
    \A c \in Clients : call[c].step \in {"lookup", "insert", "welcome"} => answer[c] = "none"

\* A step of one client is seen in its outcome only.
LEMMA OneOutcome ==
    ASSUME TypeOK, NEW c \in Clients,
           \A d \in Clients \ {c} : call'[d] = call[d] /\ answer'[d] = answer[d]
    PROVE  Outcome' = [Outcome EXCEPT ![c] = OutcomeOf(c)']
  BY DEF Outcome, OutcomeOf

\* The steps of a registration are steps of the directory or are not seen.
LEMMA RegistrationRefines ==
    ASSUME TypeOK, TypeOK', NEW c \in Clients,
           Register(c) \/ FindByEmail(c) \/ CreateUser(c) \/ RegistrationFails(c)
    PROVE  Directory!DirectoryNext \/ UNCHANGED Directory!directoryVars
  <1>1. \A d \in Clients \ {c} : call'[d] = call[d] /\ answer'[d] = answer[d]
    BY DEF TypeOK, Register, FindByEmail, CreateUser, Insert, RegistrationFails, Answered, Ended
  <1>2. Outcome' = [Outcome EXCEPT ![c] = OutcomeOf(c)'] /\ Outcome[c] = OutcomeOf(c)
    BY <1>1, OneOutcome DEF Outcome
  <1>3. Directory!Taken(c) <=> Accounts(c) # {}
    BY DEF Directory!Taken, Accounts
  <1>4. CASE Register(c)
    <2>1. call'[c].step = "lookup" /\ answer[c] \in Directory!AtRest /\ users' = users
      BY <1>4 DEF Register, TypeOK, NoCall, Directory!AtRest
    <2>2. OutcomeOf(c) = answer[c] /\ OutcomeOf(c)' = "asked"
      BY <1>4, <2>1 DEF Register, Idle, OutcomeOf
    <2>3. Directory!Ask(c)
      BY <1>2, <2>1, <2>2 DEF Directory!Ask, Directory!Comes
    <2> QED
      BY <2>3 DEF Directory!DirectoryNext
  <1>5. CASE FindByEmail(c)
    <2>1. OutcomeOf(c) = "asked" /\ users' = users
      BY <1>5 DEF FindByEmail, OutcomeOf
    <2>2. CASE Accounts(c) # {} /\ Answered(c, "409")
      <3>1. OutcomeOf(c)' = "409"
        BY <2>2 DEF Answered, Ended, NoCall, TypeOK, OutcomeOf
      <3>2. Directory!Refuse(c)
        BY <1>2, <1>3, <2>1, <2>2, <3>1 DEF Directory!Refuse, Directory!Comes
      <3> QED
        BY <3>2 DEF Directory!DirectoryNext
    <2>3. CASE call' = [call EXCEPT ![c].step = "insert"]
      <3>1. OutcomeOf(c)' = "asked"
        BY <2>3 DEF TypeOK, CallRecord, OutcomeOf
      <3>2. Outcome' = Outcome
        BY <1>2, <2>1, <3>1 DEF Outcome
      <3> QED
        BY <2>1, <3>2 DEF Directory!directoryVars
    <2> QED
      BY <1>5, <2>2, <2>3 DEF FindByEmail
  <1>6. CASE CreateUser(c)
    <2>1. OutcomeOf(c) = "asked"
      BY <1>6 DEF CreateUser, OutcomeOf
    <2>2. CASE Accounts(c) = {} /\ Insert(c)
      <3>1. OutcomeOf(c)' \in {"created", "500"}
        BY <2>2 DEF Insert, Answered, Ended, NoCall, TypeOK, CallRecord, OutcomeOf
      <3>2. Directory!Create(c)
        BY <1>2, <1>3, <2>1, <2>2, <3>1 DEF Insert, NewAccount, Directory!Create, Directory!Comes
      <3> QED
        BY <3>2 DEF Directory!DirectoryNext
    <2>3. CASE Accounts(c) # {} /\ Answered(c, "409") /\ users' = users
      <3>1. OutcomeOf(c)' = "409"
        BY <2>3 DEF Answered, Ended, NoCall, TypeOK, OutcomeOf
      <3>2. Directory!Refuse(c)
        BY <1>2, <1>3, <2>1, <2>3, <3>1 DEF Directory!Refuse, Directory!Comes
      <3> QED
        BY <3>2 DEF Directory!DirectoryNext
    <2> QED
      BY <1>6, <2>2, <2>3 DEF CreateUser
  <1>7. CASE RegistrationFails(c)
    <2>1. OutcomeOf(c) = "asked" /\ OutcomeOf(c)' = "500" /\ users' = users
      BY <1>7 DEF RegistrationFails, Answered, Ended, NoCall, TypeOK, OutcomeOf
    <2>2. Directory!Fail(c)
      BY <1>2, <2>1 DEF Directory!Fail, Directory!Comes
    <2> QED
      BY <2>2 DEF Directory!DirectoryNext
  <1> QED
    BY <1>4, <1>5, <1>6, <1>7

\* A login and a refresh begin with the read of an account.
LEMMA ReadBegins ==
    ASSUME TypeOK, NEW c \in Clients, Login(c) \/ Refresh(c)
    PROVE  call[c].step = "none" /\ call'[c].step = "read" /\ answer' = answer
  <1>1. PICK u : Read(c, u)
    BY DEF Login, Refresh
  <1>2. call'[c] = [NoCall EXCEPT !.step = "read", !.subject = u]
    BY <1>1 DEF Read, TypeOK
  <1>3. call'[c].step = "read"
    BY <1>2 DEF NoCall
  <1> QED
    BY <1>1, <1>3 DEF Read, Idle

\* Tokens are seen by the directory only if they answer a registration.
LEMMA IssuingRefines ==
    ASSUME TypeOK, TypeOK', NEW c \in Clients,
           \/ Login(c) \/ Refresh(c)
           \/ ReadUser(c) \/ ReadRoles(c) \/ ReadRefused(c) \/ GenerateTokenPair(c)
    PROVE  Directory!DirectoryNext \/ UNCHANGED Directory!directoryVars
  <1>1. /\ \A d \in Clients \ {c} : call'[d] = call[d] /\ answer'[d] = answer[d]
        /\ users' = users
    BY DEF TypeOK, Login, Refresh, Read, ReadUser, ReadRoles, ReadRefused, GenerateTokenPair,
       Answered, Ended
  <1>2. Outcome' = [Outcome EXCEPT ![c] = OutcomeOf(c)'] /\ Outcome[c] = OutcomeOf(c)
    BY <1>1, OneOutcome DEF Outcome
  <1>3. CASE OutcomeOf(c)' = OutcomeOf(c)
    <2>1. Outcome' = Outcome
      BY <1>2, <1>3 DEF Outcome
    <2> QED
      BY <1>1, <2>1 DEF Directory!directoryVars
  <1>4. CASE Login(c) \/ Refresh(c)
    <2>1. call[c].step = "none" /\ call'[c].step = "read" /\ answer' = answer
      BY <1>4, ReadBegins
    <2> QED
      BY <1>3, <2>1 DEF OutcomeOf
  <1>5. CASE ReadUser(c) \/ ReadRoles(c)
    <2>1. /\ call[c].step \in {"read", "roles"} /\ call'[c].step \in {"roles", "sign"}
          /\ answer' = answer
      BY <1>5 DEF ReadUser, ReadRoles, TypeOK, CallRecord
    <2> QED
      BY <1>3, <2>1 DEF OutcomeOf
  <1>6. CASE ReadRefused(c) \/ (GenerateTokenPair(c) /\ call[c].step = "sign")
    <2>1. /\ call[c].step \in {"read", "roles", "sign"} /\ call'[c].step = "none"
          /\ answer' = answer
      BY <1>6 DEF ReadRefused, GenerateTokenPair, Ended, NoCall, TypeOK
    <2> QED
      BY <1>3, <2>1 DEF OutcomeOf
  <1>7. CASE GenerateTokenPair(c) /\ call[c].step = "welcome"
    <2>1. OutcomeOf(c) = "created" /\ OutcomeOf(c)' = "201"
      BY <1>7 DEF GenerateTokenPair, Answered, Ended, NoCall, TypeOK, OutcomeOf
    <2>2. Directory!Welcome(c)
      BY <1>1, <1>2, <2>1 DEF Directory!Welcome, Directory!Comes
    <2> QED
      BY <2>2 DEF Directory!DirectoryNext
  <1> QED
    BY <1>4, <1>5, <1>6, <1>7 DEF GenerateTokenPair

\* A crash loses the calls under way; operators and time are not seen.
LEMMA SurroundingsRefine ==
    ASSUME TypeOK, Unanswered,
           \/ Crash
           \/ \E u \in Clients, role \in Roles : ChangeRole(u, role)
           \/ \E u \in Clients, isActive \in BOOLEAN : SetActive(u, isActive)
           \/ Tick
    PROVE  Directory!DirectoryNext \/ UNCHANGED Directory!directoryVars
  <1>1. CASE Crash
    <2>1. ASSUME NEW c \in Clients
          PROVE  OutcomeOf(c)' = IF OutcomeOf(c) \in Directory!AtRest THEN OutcomeOf(c) ELSE "none"
      BY <1>1 DEF Crash, NoCall, TypeOK, CallRecord, Steps, Unanswered, OutcomeOf, Directory!AtRest
    <2>2. Directory!LoseCalls
      BY <1>1, <2>1 DEF Crash, Outcome, Directory!LoseCalls
    <2> QED
      BY <2>2 DEF Directory!DirectoryNext
  <1>2. CASE Tick
    <2>1. \A c \in Clients : call'[c].step = call[c].step
      BY <1>2 DEF Tick, TypeOK, CallRecord
    <2>2. Outcome' = Outcome /\ users' = users
      BY <1>2, <2>1 DEF Tick, Outcome, OutcomeOf
    <2> QED
      BY <2>2 DEF Directory!directoryVars
  <1>3. CASE (\E u \in Clients, role \in Roles : ChangeRole(u, role))
             \/ (\E u \in Clients, isActive \in BOOLEAN : SetActive(u, isActive))
    BY <1>3 DEF ChangeRole, SetActive, calls, Outcome, OutcomeOf, Directory!directoryVars
  <1> QED
    BY <1>1, <1>2, <1>3

\* Only the end of a registration answers it.
LEMMA UnansweredStep == ASSUME TypeOK, Unanswered, [Next]_vars PROVE Unanswered'
  <1> USE DEF TypeOK, Unanswered
  <1>1. ASSUME NEW c \in Clients, Register(c) \/ FindByEmail(c) \/ CreateUser(c) \/ RegistrationFails(c)
        PROVE  Unanswered'
    BY <1>1 DEF Register, FindByEmail, CreateUser, Insert, RegistrationFails, Answered, Ended,
       NoCall, CallRecord
  <1>2. ASSUME NEW c \in Clients,
               \/ Login(c) \/ Refresh(c)
               \/ ReadUser(c) \/ ReadRoles(c) \/ ReadRefused(c) \/ GenerateTokenPair(c)
        PROVE  Unanswered'
    <2>1. \A d \in Clients \ {c} : call'[d] = call[d] /\ answer'[d] = answer[d]
      BY <1>2 DEF Login, Refresh, Read, ReadUser, ReadRoles, ReadRefused, GenerateTokenPair,
         Answered, Ended
    <2>2. call'[c].step \in {"read", "roles", "sign", "none"}
      BY <1>2, ReadBegins DEF ReadUser, ReadRoles, ReadRefused, GenerateTokenPair, Answered, Ended, NoCall,
         CallRecord
    <2> QED
      BY <2>1, <2>2
  <1>3. CASE Crash \/ Tick \/ UNCHANGED vars
    BY <1>3 DEF Crash, Tick, vars, NoCall, CallRecord
  <1>4. CASE (\E u \in Clients, role \in Roles : ChangeRole(u, role))
             \/ (\E u \in Clients, isActive \in BOOLEAN : SetActive(u, isActive))
    BY <1>4 DEF ChangeRole, SetActive, calls
  <1> QED
    BY <1>1, <1>2, <1>3, <1>4 DEF Next, CallStep

\* To its clients the racing, failing, repeated and interrupted registrations are a directory
\* that creates the account of an address in one step if there is none.
THEOREM RegistrationIsAtomic == Spec => ImplementsDirectory
  <1>1. Init => Directory!DirectoryInit /\ Unanswered
    BY DEF Init, NoCall, Unanswered, Outcome, OutcomeOf, Directory!DirectoryInit
  <1>2. ASSUME Inv, Inv', Unanswered, [Next]_vars
        PROVE  [Directory!DirectoryNext]_(Directory!directoryVars)
    <2>1. TypeOK /\ TypeOK'
      BY <1>2 DEF Inv
    <2>2. CASE UNCHANGED vars
      BY <2>2 DEF vars, Outcome, OutcomeOf, Directory!directoryVars
    <2> QED
      BY <1>2, <2>1, <2>2, RegistrationRefines, IssuingRefines, SurroundingsRefine DEF Next, CallStep
  <1>3. ASSUME Inv, Unanswered, [Next]_vars PROVE Unanswered'
    BY <1>3, UnansweredStep DEF Inv
  <1> QED
    BY <1>1, <1>2, <1>3, Invariance, PTL DEF Spec, ImplementsDirectory, Directory!DirectorySpec
=============================================================================
