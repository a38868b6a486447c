----------------------- MODULE ServerLifecycleProofs -----------------------
(***************************************************************************)
(* Proofs about ServerLifecycle for every number of connections, jobs,     *)
(* slots, signals and pieces of work adrift, and every patience.           *)
(***************************************************************************)
EXTENDS ServerLifecycle, FiniteSetTheorems, TLAPS

Unused == \A c \in Connections : conn[c] = "absent"

\* A shutdown that is past the connections, and one that is past the worker too.
PastHttp(n) == shutdown[n] \in {"closing", "disconnecting", "disconnected"}
PastWorker(n) == shutdown[n] \in {"disconnecting", "disconnected"}

BeforeBootstrap ==
    phase = "connecting" => ~database /\ received = 0 /\ Active = {} /\ Unused

ClosedOnSignal ==
    /\ received > 0 => ~listening
    /\ \A n \in Signals : shutdown[n] # "none" => received > 0

WhatIsPast ==
    \A n \in Signals :
        /\ PastHttp(n) => Unused /\ stopping
        /\ PastWorker(n) => Active = {}

WithoutDatabase ==
    ~database => /\ Active = {} /\ Unused
                 /\ phase = "running" => received > 0 /\ stopping

\* The first timer measures the time since the first signal.
FirstTimer ==
    /\ received = 0 => elapsed = 0
    /\ received > 0 => timer[1] = Patience - elapsed /\ elapsed <= Patience

Inv ==
    TypeOK /\ BeforeBootstrap /\ ClosedOnSignal /\ WhatIsPast /\ WithoutDatabase /\ FirstTimer

------------------------------------------------------------------------------

\* Jobs that are active are finitely many.
LEMMA ActiveIsFinite == IsFiniteSet(Active)
  <1>1. Active \subseteq Jobs
    BY DEF Active
  <1> QED
    BY <1>1, FS_Subset, ServerAssumption

\* Taking one job while fewer than Concurrency are active keeps to the slots.
LEMMA OneMoreFits ==
    ASSUME NEW j \in Jobs, Cardinality(Active) < Concurrency
    PROVE  /\ Cardinality(Active \cup {j}) <= Concurrency
           /\ IsFiniteSet(Active \cup {j})
  <1>1. IsFiniteSet(Active) /\ Cardinality(Active) \in Nat
    BY ActiveIsFinite, FS_CardinalityType
  <1>2. /\ IsFiniteSet(Active \cup {j})
        /\ Cardinality(Active \cup {j})
             = IF j \in Active THEN Cardinality(Active) ELSE Cardinality(Active) + 1
    BY <1>1, FS_AddElement
  <1> QED
    BY <1>1, <1>2, ServerAssumption

\* The initial state.
LEMMA InitIsSound == ASSUME Init PROVE Inv
  <1>1. Active = {}
    BY DEF Init, Active
  <1>2. Cardinality(Active) <= Concurrency
    BY <1>1, FS_EmptySet, ServerAssumption
  <1>3. /\ 0 \in 0..MaxAdrift
        /\ job \in [Jobs -> {"absent", "waiting", "active", "finished"}]
        /\ 0 \in 0..MaxSignals /\ Off \in Off..Patience /\ 0 \in 0..(Patience + 1)
    BY ServerAssumption DEF Init, Off
  <1>4. TypeOK
    BY <1>2, <1>3 DEF Init, TypeOK, Off
  <1> QED
    BY <1>1, <1>4 DEF Init, Inv, BeforeBootstrap, ClosedOnSignal, WhatIsPast, PastHttp,
       PastWorker, WithoutDatabase, FirstTimer, Unused

------------------------------------------------------------------------------
(* Steps that leave the jobs, the connections or the signals alone *)

\* Bootstrap begins with nothing under way.
LEMMA BootstrapIsSound == ASSUME Inv, Bootstrap PROVE Inv'
  <1>1. Active' = Active /\ Unused' = Unused
    BY DEF Bootstrap, worker, Active, Unused
  <1>2. TypeOK'
    BY <1>1 DEF Inv, TypeOK, Bootstrap, worker, signalled
  <1> QED
    BY <1>1, <1>2 DEF Inv, TypeOK, Bootstrap, worker, signalled, BeforeBootstrap,
       ClosedOnSignal, WhatIsPast, PastHttp, PastWorker, WithoutDatabase, FirstTimer

\* The end of the process changes nothing but the phase.
LEMMA ExitIsSound ==
    ASSUME Inv, NEW status \in {0, 1, 143}, Exit(status),
           UNCHANGED <<database, server, worker, signalled>>
    PROVE  Inv'
  <1>1. Active' = Active /\ Unused' = Unused
    BY DEF server, worker, Active, Unused
  <1>2. TypeOK'
    BY <1>1 DEF Inv, TypeOK, Exit, server, worker, signalled
  <1> QED
    BY <1>1, <1>2 DEF Inv, Exit, server, worker, signalled, BeforeBootstrap,
       ClosedOnSignal, WhatIsPast, PastHttp, PastWorker, WithoutDatabase, FirstTimer

\* What LeaveAdrift adds keeps within the bound.
LEMMA AdriftFits ==
    ASSUME TypeOK, NEW pieces \in {0, 1}, LeaveAdrift(pieces)
    PROVE  adrift' \in 0..MaxAdrift
  BY ServerAssumption DEF TypeOK, LeaveAdrift

\* Work adrift ends, or connects to the database again.
LEMMA AdriftIsSound == ASSUME Inv, AdriftEnds \/ AdriftReconnects PROVE Inv'
  <1>1. Active' = Active /\ Unused' = Unused
    BY DEF AdriftEnds, AdriftReconnects, server, worker, Active, Unused
  <1>2. /\ phase' = phase /\ phase = "running" /\ exitCode' = exitCode
        /\ UNCHANGED <<listening, conn, worker, signalled>>
        /\ database' = database \/ database'
    BY DEF AdriftEnds, AdriftReconnects, process, server
  <1>3. adrift' \in 0..MaxAdrift /\ database' \in BOOLEAN
    <2>1. CASE AdriftEnds
      BY <2>1, ServerAssumption DEF Inv, TypeOK, AdriftEnds, process
    <2>2. CASE AdriftReconnects
      BY <2>2 DEF Inv, TypeOK, AdriftReconnects, server
    <2> QED
      BY <2>1, <2>2
  <1>4. TypeOK'
    BY <1>1, <1>2, <1>3 DEF Inv, TypeOK, worker, signalled
  <1> QED
    BY <1>1, <1>2, <1>4 DEF Inv, worker, signalled, BeforeBootstrap, ClosedOnSignal,
       WhatIsPast, PastHttp, PastWorker, WithoutDatabase, FirstTimer

\* A connection is opened, used or closed while the server runs.
LEMMA ConnectionIsSound ==
    ASSUME Inv, NEW c \in Connections, NEW s \in {"absent", "idle", "busy"},
           phase = "running", listening \/ conn[c] # "absent",
           conn' = [conn EXCEPT ![c] = s], adrift' \in 0..MaxAdrift,
           UNCHANGED <<process, listening, worker, signalled>>
    PROVE  Inv'
  <1>1. Active' = Active
    BY DEF worker, Active
  <1>2. TypeOK'
    BY <1>1 DEF Inv, TypeOK, process, worker, signalled
  <1>3. database /\ \A n \in Signals : ~PastHttp(n)
    BY DEF Inv, ClosedOnSignal, WhatIsPast, WithoutDatabase, Unused, PastHttp
  <1>4. \A n \in Signals : ~PastHttp(n)' /\ ~PastWorker(n)'
    BY <1>3 DEF signalled, PastHttp, PastWorker
  <1> QED
    BY <1>2, <1>3, <1>4 DEF Inv, process, worker, signalled, BeforeBootstrap,
       ClosedOnSignal, WhatIsPast, WithoutDatabase, FirstTimer

\* A job is added or leaves its slot.
LEMMA JobIsSound ==
    ASSUME Inv, NEW j \in Jobs, NEW s \in {"waiting", "finished"}, phase = "running",
           job' = [job EXCEPT ![j] = s], adrift' \in 0..MaxAdrift,
           UNCHANGED <<process, listening, conn, stopping, signalled>>
    PROVE  Inv'
  <1>1. Active' \subseteq Active /\ Unused' = Unused
    BY DEF Inv, TypeOK, Active, Unused
  <1>2. Cardinality(Active') <= Cardinality(Active)
    BY <1>1, ActiveIsFinite, FS_Subset
  <1>3. /\ Cardinality(Active) \in Nat /\ Cardinality(Active') \in Nat
    BY <1>1, ActiveIsFinite, FS_Subset, FS_CardinalityType
  <1>4. Cardinality(Active') <= Concurrency
    BY <1>2, <1>3, ServerAssumption DEF Inv, TypeOK
  <1>5. TypeOK'
    BY <1>4 DEF Inv, TypeOK, process, signalled
  <1> QED
    BY <1>1, <1>5 DEF Inv, process, signalled, BeforeBootstrap,
       ClosedOnSignal, WhatIsPast, PastHttp, PastWorker, WithoutDatabase, FirstTimer

\* The worker takes a job into a free slot.
LEMMA TakeIsSound == ASSUME Inv, NEW j \in Jobs, Take(j) PROVE Inv'
  <1>1. Active' = Active \cup {j}
    BY DEF Inv, TypeOK, Take, Active
  <1>2. Cardinality(Active') <= Concurrency
    BY <1>1, OneMoreFits DEF Take
  <1>3. TypeOK'
    BY <1>2 DEF Inv, TypeOK, Take, process, server, signalled
  <1>4. database /\ \A n \in Signals : ~PastHttp(n) /\ ~PastWorker(n)
    BY DEF Inv, Take, WhatIsPast, WithoutDatabase, PastHttp, PastWorker
  <1>5. \A n \in Signals : ~PastHttp(n)' /\ ~PastWorker(n)'
    BY <1>4 DEF Take, signalled, PastHttp, PastWorker
  <1> QED
    BY <1>3, <1>4, <1>5 DEF Inv, Take, process, server, signalled, BeforeBootstrap,
       ClosedOnSignal, WhatIsPast, WithoutDatabase, FirstTimer

------------------------------------------------------------------------------
(* Shutdown *)

\* A signal stops the server from listening, and arms a timer of its own.
LEMMA SignalIsSound == ASSUME Inv, GracefulShutdown PROVE Inv'
  <1> DEFINE n == received + 1
  <1>1. /\ received \in Nat /\ n \in Signals /\ n > 0
        /\ phase = "running" /\ phase' = "running"
    BY ServerAssumption DEF Inv, TypeOK, GracefulShutdown, Signals, process
  <1>2. Active' = Active /\ Unused' = Unused
    BY DEF GracefulShutdown, worker, Active, Unused
  <1>3. TypeOK'
    <2>1. received' \in 0..MaxSignals /\ Patience \in Off..Patience
      BY <1>1, ServerAssumption DEF GracefulShutdown, Signals, Off
    <2> QED
      BY <1>2, <2>1 DEF Inv, TypeOK, GracefulShutdown, process, worker
  <1>4. \A m \in Signals : (PastHttp(m)' => PastHttp(m)) /\ (PastWorker(m)' => PastWorker(m))
    BY <1>1 DEF Inv, TypeOK, GracefulShutdown, PastHttp, PastWorker
  <1>5. ClosedOnSignal' /\ BeforeBootstrap'
    BY <1>1 DEF GracefulShutdown, ClosedOnSignal, BeforeBootstrap
  <1>6. WhatIsPast' /\ WithoutDatabase'
    BY <1>1, <1>2, <1>4 DEF Inv, GracefulShutdown, process, worker, WhatIsPast, WithoutDatabase
  <1>7. FirstTimer'
    <2>1. CASE received = 0
      BY <1>1, <2>1, ServerAssumption DEF Inv, TypeOK, GracefulShutdown, FirstTimer
    <2>2. CASE received # 0
      BY <1>1, <2>2 DEF Inv, TypeOK, GracefulShutdown, FirstTimer
    <2> QED
      BY <2>1, <2>2
  <1> QED
    BY <1>3, <1>5, <1>6, <1>7 DEF Inv

\* A shutdown advances: what the next step requires of the others is there.
LEMMA AdvanceIsSound ==
    ASSUME Inv, NEW n \in Signals,
           HttpClosed(n) \/ WorkerClosed(n) \/ Disconnect(n)
    PROVE  Inv'
  <1>1. PICK from \in {"draining", "closing", "disconnecting"},
             to \in {"closing", "disconnecting", "disconnected"} :
            /\ Advance(n, from, to)
            /\ from = "draining" => Unused /\ stopping' /\ to = "closing" /\ database' = database
            /\ from = "closing" => /\ Active = {} /\ stopping' = stopping
                                   /\ to = "disconnecting" /\ database' = database
            /\ from = "disconnecting" => /\ stopping' = stopping
                                         /\ to = "disconnected" /\ ~database'
    BY DEF HttpClosed, WorkerClosed, Disconnect, Unused
  <1>2. /\ Active' = Active /\ Unused' = Unused
        /\ phase = "running" /\ phase' = "running"
    BY <1>1 DEF Advance, server, Active, Unused
  <1>3. stopping' \in BOOLEAN /\ database' \in BOOLEAN /\ (stopping => stopping')
    <2>1. stopping \in BOOLEAN /\ database \in BOOLEAN
      BY DEF Inv, TypeOK
    <2>2. CASE HttpClosed(n)
      BY <2>1, <2>2 DEF HttpClosed
    <2>3. CASE WorkerClosed(n)
      BY <2>1, <2>3 DEF WorkerClosed
    <2>4. CASE Disconnect(n)
      BY <2>1, <2>4 DEF Disconnect
    <2> QED
      BY <2>2, <2>3, <2>4
  <1>4. TypeOK'
    BY <1>1, <1>2, <1>3 DEF Inv, TypeOK, Advance, server
  <1>5. received > 0
    BY <1>1 DEF Inv, ClosedOnSignal, Advance
  <1>6. WhatIsPast'
    <2>1. \A m \in Signals : m # n => shutdown'[m] = shutdown[m]
      BY <1>1 DEF Inv, TypeOK, Advance
    <2>2. shutdown[n] = from /\ shutdown'[n] = to
      BY <1>1 DEF Inv, TypeOK, Advance
    <2>3. ASSUME NEW m \in Signals, m # n
          PROVE  /\ PastHttp(m)' => Unused' /\ stopping'
                 /\ PastWorker(m)' => Active' = {}
      BY <1>2, <1>3, <2>1, <2>3 DEF Inv, WhatIsPast, PastHttp, PastWorker
    <2>4. Unused' /\ stopping'
      BY <1>1, <1>2, <2>2 DEF Inv, WhatIsPast, PastHttp
    <2>5. PastWorker(n)' => Active' = {}
      BY <1>1, <1>2, <2>2 DEF Inv, WhatIsPast, PastWorker
    <2> QED
      BY <2>3, <2>4, <2>5 DEF WhatIsPast
  <1>7. ~database' => Active' = {} /\ Unused' /\ stopping'
    <2>1. CASE ~database
      BY <1>2, <1>3, <2>1 DEF Inv, WithoutDatabase
    <2>2. CASE from = "disconnecting"
      BY <1>1, <1>2, <1>3, <2>2 DEF Inv, WhatIsPast, PastHttp, PastWorker, Advance
    <2> QED
      BY <1>1, <2>1, <2>2
  <1>8. BeforeBootstrap' /\ ClosedOnSignal' /\ WithoutDatabase' /\ FirstTimer'
    BY <1>1, <1>2, <1>5, <1>7 DEF Inv, Advance, server, BeforeBootstrap, ClosedOnSignal,
       WithoutDatabase, FirstTimer
  <1> QED
    BY <1>4, <1>6, <1>8 DEF Inv

\* A unit of time passes only while the first timer is not due.
LEMMA TickIsSound == ASSUME Inv, Tick PROVE Inv'
  <1>1. Active' = Active /\ Unused' = Unused
    BY DEF Tick, server, worker, Active, Unused
  <1>2. 1 \in Signals /\ Patience \in Nat /\ elapsed \in Nat
    BY ServerAssumption DEF Inv, TypeOK, Signals
  <1>3. /\ timer[1] = Patience - elapsed /\ elapsed <= Patience /\ timer[1] # 0
        /\ timer[1] # Off
    BY <1>2 DEF Inv, Tick, FirstTimer, Off
  <1>4. elapsed' = elapsed + 1 /\ timer'[1] = timer[1] - 1 /\ elapsed' <= Patience
    BY <1>2, <1>3 DEF Tick
  <1>5. timer' \in [Signals -> Off..Patience]
    <2>1. \A n \in Signals : timer[n] \in Off..Patience /\ timer[n] # 0
      BY DEF Inv, TypeOK, Tick
    <2>2. ASSUME NEW n \in Signals
          PROVE  (IF timer[n] = Off THEN Off ELSE timer[n] - 1) \in Off..Patience
      BY <1>2, <2>1 DEF Off
    <2> QED
      BY <2>2 DEF Tick
  <1>6. TypeOK'
    BY <1>1, <1>2, <1>4, <1>5 DEF Inv, TypeOK, Tick, process, server, worker
  <1>7. FirstTimer'
    BY <1>2, <1>3, <1>4 DEF Tick, FirstTimer
  <1>8. BeforeBootstrap' /\ ClosedOnSignal' /\ WhatIsPast' /\ WithoutDatabase'
    BY <1>1 DEF Inv, Tick, process, server, worker, BeforeBootstrap, ClosedOnSignal,
       WhatIsPast, PastHttp, PastWorker, WithoutDatabase
  <1> QED
    BY <1>6, <1>7, <1>8 DEF Inv

------------------------------------------------------------------------------
(* Every step *)

\* What happens to the process, its connections and its jobs.
LEMMA WorkIsSound ==
    ASSUME Inv,
           \/ Bootstrap \/ BootstrapFails \/ KilledEarly \/ UnhandledRejection
           \/ \E c \in Connections :
                Connect(c) \/ Request(c) \/ Respond(c) \/ HangUp(c) \/ Abort(c)
           \/ AdriftEnds \/ AdriftReconnects
           \/ \E j \in Jobs : Enqueue(j) \/ Take(j) \/ Leave(j)
    PROVE  Inv'
  <1>1. CASE Bootstrap
    BY <1>1, BootstrapIsSound
  <1>2. CASE BootstrapFails \/ KilledEarly \/ UnhandledRejection
    BY <1>2, ExitIsSound DEF BootstrapFails, KilledEarly, UnhandledRejection
  <1>3. ASSUME NEW c \in Connections,
               Connect(c) \/ Request(c) \/ Respond(c) \/ HangUp(c) \/ Abort(c)
        PROVE  Inv'
    <2>1. /\ phase = "running"
          /\ listening \/ conn[c] # "absent"
          /\ UNCHANGED <<process, listening, worker, signalled>>
          /\ \E s \in {"absent", "idle", "busy"} : conn' = [conn EXCEPT ![c] = s]
      BY <1>3 DEF Connect, Request, Respond, HangUp, Abort
    <2>2. adrift' \in 0..MaxAdrift
      <3>1. CASE adrift' = adrift
        BY <3>1 DEF Inv, TypeOK
      <3>2. CASE \E pieces \in {0, 1} : LeaveAdrift(pieces)
        BY <3>2, AdriftFits DEF Inv
      <3> QED
        BY <1>3, <3>1, <3>2 DEF Connect, Request, Respond, HangUp, Abort
    <2> QED
      BY <2>1, <2>2, ConnectionIsSound
  <1>4. ASSUME NEW j \in Jobs, Enqueue(j) PROVE Inv'
    BY <1>4, JobIsSound DEF Enqueue, server, Inv, TypeOK
  <1>5. ASSUME NEW j \in Jobs, Take(j) PROVE Inv'
    BY <1>5, TakeIsSound
  <1>6. ASSUME NEW j \in Jobs, Leave(j) PROVE Inv'
    <2>1. adrift' \in 0..MaxAdrift
      BY <1>6, AdriftFits DEF Leave, Inv
    <2> QED
      BY <1>6, <2>1, JobIsSound DEF Leave
  <1>7. CASE AdriftEnds \/ AdriftReconnects
    BY <1>7, AdriftIsSound
  <1> QED
    BY <1>1, <1>2, <1>3, <1>4, <1>5, <1>6, <1>7

\* Every step keeps the invariant.
LEMMA NextIsSound == ASSUME Inv, [Next]_vars PROVE Inv'
  <1>1. CASE GracefulShutdown
    BY <1>1, SignalIsSound
  <1>2. ASSUME NEW n \in Signals, HttpClosed(n) \/ WorkerClosed(n) \/ Disconnect(n)
        PROVE  Inv'
    BY <1>2, AdvanceIsSound
  <1>3. ASSUME NEW n \in Signals, ShutdownComplete(n) \/ TimeOut(n) PROVE Inv'
    BY <1>3, ExitIsSound DEF ShutdownComplete, TimeOut
  <1>4. CASE Tick
    BY <1>4, TickIsSound
  <1>5. CASE UNCHANGED vars
    <2>1. Active' = Active /\ Unused' = Unused
      BY <1>5 DEF vars, Active, Unused
    <2> QED
      BY <1>5, <2>1 DEF vars, Inv, TypeOK, BeforeBootstrap, ClosedOnSignal, WhatIsPast,
         PastHttp, PastWorker, WithoutDatabase, FirstTimer
  <1> QED
    BY <1>1, <1>2, <1>3, <1>4, <1>5, WorkIsSound DEF Next

\* The invariant holds in every reachable state.
LEMMA Invariance == Spec => []Inv
  <1>1. Init => Inv
    BY InitIsSound
  <1>2. Inv /\ [Next]_vars => Inv'
    BY NextIsSound
  <1> QED
    BY <1>1, <1>2, PTL DEF Spec

\* In every reachable state the variables have their types, and no more jobs are
\* processed than the worker has slots.
THEOREM ServerTypeCorrect == Spec => []TypeOK
  <1>1. Inv => TypeOK
    BY DEF Inv
  <1> QED
    BY <1>1, Invariance, PTL

\* No client waits and no slot holds a job before the database is connected, while it is
\* disconnected, or after a shutdown has disconnected it, however many signals come,
\* however connections are reused and whatever is adrift.  What is adrift is not waited for.
THEOREM DatabaseIsLast == Spec => []DatabaseOutlivesWork
  <1>1. Inv => DatabaseOutlivesWork
    BY DEF Inv, WhatIsPast, PastHttp, PastWorker, WithoutDatabase, Unused, NobodyWaits,
       DatabaseOutlivesWork
  <1> QED
    BY <1>1, Invariance, PTL

\* Further signals do not put off the end: no process lives longer than Patience
\* after the first.
THEOREM ExitIsInTime == Spec => []ExitsInTime
  <1>1. Inv => ExitsInTime
    BY ServerAssumption DEF Inv, TypeOK, FirstTimer, ExitsInTime
  <1> QED
    BY <1>1, Invariance, PTL

------------------------------------------------------------------------------
(* What an exit code says, and why a signalled process does not live on *)

\* An exit with 0 answers a signal, when no client waits for an answer and no job is in a
\* slot.  It says nothing about what is adrift, which it may cut off.
CleanExit == exitCode = 0 => phase = "exited" /\ received > 0 /\ NobodyWaits

LEMMA CleanExitStep == Inv /\ CleanExit /\ [Next]_vars => CleanExit'
  <1> SUFFICES ASSUME Inv, CleanExit, [Next]_vars PROVE CleanExit'
    OBVIOUS
  <1>1. ASSUME NEW n \in Signals, ShutdownComplete(n) PROVE CleanExit'
    <2>1. received > 0 /\ NobodyWaits
      BY <1>1 DEF ShutdownComplete, Inv, ClosedOnSignal, WhatIsPast, PastHttp, PastWorker,
         Unused, NobodyWaits
    <2> QED
      BY <1>1, <2>1 DEF ShutdownComplete, Exit, CleanExit, NobodyWaits, Active, server, worker,
         signalled
  <1>2. CASE BootstrapFails \/ KilledEarly \/ UnhandledRejection \/ \E n \in Signals : TimeOut(n)
    BY <1>2 DEF BootstrapFails, KilledEarly, UnhandledRejection, TimeOut, Exit, CleanExit
  <1>3. ASSUME phase # "exited", exitCode' = exitCode PROVE CleanExit'
    BY <1>3 DEF CleanExit
  <1>4. CASE UNCHANGED vars
    BY <1>4 DEF vars, CleanExit, NobodyWaits, Active
  <1>5. CASE Bootstrap \/ AdriftEnds \/ AdriftReconnects \/ GracefulShutdown \/ Tick
    BY <1>3, <1>5 DEF Bootstrap, AdriftEnds, AdriftReconnects, GracefulShutdown, Tick, process
  <1>6. ASSUME NEW c \in Connections,
               Connect(c) \/ Request(c) \/ Respond(c) \/ HangUp(c) \/ Abort(c)
        PROVE  CleanExit'
    BY <1>3, <1>6 DEF Connect, Request, Respond, HangUp, Abort, process
  <1>7. ASSUME NEW j \in Jobs, Enqueue(j) \/ Take(j) \/ Leave(j) PROVE CleanExit'
    BY <1>3, <1>7 DEF Enqueue, Take, Leave, process
  <1>8. ASSUME NEW n \in Signals, HttpClosed(n) \/ WorkerClosed(n) \/ Disconnect(n)
        PROVE  CleanExit'
    BY <1>3, <1>8 DEF HttpClosed, WorkerClosed, Disconnect, Advance
  <1> QED
    BY <1>1, <1>2, <1>4, <1>5, <1>6, <1>7, <1>8 DEF Next

\* The process exits with 0 only in answer to a signal, with no client left waiting and no
\* job cut off in its slot, whatever the signals, the connections kept alive, the worker
\* and the work adrift do.
THEOREM ExitZeroLeavesNobodyWaiting == Spec => []CleanExit
  <1>1. Init => CleanExit
    BY DEF Init, CleanExit, Off
  <1> QED
    BY <1>1, CleanExitStep, Invariance, PTL DEF Spec

\* Once a signal came, the time left to the process is known, it is cut with every unit of
\* time that passes, and nothing gives any of it back.
DeadlineNears ==
    [][received > 0 =>
          /\ timer'[1] >= 0
          /\ timer'[1] = timer[1] - (elapsed' - elapsed)]_vars

\* The safety half of SignalEndsProcess: no signal, request or job puts off the deadline.
THEOREM DeadlineIsNotPutOff == Spec => DeadlineNears
  <1>1. Inv /\ Inv' /\ [Next]_vars =>
            [received > 0 =>
                /\ timer'[1] >= 0
                /\ timer'[1] = timer[1] - (elapsed' - elapsed)]_vars
    <2> SUFFICES ASSUME Inv, Inv', [Next]_vars, received > 0
                 PROVE  /\ timer'[1] >= 0
                        /\ timer'[1] = timer[1] - (elapsed' - elapsed)
      OBVIOUS
    <2>1. received' > 0
      <3>1. CASE GracefulShutdown
        BY <3>1 DEF GracefulShutdown, Inv, TypeOK
      <3>2. CASE received' = received
        BY <3>2
      <3>3. ASSUME \/ \E c \in Connections :
                        Connect(c) \/ Request(c) \/ Respond(c) \/ HangUp(c) \/ Abort(c)
                   \/ AdriftEnds \/ AdriftReconnects
                   \/ \E j \in Jobs : Enqueue(j) \/ Take(j) \/ Leave(j)
            PROVE  received' = received
        BY <3>3 DEF Connect, Request, Respond, HangUp, Abort, AdriftEnds, AdriftReconnects,
           Enqueue, Take, Leave, signalled
      <3>4. ASSUME NEW n \in Signals,
                   HttpClosed(n) \/ WorkerClosed(n) \/ Disconnect(n) \/ ShutdownComplete(n) \/ TimeOut(n)
            PROVE  received' = received
        BY <3>4 DEF HttpClosed, WorkerClosed, Disconnect, ShutdownComplete, TimeOut, Advance,
           signalled
      <3>5. ASSUME Bootstrap \/ BootstrapFails \/ KilledEarly \/ UnhandledRejection \/ Tick
                   \/ UNCHANGED vars
            PROVE  received' = received
        BY <3>5 DEF Bootstrap, BootstrapFails, KilledEarly, UnhandledRejection, Tick, vars, signalled
      <3> QED
        BY <3>1, <3>2, <3>3, <3>4, <3>5 DEF Next
    <2>2. timer[1] = Patience - elapsed /\ timer'[1] = Patience - elapsed'
      BY <2>1 DEF Inv, FirstTimer
    <2>3. elapsed \in Nat /\ elapsed' \in 0..Patience /\ Patience \in Nat
      BY <2>1, ServerAssumption DEF Inv, TypeOK, FirstTimer
    <2>4. PICK x \in 0..Patience : x = elapsed'
      BY <2>3
    <2>5. Patience - x >= 0 /\ Patience - x = (Patience - elapsed) - (x - elapsed)
      BY <2>3
    <2> QED
      BY <2>2, <2>4, <2>5, Zenon
  <1> QED
    BY <1>1, Invariance, PTL DEF Spec, DeadlineNears
=============================================================================
