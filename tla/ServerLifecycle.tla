--------------------------- MODULE ServerLifecycle ---------------------------
(***************************************************************************)
(* One process of the service from bootstrap to exit: the connections of   *)
(* its HTTP server, the jobs of its worker, and the shutdown a signal      *)
(* starts, which every further signal starts once more.  The shutdown      *)
(* waits for connections and jobs; work that neither of them stands for is *)
(* counted in adrift: a handler whose client is gone, uploads that go on   *)
(* behind an answer, the handler of a failed job.                          *)
(***************************************************************************)
EXTENDS Integers, FiniteSets

CONSTANTS
    Connections,  \* HTTP connections, kept alive between requests
    Jobs,         \* moderation jobs
    Concurrency,  \* BULL_CONCURRENCY
    Patience,     \* the 30 s of a shutdown, in units of time
    MaxSignals,   \* bound: signals sent
    MaxAdrift     \* bound: pieces of work adrift at once

ASSUME ServerAssumption ==
    /\ IsFiniteSet(Jobs)
    /\ Concurrency \in Nat \ {0}
    /\ Patience \in Nat \ {0}
    /\ MaxSignals \in Nat \ {0}
    /\ MaxAdrift \in Nat

Signals == 1..MaxSignals

VARIABLES
    phase,      \* of the process
    exitCode,   \* how the process ended: by itself (0, 1) or killed by a signal (143)
    database,   \* whether the Prisma client is connected
    listening,  \* whether the HTTP server accepts connections
    conn,       \* conn[c]: "absent", "idle" without a request, "busy" with one
    adrift,     \* pieces of work that go on without a connection or a slot
    job,        \* job[j], as the queue in Redis has it
    stopping,   \* whether moderationWorker.close() was called
    received,   \* signals received
    shutdown,   \* shutdown[n]: how far the close callback of the n-th signal is
    timer,      \* timer[n]: units of time left to the n-th setTimeout
    elapsed     \* history: units of time since the first signal

vars == <<phase, exitCode, database, listening, conn, adrift, job, stopping,
          received, shutdown, timer, elapsed>>
process == <<phase, exitCode, database>>
server == <<listening, conn, adrift>>
worker == <<job, stopping>>
signalled == <<received, shutdown, timer, elapsed>>

Off == -1

Active == {j \in Jobs : job[j] = "active"}

TypeOK ==
    /\ phase \in {"connecting", "running", "exited"}
    /\ exitCode \in {Off, 0, 1, 143}
    /\ database \in BOOLEAN
    /\ listening \in BOOLEAN
    /\ conn \in [Connections -> {"absent", "idle", "busy"}]
    /\ adrift \in 0..MaxAdrift
    /\ job \in [Jobs -> {"absent", "waiting", "active", "finished"}]
    /\ Cardinality(Active) <= Concurrency
    /\ stopping \in BOOLEAN
    /\ received \in 0..MaxSignals
    /\ shutdown \in [Signals -> {"none", "draining", "closing", "disconnecting", "disconnected"}]
    /\ timer \in [Signals -> Off..Patience]
    /\ elapsed \in 0..(Patience + 1)

Init ==
    /\ phase = "connecting" /\ exitCode = Off
    /\ database = FALSE /\ listening = FALSE
    /\ conn = [c \in Connections |-> "absent"]
    /\ adrift = 0
    /\ job \in [Jobs -> {"absent", "waiting"}]
    /\ stopping = FALSE
    /\ received = 0
    /\ shutdown = [n \in Signals |-> "none"]
    /\ timer = [n \in Signals |-> Off]
    /\ elapsed = 0

------------------------------------------------------------------------------
(* Start and end of the process *)

\* process.exit: connections and jobs stay as they were when the process ended.
Exit(status) ==
    /\ phase' = "exited"
    /\ exitCode' = status

\* $connect succeeded; the worker is started and the port is bound in the same turn.
Bootstrap ==
    /\ phase = "connecting"
    /\ phase' = "running"
    /\ database' = TRUE
    /\ listening' = TRUE
    /\ UNCHANGED <<exitCode, conn, adrift, worker, signalled>>

\* $connect fails, or the port is taken: nobody listens to the server's "error" event.
BootstrapFails ==
    /\ phase = "connecting"
    /\ Exit(1)
    /\ UNCHANGED <<database, server, worker, signalled>>

\* Before bootstrap is done no handler is registered: the signal's default applies.
KilledEarly ==
    /\ phase = "connecting"
    /\ Exit(143)
    /\ UNCHANGED <<database, server, worker, signalled>>

\* A promise is rejected that nobody handles.
UnhandledRejection ==
    /\ phase = "running"
    /\ Exit(1)
    /\ UNCHANGED <<database, server, worker, signalled>>

------------------------------------------------------------------------------
(* Requests and jobs *)

Connect(c) ==
    /\ phase = "running" /\ listening
    /\ conn[c] = "absent"
    /\ conn' = [conn EXCEPT ![c] = "idle"]
    /\ UNCHANGED <<process, listening, adrift, worker, signalled>>

\* A connection that is kept alive may bring another request even after server.close().
Request(c) ==
    /\ phase = "running"
    /\ conn[c] = "idle"
    /\ conn' = [conn EXCEPT ![c] = "busy"]
    /\ UNCHANGED <<process, listening, adrift, worker, signalled>>

\* Something goes on that no connection and no slot stands for, or not.
LeaveAdrift(pieces) ==
    /\ adrift + pieces <= MaxAdrift
    /\ adrift' = adrift + pieces

\* The request is answered and the connection kept or closed.  After a 500 the call's
\* other uploads may go on, with their writes to S3 and to the database.
Respond(c) ==
    /\ phase = "running"
    /\ conn[c] = "busy"
    /\ \E s \in {"idle", "absent"} : conn' = [conn EXCEPT ![c] = s]
    /\ \E pieces \in {0, 1} : LeaveAdrift(pieces)
    /\ UNCHANGED <<process, listening, worker, signalled>>

HangUp(c) ==
    /\ phase = "running"
    /\ conn[c] = "idle"
    /\ conn' = [conn EXCEPT ![c] = "absent"]
    /\ UNCHANGED <<process, listening, adrift, worker, signalled>>

\* The client goes away in the middle of a request, whose handler goes on all the same.
Abort(c) ==
    /\ phase = "running"
    /\ conn[c] = "busy"
    /\ conn' = [conn EXCEPT ![c] = "absent"]
    /\ LeaveAdrift(1)
    /\ UNCHANGED <<process, listening, worker, signalled>>

AdriftEnds ==
    /\ phase = "running"
    /\ adrift > 0
    /\ adrift' = adrift - 1
    /\ UNCHANGED <<process, listening, conn, worker, signalled>>

\* A query after $disconnect: Prisma's client connects again.
AdriftReconnects ==
    /\ phase = "running"
    /\ adrift > 0
    /\ ~database
    /\ database' = TRUE
    /\ UNCHANGED <<phase, exitCode, server, worker, signalled>>

\* A call for a new review adds a job, whatever the worker does and whoever still waits.
Enqueue(j) ==
    /\ phase = "running"
    /\ adrift > 0 \/ \E c \in Connections : conn[c] = "busy"
    /\ job[j] = "absent"
    /\ job' = [job EXCEPT ![j] = "waiting"]
    /\ UNCHANGED <<process, server, stopping, signalled>>

\* Variation: one job more than there are slots.
TakeOneMore(j) ==
    /\ phase = "running" /\ ~stopping
    /\ job[j] = "waiting"
    /\ Cardinality(Active) <= Concurrency
    /\ job' = [job EXCEPT ![j] = "active"]
    /\ UNCHANGED <<process, server, stopping, signalled>>

Take(j) ==
    /\ phase = "running" /\ ~stopping
    /\ job[j] = "waiting"
    /\ Cardinality(Active) < Concurrency
    /\ job' = [job EXCEPT ![j] = "active"]
    /\ UNCHANGED <<process, server, stopping, signalled>>

\* The processor returns, or throws and the job waits for another attempt.  Nobody waits
\* for the handler of the "failed" event.
Leave(j) ==
    /\ phase = "running"
    /\ job[j] = "active"
    /\ \E s \in {"finished", "waiting"} : job' = [job EXCEPT ![j] = s]
    /\ \E pieces \in {0, 1} : LeaveAdrift(pieces)
    /\ UNCHANGED <<process, listening, conn, stopping, signalled>>

------------------------------------------------------------------------------
(* Shutdown *)

\* Variation: a further signal starts the 30 s anew.
GracefulShutdownAgain ==
    /\ phase = "running"
    /\ received < MaxSignals
    /\ received' = received + 1
    /\ listening' = FALSE
    /\ shutdown' = [shutdown EXCEPT ![received + 1] = "draining"]
    /\ timer' = [n \in Signals |-> IF n = received + 1 THEN Patience ELSE Off]
    /\ UNCHANGED <<process, conn, adrift, worker, elapsed>>

\* Variation: the timer is forgotten.
GracefulShutdownUntimed ==
    /\ phase = "running"
    /\ received < MaxSignals
    /\ received' = received + 1
    /\ listening' = FALSE
    /\ shutdown' = [shutdown EXCEPT ![received + 1] = "draining"]
    /\ UNCHANGED <<process, conn, adrift, worker, timer, elapsed>>

\* SIGTERM or SIGINT: server.close() with a callback of its own, and a timer of its own.
GracefulShutdown ==
    /\ phase = "running"
    /\ received < MaxSignals
    /\ received' = received + 1
    /\ listening' = FALSE
    /\ shutdown' = [shutdown EXCEPT ![received + 1] = "draining"]
    /\ timer' = [timer EXCEPT ![received + 1] = Patience]
    /\ UNCHANGED <<process, conn, adrift, worker, elapsed>>

Advance(n, from, to) ==
    /\ phase = "running"
    /\ shutdown[n] = from
    /\ shutdown' = [shutdown EXCEPT ![n] = to]
    /\ UNCHANGED <<phase, exitCode, server, job, received, timer, elapsed>>

\* The last connection has ended, whatever is adrift; moderationWorker.close() is called.
HttpClosed(n) ==
    /\ \A c \in Connections : conn[c] = "absent"
    /\ Advance(n, "draining", "closing")
    /\ stopping' = TRUE
    /\ UNCHANGED database

\* Variation: close() is not awaited.
WorkerClosedAtOnce(n) ==
    /\ Advance(n, "closing", "disconnecting")
    /\ UNCHANGED <<stopping, database>>

\* close() resolves when no job is being processed; every caller waits for the same.
WorkerClosed(n) ==
    /\ Active = {}
    /\ Advance(n, "closing", "disconnecting")
    /\ UNCHANGED <<stopping, database>>

Disconnect(n) ==
    /\ Advance(n, "disconnecting", "disconnected")
    /\ database' = FALSE
    /\ UNCHANGED stopping

\* $disconnect is done; Redis is left and the process exits in the same turn.
ShutdownComplete(n) ==
    /\ phase = "running"
    /\ shutdown[n] = "disconnected"
    /\ Exit(0)
    /\ UNCHANGED <<database, server, worker, signalled>>

TimeOut(n) ==
    /\ phase = "running"
    /\ timer[n] = 0
    /\ Exit(1)
    /\ UNCHANGED <<database, server, worker, signalled>>

\* A unit of time ends.  A timer that is due is not put off by a whole unit.
Tick ==
    /\ phase = "running"
    /\ received > 0
    /\ \A n \in Signals : timer[n] # 0
    /\ timer' = [n \in Signals |-> IF timer[n] = Off THEN Off ELSE timer[n] - 1]
    /\ elapsed' = IF elapsed > Patience THEN elapsed ELSE elapsed + 1
    /\ UNCHANGED <<process, server, worker, received, shutdown>>

Next ==
    \/ Bootstrap \/ BootstrapFails \/ KilledEarly \/ UnhandledRejection
    \/ \E c \in Connections : Connect(c) \/ Request(c) \/ Respond(c) \/ HangUp(c) \/ Abort(c)
    \/ AdriftEnds \/ AdriftReconnects
    \/ \E j \in Jobs : Enqueue(j) \/ Take(j) \/ Leave(j)
    \/ GracefulShutdown
    \/ \E n \in Signals :
          HttpClosed(n) \/ WorkerClosed(n) \/ Disconnect(n) \/ ShutdownComplete(n) \/ TimeOut(n)
    \/ Tick

\* Time passes and a timer that is due fires.  A request, a job, a connection that is kept
\* alive or a piece of work adrift may go on for ever.
Fairness == WF_vars(Tick) /\ \A n \in Signals : WF_vars(TimeOut(n))

Spec == Init /\ [][Next]_vars /\ Fairness

------------------------------------------------------------------------------
(* Properties *)

\* Nobody waits for an answer and no slot holds a job.
NobodyWaits == Active = {} /\ \A c \in Connections : conn[c] = "absent"

\* The database is connected before the first request or job and disconnected only when
\* the last client has its answer or is gone and the last job has left its slot, whatever
\* else comes: a second signal, a request on a connection kept alive, a job another request
\* adds.  From there on no request and no job begins.  Only what is adrift can be cut
\* off, by $disconnect or by the exit with 0 after it: the code does not wait for it.
DatabaseOutlivesWork ==
    ~database \/ (\E n \in Signals : shutdown[n] = "disconnected") => NobodyWaits

\* However many signals come, the process ends within 30 s of the first.
ExitsInTime == elapsed <= Patience

\* A signal ends the process even if a request, a job or a connection never does.
SignalEndsProcess == (received > 0) ~> (phase = "exited")
=============================================================================
