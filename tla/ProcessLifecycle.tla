-------------------------- MODULE ProcessLifecycle --------------------------
(***************************************************************************)
(* The life of one process: the API, which serves requests and has a       *)
(* worker of its own, or a worker process.  It reads its configuration,    *)
(* initializes its services, starts, is signalled, perhaps more than once, *)
(* and ends.                                                               *)
(***************************************************************************)
EXTENDS Integers, FiniteSets

CONSTANTS
    Kinds,        \* processes considered: "api", "worker"
    Signal,       \* SIGTERMs and SIGINTs that may arrive
    MaxRequests,  \* bound on the requests in flight
    Slots,        \* concurrency of the worker
    Retries,      \* values of DB_MAX_RETRIES
    Faults        \* what may fail: "setup" (the environment, the locales), "database",
                  \* "email", "disconnect", "network", "redis"

ASSUME LifecycleAssumption ==
    /\ Kinds \subseteq {"api", "worker"}
    /\ MaxRequests \in Nat /\ Slots \in Nat /\ Retries \subseteq Nat

VARIABLES
    kind,      \* which process this is
    sentry,    \* SENTRY_DSN is set: an unhandled rejection is only reported
    tracing,   \* OpenTelemetry runs, with signal handlers of its own
    retries,   \* config.dbMaxRetries
    main,      \* how far the start has come
    pending,   \* services that are initializing
    attempt,   \* failed attempts of the connect under way
    db,        \* mongoose's connection; "lost" is being restored by the driver
    server,    \* the HTTP server
    requests,  \* requests in flight
    worker,    \* BullMQ's worker
    jobs,      \* jobs it is running
    circuit,   \* the breaker of the e-mail service
    probe,     \* a health probe, one of the requests
    shutdown,  \* step of the shutdown that each signal began
    missed,    \* a shutdown found no worker to stop
    flushing,  \* the tracing SDK is shutting down
    exit       \* how the process ended

config == <<kind, sentry, tracing, retries>>
starting == <<main, pending, attempt>>
serving == <<server, requests, probe>>
working == <<worker, jobs, circuit>>
ending == <<shutdown, missed, flushing>>
vars == <<config, starting, db, serving, working, ending, exit>>

Services == {"database", "email", "emailQueue"}
Closing == {"server", "jobs", "worker", "stopDisconnect", "disconnect", "stuck"}

TypeOK ==
    /\ kind \in Kinds /\ sentry \in BOOLEAN /\ tracing \in BOOLEAN
    /\ retries \in Retries
    /\ main \in {"env", "i18n", "services", "failing", "connect", "email", "up"}
    /\ pending \in SUBSET Services
    /\ attempt \in Nat /\ (attempt # 0 => attempt < retries)
    /\ db \in {"closed", "open", "lost"}
    /\ server \in {"none", "listening", "closing", "closed"}
    /\ requests \in 0..MaxRequests
    /\ worker \in {"none", "running", "closing", "closed"}
    /\ jobs \in 0..Slots
    /\ circuit \in {"closed", "open"}
    /\ probe \in {"none", "asked", "up", "down"}
    /\ shutdown \in [Signal -> {"none"} \cup Closing]
    /\ missed \in BOOLEAN /\ flushing \in BOOLEAN
    /\ exit \in {"none", "0", "1", "killed", "flushed"}

\* initializeTracing: disabled, failed to start, or running.
InitializeTracing == tracing \in BOOLEAN
\* initSentry: the API only, if it has a DSN.
InitSentry == sentry \in IF kind = "api" THEN BOOLEAN ELSE {FALSE}

\* configSchema coerces to a number: an empty DB_MAX_RETRIES is 0.
ConfigSchema == retries \in Retries

Init ==
    /\ kind \in Kinds
    /\ InitializeTracing /\ InitSentry /\ ConfigSchema
    /\ main = "env"
    /\ pending = {} /\ attempt = 0
    /\ db = "closed"
    /\ server = "none" /\ requests = 0 /\ probe = "none"
    /\ worker = "none" /\ jobs = 0 /\ circuit = "closed"
    /\ shutdown = [s \in Signal |-> "none"]
    /\ missed = FALSE /\ flushing = FALSE
    /\ exit = "none"

Runs == exit = "none"
Ends(code) == exit' = code
Fault(f) == f \in Faults

-----------------------------------------------------------------------------
(* The connection *)

\* connect() is called and has not returned.
Connecting == main = "connect" \/ (main = "services" /\ "database" \in pending)

\* One attempt of connect's loop; a ping that fails leaves the connection open.
Connects == retries > 0 /\ db' = "open" /\ attempt' = 0
AttemptFails ==
    /\ retries > 0 /\ Fault("database")
    /\ db' \in {db, "open"}
LastAttempt == attempt = retries - 1

\* Without an attempt connect() returns, and no error is thrown.
ReturnsAtOnce == retries = 0 /\ UNCHANGED <<db, attempt>>

\* Mutant: the count starts again with every attempt that connects.
NextAttempt_Reset == IF db' = "open" THEN 0 ELSE attempt + 1
NextAttempt == attempt + 1

\* The driver loses the connection and restores it.
NetworkFails ==
    /\ Runs /\ Fault("network") /\ db = "open" /\ db' = "lost"
    /\ UNCHANGED <<config, starting, serving, working, ending, exit>>
NetworkReturns ==
    /\ Runs /\ db = "lost" /\ db' = "open"
    /\ UNCHANGED <<config, starting, serving, working, ending, exit>>

Retry ==
    /\ Runs /\ Connecting /\ AttemptFails /\ ~LastAttempt
    /\ attempt' = NextAttempt
    /\ UNCHANGED <<config, main, pending, serving, working, ending, exit>>

-----------------------------------------------------------------------------
(* Start *)

\* The configuration is read by an import, and an invalid one ends the process.
LoadConfig ==
    /\ Runs /\ main = "env"
    /\ \/ main' = "i18n" /\ UNCHANGED exit
       \/ Fault("setup") /\ Ends("1") /\ UNCHANGED main
    /\ UNCHANGED <<config, pending, attempt, db, serving, working, ending>>

\* initI18n: what it throws ends the start.
InitI18n ==
    /\ Runs /\ main = "i18n"
    /\ \/ /\ main' = IF kind = "api" THEN "services" ELSE "connect"
          /\ pending' = IF kind = "api" THEN Services ELSE {}
          /\ UNCHANGED exit
       \/ Fault("setup") /\ Ends("1") /\ UNCHANGED <<main, pending>>
    /\ UNCHANGED <<config, attempt, db, serving, working, ending>>

\* The processors are initialized without an await.
WorkerStarts == main' = "up" /\ worker' = "running" /\ UNCHANGED <<jobs, circuit>>

\* initializeCommonServices: the services settle in any order.  When all are up
\* the server listens, the signals are handled, and startWorker finds the
\* connection open or connects again; if one failed the process waits and exits.
Settle(service, ok) ==
    LET left == pending \ {service}
        bad == main = "failing" \/ ~ok
    IN  /\ pending' = left
        /\ IF left # {} \/ bad
           THEN /\ main' = IF bad THEN "failing" ELSE main
                /\ UNCHANGED <<serving, working>>
           ELSE /\ server' = "listening" /\ UNCHANGED <<requests, probe>>
                /\ IF db' = "open" THEN WorkerStarts
                                   ELSE main' = "connect" /\ UNCHANGED working

ServiceSettles ==
    /\ Runs
    /\ \E service \in pending :
         \/ service = "database" /\ (Connects \/ ReturnsAtOnce) /\ Settle(service, TRUE)
         \/ service = "database" /\ AttemptFails /\ LastAttempt
              /\ attempt' = 0 /\ Settle(service, FALSE)
         \/ service # "database" /\ UNCHANGED <<db, attempt>> /\ Settle(service, TRUE)
         \/ service = "email" /\ Fault("email") /\ UNCHANGED <<db, attempt>>
              /\ Settle(service, FALSE)
    /\ UNCHANGED <<config, ending, exit>>

FailingExits ==
    /\ Runs /\ main = "failing" /\ pending = {}
    /\ Ends("1")
    /\ UNCHANGED <<config, starting, db, serving, working, ending>>

\* WorkerService.start(): the connection, the services it was given (the e-mail
\* service in a worker process, none in the API), the processors.
WorkerConnects ==
    /\ Runs /\ main = "connect"
    /\ IF db = "open" THEN UNCHANGED <<db, attempt>> ELSE Connects \/ ReturnsAtOnce
    /\ IF kind = "api" THEN WorkerStarts ELSE main' = "email" /\ UNCHANGED working
    /\ UNCHANGED <<config, pending, serving, ending, exit>>

EmailStarts ==
    /\ Runs /\ main = "email" /\ WorkerStarts
    /\ UNCHANGED <<config, pending, attempt, db, serving, ending, exit>>

\* start() throws: main() exits, and in the API the module's await rejects.
StartFails ==
    /\ Runs
    /\ \/ main = "connect" /\ AttemptFails /\ LastAttempt
       \/ main = "email" /\ Fault("email") /\ UNCHANGED db
    /\ Ends("1")
    /\ UNCHANGED <<config, starting, serving, working, ending>>

-----------------------------------------------------------------------------
(* Work *)

RequestArrives ==
    /\ Runs /\ server = "listening" /\ requests < MaxRequests
    /\ requests' = requests + 1
    /\ UNCHANGED <<config, starting, db, server, probe, working, ending, exit>>

RequestEnds ==
    /\ Runs /\ requests > IF probe = "none" THEN 0 ELSE 1
    /\ requests' = requests - 1
    /\ UNCHANGED <<config, starting, db, server, probe, working, ending, exit>>

JobStarts ==
    /\ Runs /\ worker = "running" /\ jobs < Slots
    /\ jobs' = jobs + 1
    /\ UNCHANGED <<config, starting, db, serving, worker, circuit, ending, exit>>

\* A job that fails to send may open the circuit of the e-mail service.
JobEnds ==
    /\ Runs /\ jobs > 0 /\ jobs' = jobs - 1
    /\ circuit' \in {circuit, "open"}
    /\ UNCHANGED <<config, starting, db, serving, worker, ending, exit>>

\* After circuitBreakerResetTimeout the circuit is half-open, which is healthy.
CircuitResets ==
    /\ Runs /\ circuit = "open" /\ circuit' = "closed"
    /\ UNCHANGED <<config, starting, db, serving, worker, jobs, ending, exit>>

-----------------------------------------------------------------------------
(* Probes: /readyz and /api/health *)

ProbeArrives ==
    /\ Runs /\ server = "listening" /\ requests < MaxRequests /\ probe = "none"
    /\ requests' = requests + 1 /\ probe' = "asked"
    /\ UNCHANGED <<config, starting, db, server, working, ending, exit>>

\* The ping rejects without a connection and waits for one that is lost.
Ping(ok) == IF ok THEN db = "open" ELSE db # "open" \/ Fault("redis")

\* checkBootstrapHealth reads the circuit when the ping has returned, checkHealth
\* does not read it; both wait for the PING of redis too.
Pinged(path, ok) ==
    /\ Ping(ok)
    /\ probe' = IF ok /\ (path = "readyz" => circuit = "closed") THEN "up" ELSE "down"

ProbePings ==
    /\ Runs /\ probe = "asked"
    /\ \E path \in {"readyz", "health"}, ok \in BOOLEAN : Pinged(path, ok)
    /\ UNCHANGED <<config, starting, db, server, requests, working, ending, exit>>

\* READY or NOT_READY, by what was read.
ProbeAnswers ==
    /\ Runs /\ probe \in {"up", "down"}
    /\ requests' = requests - 1 /\ probe' = "none"
    /\ UNCHANGED <<config, starting, db, server, working, ending, exit>>

-----------------------------------------------------------------------------
(* Shutdown *)

Step(s, step) == shutdown' = [shutdown EXCEPT ![s] = step]

\* The API's handlers are installed when the server listens, the worker's before it
\* starts, the tracing SDK's when the imports are done.
Handled == IF kind = "api" THEN server # "none" ELSE main \notin {"env", "i18n"}
Traced == tracing /\ main # "env"

\* stop() calls the processors' close(); one without a worker has nothing to wait for.
CallsClose(s) ==
    /\ worker' = IF worker = "running" THEN "closing" ELSE worker
    /\ missed' = (missed \/ worker = "none")
    /\ Step(s, IF worker = "none" THEN "stopDisconnect" ELSE "worker")

\* stop() is called: its first poll is synchronous, and with no active job it
\* does not wait.
Stop(s) ==
    \/ jobs = 0 /\ CallsClose(s)
    \/ jobs > 0 /\ Step(s, "jobs") /\ UNCHANGED <<worker, missed>>

\* Every signal begins a shutdown of its own: the API's closes the server, a worker
\* process's stops the worker.
Signalled(s) ==
    /\ Runs /\ shutdown[s] = "none"
    /\ flushing' = (flushing \/ Traced)
    /\ \/ /\ Handled /\ kind = "api" /\ Step(s, "server")
          /\ server' = IF server = "listening" THEN "closing" ELSE server
          /\ UNCHANGED <<worker, missed, exit>>
       \/ Handled /\ kind = "worker" /\ Stop(s) /\ UNCHANGED <<server, exit>>
       \/ /\ ~Handled /\ IF Traced THEN UNCHANGED exit ELSE Ends("killed")
          /\ UNCHANGED <<shutdown, server, worker, missed>>
    /\ UNCHANGED <<config, starting, db, requests, probe, jobs, circuit>>

\* shutdownHandler of the tracing SDK: its shutdown, raced with 5 s, and the
\* process exits with 0, whatever the graceful shutdown is at.
Flushed ==
    /\ Runs /\ flushing
    /\ Ends("flushed")
    /\ UNCHANGED <<config, starting, db, serving, working, ending>>

\* Mutant: the callback of close() runs at once.
Drained_AtOnce == TRUE
\* close() calls back when the last request is answered.
Drained == requests = 0

\* The callback: onShutdown stops the worker if it is assigned yet.
ServerCloses(s) ==
    /\ Runs /\ shutdown[s] = "server" /\ Drained
    /\ server' = "closed"
    /\ \/ worker # "none" /\ Stop(s)
       \/ worker = "none" /\ Step(s, "disconnect") /\ missed' = TRUE /\ UNCHANGED worker
    /\ UNCHANGED <<config, starting, db, requests, probe, jobs, circuit, flushing, exit>>

\* Polling ends with no active job or, whatever runs, after 30 s.
StopsWaiting(s) ==
    /\ Runs /\ shutdown[s] = "jobs" /\ CallsClose(s)
    /\ UNCHANGED <<config, starting, db, serving, jobs, circuit, flushing, exit>>

\* Mutant: close() does not wait for running jobs.
Idle_Forced == TRUE
\* close() waits for the running jobs; a closed worker is closed again at once.
Idle == jobs = 0

WorkerCloses(s) ==
    /\ Runs /\ shutdown[s] = "worker"
    /\ worker = "closing" => Idle
    /\ worker' = IF worker = "closing" THEN "closed" ELSE worker
    /\ Step(s, "stopDisconnect")
    /\ UNCHANGED <<config, starting, db, serving, jobs, circuit, missed, flushing, exit>>

\* stop() disconnects.  In the API a failure is logged and the bootstrap tries
\* again; in a worker process it is an unhandled rejection.
StopDisconnects(s) ==
    /\ Runs /\ shutdown[s] = "stopDisconnect"
    /\ \/ db' = "closed" /\ IF kind = "api" THEN Step(s, "disconnect") /\ UNCHANGED exit
                                            ELSE Ends("0") /\ UNCHANGED shutdown
       \/ /\ Fault("disconnect") /\ UNCHANGED db
          /\ IF kind = "api" THEN Step(s, "disconnect") /\ UNCHANGED exit
                             ELSE Ends("1") /\ UNCHANGED shutdown
    /\ UNCHANGED <<config, starting, serving, working, missed, flushing>>

\* bootstrap's disconnect() ends the process; when it rejects nothing resolves
\* the shutdown, and the rejection ends the process unless Sentry catches it.
Disconnects(s) ==
    /\ Runs /\ shutdown[s] = "disconnect"
    /\ \/ db' = "closed" /\ Ends("0") /\ UNCHANGED shutdown
       \/ /\ Fault("disconnect") /\ UNCHANGED db
          /\ IF sentry THEN Step(s, "stuck") /\ UNCHANGED exit
                       ELSE Ends("1") /\ UNCHANGED shutdown
    /\ UNCHANGED <<config, starting, serving, working, missed, flushing>>

\* Mutant: the timer is cleared when the server has closed.
Timed_Cleared(s) == shutdown[s] = "server"
\* The timer of a shutdown runs until the process ends.
Timed(s) == shutdown[s] \in Closing

\* shutdownTimeoutMs are over.
TimesOut(s) ==
    /\ Runs /\ kind = "api" /\ Timed(s)
    /\ Ends("1")
    /\ UNCHANGED <<config, starting, db, serving, working, ending>>

-----------------------------------------------------------------------------
Start == \/ LoadConfig \/ InitI18n
         \/ Retry \/ ServiceSettles \/ FailingExits \/ WorkerConnects \/ EmailStarts \/ StartFails
Work == RequestArrives \/ RequestEnds \/ JobStarts \/ JobEnds \/ CircuitResets
Probe == ProbeArrives \/ ProbePings \/ ProbeAnswers
Shutdown(s) ==
    ServerCloses(s) \/ StopsWaiting(s) \/ WorkerCloses(s) \/ StopDisconnects(s) \/ Disconnects(s)

Next ==
    \/ Start \/ Work \/ Probe \/ NetworkFails \/ NetworkReturns \/ Flushed
    \/ \E s \in Signal : Signalled(s) \/ Shutdown(s) \/ TimesOut(s)

Spec == Init /\ [][Next]_vars

\* Attempts to connect, timers and the flush of the tracing SDK end.  Of a worker process, which has no
\* shutdown timer, it is assumed that its jobs end; of the API, nothing.
FairSpec ==
    /\ Spec
    /\ WF_vars(Start) /\ WF_vars(Flushed)
    /\ \A s \in Signal : WF_vars(TimesOut(s)) /\ WF_vars(Shutdown(s))
    /\ WF_vars(kind = "worker" /\ JobEnds)

-----------------------------------------------------------------------------
(* Properties *)

\* A process that exits with 0 has answered its requests and disconnected, and
\* leaves no job running, unless a shutdown looked for the worker before it was
\* started.
OrderlyExit == exit = "0" =>
    /\ requests = 0 /\ db = "closed"
    /\ jobs = 0 \/ missed

\* Why: the server and the worker are each started once, in this order; ...
StartedOnce ==
    /\ worker # "none" <=> main = "up"
    /\ server # "none" <=> kind = "api" /\ main \in {"connect", "email", "up"}
    /\ pending # {} => kind = "api" /\ main \in {"services", "failing"}

\* ... and the steps of every shutdown follow the server's and the worker's end.
ServerFirst ==
    /\ server \in {"none", "closed"} => requests = 0
    /\ \A s \in Signal :
         /\ shutdown[s] = "server" => server \in {"closing", "closed"}
         /\ kind = "api" /\ shutdown[s] \notin {"none", "server"} => server = "closed"
ThenWorker ==
    /\ worker \in {"none", "closed"} => jobs = 0
    /\ \A s \in Signal :
         /\ shutdown[s] = "jobs" => worker # "none"
         /\ shutdown[s] = "worker" => worker \in {"closing", "closed"}
         /\ shutdown[s] \in {"stopDisconnect", "disconnect", "stuck"} => worker = "closed" \/ missed

\* A probe is one of the requests the server waits for: none says READY over a
\* connection that was closed since it was pinged.
ReadyIsConnected ==
    /\ probe # "none" => requests > 0
    /\ probe = "up" => db # "closed"

\* A process that got beyond connect() has a connection, until a shutdown closes it,
\* unless its configuration allows no attempt to connect.
UpIsConnected ==
    main \in {"email", "up"} /\ db = "closed" => retries = 0 \/ \E s \in Signal : shutdown[s] # "none"

LifecycleInv ==
    /\ TypeOK /\ StartedOnce /\ ServerFirst /\ ThenWorker
    /\ ReadyIsConnected /\ UpIsConnected /\ OrderlyExit

\* "Graceful shutdown to complete in-progress jobs" (README.md:123): a worker
\* process that has begun its shutdown and ends with code 0 has no job running, with
\* the same exception.
CompletesJobs ==
    /\ kind = "worker" /\ exit \in {"0", "flushed"}
    /\ \E s \in Signal : shutdown[s] # "none"
    => jobs = 0 \/ missed

\* With any number of signals, the connection is closed under no request and no
\* job, with the same exception.
DbOutlivesWork ==
    [][db # "closed" /\ db' = "closed" => requests = 0 /\ (jobs = 0 \/ missed)]_vars

\* A signalled process ends: the API although requests or jobs hang and disconnect
\* fails, by its timer; a worker process if its jobs end.
SignalledEnds == (\E s \in Signal : shutdown[s] # "none") ~> ~Runs

\* A start ends with the worker up or with the process.
StartSettles == main # "up" ~> main = "up" \/ ~Runs

=============================================================================
