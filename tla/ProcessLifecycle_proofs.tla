----------------------- MODULE ProcessLifecycle_proofs ----------------------
(***************************************************************************)
(* The safety properties of ProcessLifecycle for any number of signals,    *)
(* requests, jobs and attempts to connect, and any faults.                 *)
(***************************************************************************)
EXTENDS ProcessLifecycle, TLAPS

LEMMA InitLifecycle == Init => LifecycleInv
<1> SUFFICES ASSUME Init PROVE LifecycleInv
  OBVIOUS
<1> USE LifecycleAssumption DEF Init, InitializeTracing, InitSentry, ConfigSchema
<1>1. TypeOK
  <2>1. kind \in Kinds /\ retries \in Retries /\ tracing \in BOOLEAN
    OBVIOUS
  <2>2. sentry \in BOOLEAN
    OBVIOUS
  <2>3. /\ attempt = 0 /\ jobs = 0 /\ requests = 0
        /\ requests \in 0..MaxRequests /\ jobs \in 0..Slots
    OBVIOUS
  <2>4. shutdown \in [Signal -> {"none"} \cup Closing]
    OBVIOUS
  <2>5. pending \in SUBSET Services /\ missed \in BOOLEAN /\ flushing \in BOOLEAN
    OBVIOUS
  <2>6. /\ attempt \in Nat /\ (attempt # 0 => attempt < retries)
        /\ main \in {"env", "i18n", "services", "failing", "connect", "email", "up"}
        /\ db \in {"closed", "open", "lost"}
        /\ server \in {"none", "listening", "closing", "closed"}
        /\ worker \in {"none", "running", "closing", "closed"}
        /\ circuit \in {"closed", "open"} /\ probe \in {"none", "asked", "up", "down"}
        /\ exit \in {"none", "0", "1", "killed", "flushed"}
    BY <2>3
  <2> QED
    BY <2>1, <2>2, <2>3, <2>4, <2>5, <2>6 DEF TypeOK
<1>2. StartedOnce /\ ServerFirst /\ ThenWorker /\ ReadyIsConnected /\ UpIsConnected /\ OrderlyExit
  BY DEF StartedOnce, ServerFirst, ThenWorker, ReadyIsConnected, UpIsConnected, OrderlyExit
<1> QED
  BY <1>1, <1>2 DEF LifecycleInv

-----------------------------------------------------------------------------
(* The steps of the start *)

LEMMA StartLifecycle == LifecycleInv /\ Start => LifecycleInv'
<1> SUFFICES ASSUME LifecycleInv, Start PROVE LifecycleInv'
  OBVIOUS
<1> USE LifecycleAssumption DEF LifecycleInv, TypeOK, StartedOnce, ServerFirst, ThenWorker,
        ReadyIsConnected, UpIsConnected, OrderlyExit, Runs, Fault, Ends, Services, Closing,
        config, starting, serving, working, ending
<1>1. CASE LoadConfig
  BY <1>1 DEF LoadConfig
<1>2. CASE InitI18n
  <2>1. TypeOK'
    BY <1>2 DEF InitI18n
  <2>2. ServerFirst'
    BY <1>2 DEF InitI18n
  <2>3. ThenWorker'
    BY <1>2 DEF InitI18n
  <2>4. ReadyIsConnected'
    BY <1>2 DEF InitI18n
  <2>5. UpIsConnected'
    BY <1>2 DEF InitI18n
  <2>6. OrderlyExit'
    BY <1>2 DEF InitI18n
  <2>7. StartedOnce'
    BY <1>2 DEF InitI18n
  <2> QED
    BY <2>7, <2>1, <2>2, <2>3, <2>4, <2>5, <2>6
<1>3. CASE Retry
  BY <1>3 DEF Retry, Connecting, AttemptFails, LastAttempt, NextAttempt
<1>4. CASE ServiceSettles
  <2>1. TypeOK'
    <3>1. /\ pending' \in SUBSET Services
          /\ main' \in {"services", "failing", "connect", "up"} \cup {main}
      BY <1>4 DEF ServiceSettles, Settle, WorkerStarts
    <3>2. db' \in {"closed", "open", "lost"}
      BY <1>4 DEF ServiceSettles, Connects, ReturnsAtOnce, AttemptFails
    <3>3. attempt' \in Nat /\ (attempt' # 0 => attempt' < retries)
      <4>1. attempt' \in {attempt, 0}
        BY <1>4 DEF ServiceSettles, Connects, ReturnsAtOnce, Settle, WorkerStarts
      <4> QED
        BY <1>4, <4>1 DEF ServiceSettles
    <3>4. /\ server' \in {server, "listening"} /\ worker' \in {worker, "running"}
          /\ UNCHANGED <<requests, probe, jobs, circuit>>
      BY <1>4 DEF ServiceSettles, Settle, WorkerStarts
    <3> QED
      BY <1>4, <3>1, <3>2, <3>3, <3>4 DEF ServiceSettles
  <2>2. ServerFirst'
    BY <1>4 DEF ServiceSettles, Connects, ReturnsAtOnce, AttemptFails, LastAttempt,
                Settle, WorkerStarts
  <2>3. ThenWorker'
    BY <1>4 DEF ServiceSettles, Connects, ReturnsAtOnce, AttemptFails, LastAttempt,
                Settle, WorkerStarts
  <2>4. ReadyIsConnected'
    BY <1>4 DEF ServiceSettles, Connects, ReturnsAtOnce, AttemptFails, LastAttempt,
                Settle, WorkerStarts
  <2>5. UpIsConnected'
    BY <1>4 DEF ServiceSettles, Connects, ReturnsAtOnce, AttemptFails, LastAttempt,
                Settle, WorkerStarts
  <2>6. OrderlyExit'
    BY <1>4 DEF ServiceSettles, Connects, ReturnsAtOnce, AttemptFails, LastAttempt,
                Settle, WorkerStarts
  <2>7. StartedOnce'
    BY <1>4 DEF ServiceSettles, Connects, ReturnsAtOnce, AttemptFails, LastAttempt,
                Settle, WorkerStarts
  <2> QED
    BY <2>7, <2>1, <2>2, <2>3, <2>4, <2>5, <2>6
<1>5. CASE FailingExits
  BY <1>5 DEF FailingExits
<1>6. CASE WorkerConnects
  <2>1. TypeOK'
    BY <1>6 DEF WorkerConnects, Connects, ReturnsAtOnce, WorkerStarts
  <2>2. ServerFirst'
    BY <1>6 DEF WorkerConnects, Connects, ReturnsAtOnce, WorkerStarts
  <2>3. ThenWorker'
    BY <1>6 DEF WorkerConnects, Connects, ReturnsAtOnce, WorkerStarts
  <2>4. ReadyIsConnected'
    BY <1>6 DEF WorkerConnects, Connects, ReturnsAtOnce, WorkerStarts
  <2>5. UpIsConnected'
    BY <1>6 DEF WorkerConnects, Connects, ReturnsAtOnce, WorkerStarts
  <2>6. OrderlyExit'
    BY <1>6 DEF WorkerConnects, Connects, ReturnsAtOnce, WorkerStarts
  <2>7. StartedOnce'
    BY <1>6 DEF WorkerConnects, Connects, ReturnsAtOnce, WorkerStarts
  <2> QED
    BY <2>7, <2>1, <2>2, <2>3, <2>4, <2>5, <2>6
<1>7. CASE EmailStarts
  <2>1. TypeOK'
    BY <1>7 DEF EmailStarts, WorkerStarts
  <2>2. ServerFirst'
    BY <1>7 DEF EmailStarts, WorkerStarts
  <2>3. ThenWorker'
    BY <1>7 DEF EmailStarts, WorkerStarts
  <2>4. ReadyIsConnected'
    BY <1>7 DEF EmailStarts, WorkerStarts
  <2>5. UpIsConnected'
    BY <1>7 DEF EmailStarts, WorkerStarts
  <2>6. OrderlyExit'
    BY <1>7 DEF EmailStarts, WorkerStarts
  <2>7. StartedOnce'
    BY <1>7 DEF EmailStarts, WorkerStarts
  <2> QED
    BY <2>7, <2>1, <2>2, <2>3, <2>4, <2>5, <2>6
<1>8. CASE StartFails
  BY <1>8 DEF StartFails, AttemptFails, LastAttempt
<1> QED
  BY <1>1, <1>2, <1>3, <1>4, <1>5, <1>6, <1>7, <1>8 DEF Start

-----------------------------------------------------------------------------
(* Work, probes and the network *)

LEMMA WorkLifecycle ==
    LifecycleInv /\ (Work \/ Probe \/ NetworkFails \/ NetworkReturns) => LifecycleInv'
<1> SUFFICES ASSUME LifecycleInv, Work \/ Probe \/ NetworkFails \/ NetworkReturns
             PROVE  LifecycleInv'
  OBVIOUS
<1> USE LifecycleAssumption DEF LifecycleInv, TypeOK, StartedOnce, ServerFirst, ThenWorker,
        ReadyIsConnected, UpIsConnected, OrderlyExit, Runs, Fault, Closing,
        config, starting, serving, working, ending
<1>1. CASE RequestArrives \/ RequestEnds
  BY <1>1 DEF RequestArrives, RequestEnds
<1>2. CASE JobStarts \/ JobEnds \/ CircuitResets
  BY <1>2 DEF JobStarts, JobEnds, CircuitResets
<1>3. CASE ProbeArrives \/ ProbePings \/ ProbeAnswers
  BY <1>3 DEF ProbeArrives, ProbePings, Pinged, Ping, ProbeAnswers
<1>4. CASE NetworkFails \/ NetworkReturns
  BY <1>4 DEF NetworkFails, NetworkReturns
<1> QED
  BY <1>1, <1>2, <1>3, <1>4 DEF Work, Probe

-----------------------------------------------------------------------------
(* Signals and the steps of their shutdowns *)

\* Where stop() leaves a shutdown: waiting for a worker, having closed one, or past
\* a worker that it missed.
StopsAt(s) ==
    /\ shutdown' \in [Signal -> {"none"} \cup Closing]
    /\ \A r \in Signal \ {s} : shutdown'[r] = shutdown[r]
    /\ shutdown'[s] \in {"jobs", "worker", "stopDisconnect"}
    /\ shutdown'[s] = "jobs" => worker' # "none"
    /\ shutdown'[s] = "worker" => worker' \in {"closing", "closed"}
    /\ shutdown'[s] = "stopDisconnect" => missed' = TRUE
    /\ worker' = worker \/ (worker = "running" /\ worker' = "closing")
    /\ missed' \in BOOLEAN /\ (missed = TRUE => missed' = TRUE)

LEMMA StopMoves ==
    ASSUME LifecycleInv, NEW s \in Signal, Stop(s) \/ CallsClose(s)
    PROVE  StopsAt(s)
<1> USE DEF StopsAt
<1>1. CASE CallsClose(s)
  <2>1. /\ worker' = IF worker = "running" THEN "closing" ELSE worker
        /\ missed' = (missed \/ worker = "none")
        /\ shutdown' = [shutdown EXCEPT ![s] = IF worker = "none" THEN "stopDisconnect" ELSE "worker"]
    BY <1>1 DEF CallsClose, Step
  <2>2. worker \in {"none", "running", "closing", "closed"} /\ missed \in BOOLEAN
    BY DEF LifecycleInv, TypeOK
  <2>3. CASE worker = "none"
    BY <2>1, <2>2, <2>3 DEF LifecycleInv, TypeOK, Closing
  <2>4. CASE worker # "none"
    BY <2>1, <2>2, <2>4 DEF LifecycleInv, TypeOK, Closing
  <2> QED
    BY <2>3, <2>4
<1>2. CASE ~CallsClose(s)
  <2>1. /\ jobs > 0 /\ UNCHANGED <<worker, missed>>
        /\ shutdown' = [shutdown EXCEPT ![s] = "jobs"]
    BY <1>2 DEF Stop, Step
  <2>2. worker # "none" /\ missed \in BOOLEAN
    BY <2>1 DEF LifecycleInv, TypeOK, ThenWorker
  <2> QED
    BY <2>1, <2>2 DEF LifecycleInv, TypeOK, Closing
<1> QED
  BY <1>1, <1>2

LEMMA ShutdownLifecycle ==
    ASSUME LifecycleInv, NEW s \in Signal,
           Signalled(s) \/ Shutdown(s) \/ TimesOut(s) \/ Flushed
    PROVE  LifecycleInv'
<1> USE LifecycleAssumption DEF LifecycleInv, TypeOK, StartedOnce, ServerFirst, ThenWorker,
        ReadyIsConnected, UpIsConnected, OrderlyExit, Runs, Fault, Ends, Step, Closing,
        config, starting, serving, working, ending
<1>1. CASE Signalled(s)
  <2>1. CASE Handled /\ kind = "api"
    <3>1. /\ shutdown' = [shutdown EXCEPT ![s] = "server"]
          /\ server' = IF server = "listening" THEN "closing" ELSE server
          /\ UNCHANGED <<config, starting, db, requests, probe, working, missed, exit>>
      BY <1>1, <2>1 DEF Signalled, Stop, CallsClose
    <3>2. flushing' \in BOOLEAN
      BY <1>1 DEF Signalled, Traced
    <3> QED
      BY <1>1, <2>1, <3>1, <3>2 DEF Handled
  <2>2. CASE Handled /\ kind = "worker"
    <3>1. /\ Stop(s) /\ flushing' \in BOOLEAN
          /\ UNCHANGED <<config, starting, db, serving, jobs, circuit, exit>>
      BY <1>1, <2>2 DEF Signalled, Traced
    <3>2. StopsAt(s)
      BY <3>1, StopMoves
    <3>3. TypeOK'
      BY <1>1, <2>2, <3>1, <3>2 DEF Handled, StopsAt
    <3>4. ServerFirst'
      BY <1>1, <2>2, <3>1, <3>2 DEF Handled, StopsAt
    <3>5. ThenWorker'
      BY <1>1, <2>2, <3>1, <3>2 DEF Handled, StopsAt
    <3>6. ReadyIsConnected'
      BY <1>1, <2>2, <3>1, <3>2 DEF Handled, StopsAt
    <3>7. UpIsConnected'
      BY <1>1, <2>2, <3>1, <3>2 DEF Handled, StopsAt
    <3>8. OrderlyExit'
      BY <1>1, <2>2, <3>1, <3>2 DEF Handled, StopsAt
    <3>9. StartedOnce'
      BY <1>1, <2>2, <3>1, <3>2 DEF Handled, StopsAt
    <3> QED
      BY <3>3, <3>4, <3>5, <3>6, <3>7, <3>8, <3>9
  <2>3. CASE ~Handled
    <3>1. /\ exit' \in {exit, "killed"} /\ flushing' \in BOOLEAN
          /\ UNCHANGED <<config, starting, db, serving, working, shutdown, missed>>
      BY <1>1, <2>3 DEF Signalled, Traced
    <3> QED
      BY <1>1, <3>1
  <2> QED
    BY <1>1, <2>1, <2>2, <2>3 DEF Signalled
<1>2. CASE ServerCloses(s)
  <2>1. /\ shutdown[s] = "server" /\ requests = 0 /\ server' = "closed"
        /\ UNCHANGED <<config, starting, db, requests, probe, jobs, circuit, flushing, exit>>
    BY <1>2 DEF ServerCloses, Drained
  <2>2. CASE worker = "none"
    <3>1. shutdown' = [shutdown EXCEPT ![s] = "disconnect"] /\ missed' = TRUE /\ UNCHANGED worker
      BY <1>2, <2>2 DEF ServerCloses
    <3> QED
      BY <1>2, <2>1, <2>2, <3>1
  <2>3. CASE worker # "none"
    <3>1. Stop(s)
      BY <1>2, <2>3 DEF ServerCloses
    <3>2. StopsAt(s)
      BY <3>1, StopMoves
    <3>3. TypeOK'
      BY <2>1, <3>2 DEF StopsAt
    <3>4. ServerFirst'
      BY <2>1, <3>2 DEF StopsAt
    <3>5. ThenWorker'
      BY <2>1, <3>2 DEF StopsAt
    <3>6. ReadyIsConnected'
      BY <2>1, <3>2 DEF StopsAt
    <3>7. UpIsConnected'
      BY <2>1, <3>2 DEF StopsAt
    <3>8. OrderlyExit'
      BY <2>1, <3>2 DEF StopsAt
    <3>9. StartedOnce'
      BY <2>1, <3>2 DEF StopsAt
    <3> QED
      BY <3>3, <3>4, <3>5, <3>6, <3>7, <3>8, <3>9
  <2> QED
    BY <2>2, <2>3
<1>3. CASE StopsWaiting(s)
  <2>1. TypeOK'
    BY <1>3 DEF StopsWaiting, CallsClose
  <2>2. ServerFirst'
    BY <1>3 DEF StopsWaiting, CallsClose
  <2>3. ThenWorker'
    BY <1>3 DEF StopsWaiting, CallsClose
  <2>4. ReadyIsConnected'
    BY <1>3 DEF StopsWaiting, CallsClose
  <2>5. UpIsConnected'
    BY <1>3 DEF StopsWaiting, CallsClose
  <2>6. OrderlyExit'
    BY <1>3 DEF StopsWaiting, CallsClose
  <2>7. StartedOnce'
    BY <1>3 DEF StopsWaiting, CallsClose
  <2> QED
    BY <2>7, <2>1, <2>2, <2>3, <2>4, <2>5, <2>6
<1>4. CASE WorkerCloses(s)
  BY <1>4 DEF WorkerCloses, Idle
<1>5. CASE StopDisconnects(s)
  BY <1>5 DEF StopDisconnects
<1>6. CASE Disconnects(s)
  BY <1>6 DEF Disconnects
<1>7. CASE TimesOut(s) \/ Flushed
  BY <1>7 DEF TimesOut, Timed, Flushed
<1> QED
  BY <1>1, <1>2, <1>3, <1>4, <1>5, <1>6, <1>7 DEF Shutdown

LEMMA StepLifecycle == LifecycleInv /\ [Next]_vars => LifecycleInv'
<1> SUFFICES ASSUME LifecycleInv, [Next]_vars PROVE LifecycleInv'
  OBVIOUS
<1>1. CASE Start
  BY <1>1, StartLifecycle
<1>2. CASE Work \/ Probe \/ NetworkFails \/ NetworkReturns
  BY <1>2, WorkLifecycle
<1>3. CASE Flushed
  <2>1. CASE Signal = {}
    BY <1>3, <2>1 DEF Flushed, Ends, LifecycleInv, TypeOK, StartedOnce, ServerFirst, ThenWorker,
        ReadyIsConnected, UpIsConnected, OrderlyExit, config, starting, serving, working, ending
  <2>2. CASE Signal # {}
    BY <1>3, <2>2, ShutdownLifecycle
  <2> QED
    BY <2>1, <2>2
<1>4. CASE \E s \in Signal : Signalled(s) \/ Shutdown(s) \/ TimesOut(s)
  BY <1>4, ShutdownLifecycle
<1>5. CASE UNCHANGED vars
  BY <1>5 DEF vars, LifecycleInv, TypeOK, StartedOnce, ServerFirst, ThenWorker,
        ReadyIsConnected, UpIsConnected, OrderlyExit, config, starting, serving, working, ending
<1> QED
  BY <1>1, <1>2, <1>3, <1>4, <1>5 DEF Next

-----------------------------------------------------------------------------
(* Theorems *)

\* LifecycleInv holds in every reachable state: among others, a process that exits
\* with 0 has answered its requests and disconnected, and runs no job.
THEOREM LifecycleInvariant == Spec => []LifecycleInv
  BY InitLifecycle, StepLifecycle, PTL DEF Spec

\* Only the two disconnects of a shutdown close the connection.
LEMMA ClosedByShutdown ==
    ASSUME TypeOK, [Next]_vars, db # "closed", db' = "closed"
    PROVE  \E s \in Signal : StopDisconnects(s) \/ Disconnects(s)
<1> USE DEF TypeOK, config, starting, serving, working, ending
<1>1. ~Start
  BY DEF Start, LoadConfig, InitI18n, Retry, ServiceSettles, FailingExits, WorkerConnects,
         EmailStarts, StartFails, AttemptFails, Connects, ReturnsAtOnce
<1>2. ~(Work \/ Probe \/ NetworkFails \/ NetworkReturns \/ Flushed)
  BY DEF Work, RequestArrives, RequestEnds, JobStarts, JobEnds, CircuitResets,
         Probe, ProbeArrives, ProbePings, ProbeAnswers, NetworkFails, NetworkReturns, Flushed
<1>3. ASSUME NEW s \in Signal,
             \/ Signalled(s) \/ TimesOut(s) \/ ServerCloses(s) \/ StopsWaiting(s) \/ WorkerCloses(s)
      PROVE  FALSE
  BY <1>3 DEF Signalled, TimesOut, ServerCloses, StopsWaiting, WorkerCloses
<1>4. ~UNCHANGED vars
  BY DEF vars
<1> QED
  BY <1>1, <1>2, <1>3, <1>4 DEF Next, Shutdown

\* A shutdown disconnects when the requests are answered and the jobs are done,
\* unless it looked for the worker before it was started.
LEMMA StepDbOutlivesWork ==
    LifecycleInv /\ [Next]_vars =>
      [db # "closed" /\ db' = "closed" => requests = 0 /\ (jobs = 0 \/ missed)]_vars
<1> SUFFICES ASSUME LifecycleInv, [Next]_vars, db # "closed", db' = "closed"
             PROVE  requests = 0 /\ (jobs = 0 \/ missed)
  OBVIOUS
<1>1. PICK s \in Signal : shutdown[s] \in {"stopDisconnect", "disconnect"}
  BY ClosedByShutdown DEF StopDisconnects, Disconnects, LifecycleInv
<1>2. jobs = 0 \/ missed
  BY <1>1 DEF LifecycleInv, ThenWorker
<1>3. CASE kind = "api"
  BY <1>1, <1>2, <1>3 DEF LifecycleInv, ServerFirst
<1>4. CASE kind # "api"
  BY <1>2, <1>4 DEF LifecycleInv, StartedOnce, ServerFirst, TypeOK
<1> QED
  BY <1>3, <1>4

\* The connection is closed under no request and no job.
THEOREM DatabaseOutlivesWork == Spec => DbOutlivesWork
  BY LifecycleInvariant, StepDbOutlivesWork, PTL DEF Spec, DbOutlivesWork
-----------------------------------------------------------------------------
(* Without the tracing SDK *)

\* The exit that passes over running jobs is the tracing SDK's.
OnlyTracedFlush == flushing \/ exit = "flushed" => tracing

LEMMA StepOnlyTracedFlush == TypeOK /\ OnlyTracedFlush /\ [Next]_vars => OnlyTracedFlush'
<1> SUFFICES ASSUME TypeOK, OnlyTracedFlush, [Next]_vars PROVE OnlyTracedFlush'
  OBVIOUS
<1> USE DEF OnlyTracedFlush, TypeOK, Ends, config, starting, serving, working, ending
<1>1. CASE Start
  BY <1>1 DEF Start, LoadConfig, InitI18n, Retry, ServiceSettles, FailingExits, WorkerConnects,
              EmailStarts, StartFails
<1>2. CASE Work \/ Probe \/ NetworkFails \/ NetworkReturns
  BY <1>2 DEF Work, RequestArrives, RequestEnds, JobStarts, JobEnds, CircuitResets,
              Probe, ProbeArrives, ProbePings, ProbeAnswers, NetworkFails, NetworkReturns
<1>3. CASE Flushed
  BY <1>3 DEF Flushed
<1>4. ASSUME NEW s \in Signal, Signalled(s) PROVE OnlyTracedFlush'
  BY <1>4 DEF Signalled, Traced
<1>5. ASSUME NEW s \in Signal, Shutdown(s) \/ TimesOut(s) PROVE OnlyTracedFlush'
  BY <1>5 DEF Shutdown, ServerCloses, Stop, StopsWaiting, CallsClose, WorkerCloses,
              StopDisconnects, Disconnects, TimesOut
<1>6. CASE UNCHANGED vars
  BY <1>6 DEF vars
<1> QED
  BY <1>1, <1>2, <1>3, <1>4, <1>5, <1>6 DEF Next

\* Without the tracing SDK the process keeps the promise of README.md:123: a worker
\* process exits with 0 only when its jobs are completed, however many signals it gets,
\* unless a shutdown looked for the worker before it was started.
THEOREM UntracedCompletesJobs == Spec => [](~tracing => CompletesJobs)
<1>1. Init => OnlyTracedFlush
  BY DEF Init, OnlyTracedFlush
<1>2. LifecycleInv => TypeOK
  BY DEF LifecycleInv
<1>3. LifecycleInv /\ OnlyTracedFlush => (~tracing => CompletesJobs)
  BY DEF LifecycleInv, OrderlyExit, OnlyTracedFlush, CompletesJobs
<1> QED
  BY <1>1, <1>2, <1>3, StepOnlyTracedFlush, LifecycleInvariant, PTL DEF Spec
=============================================================================
