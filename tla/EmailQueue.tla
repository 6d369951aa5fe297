----------------------------- MODULE EmailQueue -----------------------------
(***************************************************************************)
(* The e-mail queue and the processes that work on it: the producer of the *)
(* API, QueueProcessorService around a BullMQ worker, WorkerService's      *)
(* drain, stop and restart, and the dead-letter queue.  BullMQ and Redis   *)
(* are external: a job carries a lock while it is active, a lock that is   *)
(* not renewed is lost, and the stalled check of any worker puts such a    *)
(* job back, MaxStalled times.                                             *)
(*                                                                         *)
(* A slot is one unit of a worker's concurrency: at most one job runs in   *)
(* it, and it may still run a job whose lock it lost.                      *)
(***************************************************************************)
EXTENDS Naturals, FiniteSets

CONSTANTS
    Job,             \* job ids, verify-email-<user>
    Worker,          \* processes that run a queue processor
    Slot, WorkerOf,  \* concurrency slots, and the worker of each
    DeadLetters,     \* workers registered with a deadLetterQueueName
    Attempts,        \* attempts of a job: the producer's default options
    WorkerAttempts,  \* workerConfig.attempts: WORKER_MAX_RETRIES
    MaxStalled,      \* maxStalledCount of BullMQ
    MaxAdds,         \* bound: add commands per job id
    MaxOutages,      \* bound: crashes, stops and drains together
    Outages,         \* which of them may happen
    LocksMayExpire,  \* a running worker may fail to renew a lock
    None

ASSUME QueueAssumption ==
    /\ WorkerOf \in [Slot -> Worker]
    /\ IsFiniteSet(Slot)
    /\ DeadLetters \subseteq Worker
    /\ Attempts \in Nat \ {0} /\ WorkerAttempts \in Nat \ {0}
    /\ MaxStalled \in Nat /\ MaxAdds \in Nat /\ MaxOutages \in Nat
    /\ LocksMayExpire \in BOOLEAN
    /\ Outages \subseteq {"crash", "stop", "drain"}
    /\ None \notin Job \cup Slot

VARIABLES
    state,    \* where each job is in the queue
    made,     \* attemptsMade of each job
    stalls,   \* stalled count of each job
    lock,     \* the slot that holds the lock of each job
    run,      \* the job that runs in each slot
    step,     \* how far the processor of each slot is
    phase,    \* of each worker process
    paused,   \* workers that are drained
    pending,  \* dead-letter adds started by each worker's failed handler
    dlq,      \* entries of the dead-letter queue, per job
    sent,     \* executions of each job that gave its mail to a provider that
              \* accepts it, perhaps only after the execution has failed
    adds, outages

queue  == <<state, made, stalls, lock>>
slots  == <<run, step>>
procs  == <<phase, paused>>
dead   == <<pending, dlq>>
bounds == <<adds, outages>>
vars   == <<queue, slots, procs, dead, sent, bounds>>

JobState == {"none", "waiting", "active", "delayed", "completed", "failed"}
Phase == {"up", "stopping", "closing", "exited", "crashed"}

TypeOK ==
    /\ state \in [Job -> JobState]
    /\ made \in [Job -> Nat]
    /\ stalls \in [Job -> Nat]
    /\ lock \in [Job -> Slot \cup {None}]
    /\ run \in [Slot -> Job \cup {None}]
    /\ step \in [Slot -> {"idle", "start", "sent", "ok", "error"}]
    /\ phase \in [Worker -> Phase]
    /\ paused \subseteq Worker
    /\ pending \in [Worker -> [Job -> Nat]]
    /\ dlq \in [Job -> Nat]
    /\ sent \in [Job -> Nat]
    /\ adds \in [Job -> Nat]
    /\ outages \in Nat

Init ==
    /\ state = [j \in Job |-> "none"]
    /\ made = [j \in Job |-> 0]
    /\ stalls = [j \in Job |-> 0]
    /\ lock = [j \in Job |-> None]
    /\ run = [s \in Slot |-> None]
    /\ step = [s \in Slot |-> "idle"]
    /\ phase = [w \in Worker |-> "up"]
    /\ paused = {}
    /\ pending = [w \in Worker |-> [j \in Job |-> 0]]
    /\ dlq = [j \in Job |-> 0]
    /\ sent = [j \in Job |-> 0]
    /\ adds = [j \in Job |-> 0]
    /\ outages = 0

SlotsOf(w) == {s \in Slot : WorkerOf[s] = w}
Finished(j) == state[j] \in {"completed", "failed"}
Bump(f, x) == [f EXCEPT ![x] = @ + 1]

-----------------------------------------------------------------------------
(* Producer *)

\* QueueProducerService.addJob with a jobId: BullMQ ignores an id it still
\* holds, finished jobs included, so the add of a request that timed out can
\* be applied late or twice.
AddJob(j) ==
    /\ adds[j] < MaxAdds
    /\ adds' = Bump(adds, j)
    /\ state' = IF state[j] = "none" THEN [state EXCEPT ![j] = "waiting"]
                                     ELSE state
    /\ UNCHANGED <<made, stalls, lock, slots, procs, dead, sent, outages>>

-----------------------------------------------------------------------------
(* Queue processor *)

\* stop() polls its metrics without pausing the workers first: they fetch
\* until they are closed.
Fetches(w) == phase[w] \in {"up", "stopping"} /\ w \notin paused

\* wrappedProcessor starts on a job: active++, processed++.
Take(s, j) ==
    /\ Fetches(WorkerOf[s])
    /\ run[s] = None
    /\ state[j] = "waiting" /\ stalls[j] <= MaxStalled
    /\ state' = [state EXCEPT ![j] = "active"]
    /\ lock' = [lock EXCEPT ![j] = s]
    /\ run' = [run EXCEPT ![s] = j]
    /\ step' = [step EXCEPT ![s] = "start"]
    /\ UNCHANGED <<made, stalls, procs, dead, sent, bounds>>

\* The consumer's sendVerificationEmail: the mail goes to a provider that accepts
\* it, in time or after the call has failed.
SendMail(s) ==
    /\ step[s] = "start"
    /\ sent' = Bump(sent, run[s])
    /\ step' = [step EXCEPT ![s] = "sent"]
    /\ UNCHANGED <<queue, run, procs, dead, bounds>>

\* Mutant: the consumer logs the failure and reports success.
Results_Swallowed(st) == {"ok"}
\* Mutant: a provider call without a timeout never returns.
Results_Hangs(st) == IF st = "sent" THEN {} ELSE {"error"}
\* The consumer resolves only after a delivery, and rejects with or without
\* one: a provider call that times out may have delivered.
Results(st) == IF st = "sent" THEN {"ok", "error"} ELSE {"error"}

\* The processor promise settles: active-- in its finally.
Settle(s) ==
    /\ step[s] \in {"start", "sent"}
    /\ \E o \in Results(step[s]) : step' = [step EXCEPT ![s] = o]
    /\ UNCHANGED <<queue, run, procs, dead, sent, bounds>>

\* Mutant: every failed attempt is dead-lettered.
LastAttempt_Each(n) == TRUE
\* Mutant: compared before the attempt is counted.
LastAttempt_Beyond(n) == n > WorkerAttempts
\* The failed handler compares with the worker's own attempts setting.
LastAttempt(n) == n >= WorkerAttempts

\* The failed event at worker w, with attemptsMade n: the handler starts an
\* add to the dead-letter queue and nobody waits for it.
FailedEvent(w, j, n) ==
    pending' = IF w \in DeadLetters /\ LastAttempt(n)
               THEN [pending EXCEPT ![w][j] = @ + 1]
               ELSE pending

\* Mutant: one attempt too many.
Retries_OffByOne(n) == n <= Attempts
Retries(n) == n < Attempts

\* Mutant: finished by a worker that lost the lock.
Holds_Unchecked(s) == state[run[s]] # "none"
Holds(s) == state[run[s]] = "active" /\ lock[run[s]] = s

Release(s) ==
    /\ run' = [run EXCEPT ![s] = None]
    /\ step' = [step EXCEPT ![s] = "idle"]

\* moveToCompleted, refused without the lock.
Complete(s) ==
    /\ step[s] = "ok" /\ Holds(s)
    /\ state' = [state EXCEPT ![run[s]] = "completed"]
    /\ lock' = [lock EXCEPT ![run[s]] = None]
    /\ Release(s)
    /\ UNCHANGED <<made, stalls, procs, dead, sent, bounds>>

\* moveToFailed: back to the queue after the backoff, or failed for good.
FailAttempt(s) ==
    /\ step[s] = "error" /\ Holds(s)
    /\ LET j == run[s]
           n == made[j] + 1 IN
         /\ made' = [made EXCEPT ![j] = n]
         /\ state' = [state EXCEPT ![j] = IF Retries(n) THEN "delayed" ELSE "failed"]
         /\ lock' = [lock EXCEPT ![j] = None]
         /\ FailedEvent(WorkerOf[s], j, n)
    /\ Release(s)
    /\ UNCHANGED <<stalls, procs, dlq, sent, bounds>>

\* The lock is gone: BullMQ refuses the result, and there is no event.
ResultRefused(s) ==
    /\ step[s] \in {"ok", "error"} /\ ~Holds(s)
    /\ Release(s)
    /\ UNCHANGED <<queue, procs, dead, sent, bounds>>

\* deadLetterQueue.add(job.name, job.data): no job id, so nothing deduplicates.
DeadLetter(w, j) ==
    /\ pending[w][j] > 0
    /\ pending' = [pending EXCEPT ![w][j] = @ - 1]
    /\ dlq' = Bump(dlq, j)
    /\ UNCHANGED <<queue, slots, procs, sent, bounds>>

-----------------------------------------------------------------------------
(* BullMQ *)

\* The backoff of a retried job is over.
Promote(j) ==
    /\ state[j] = "delayed"
    /\ state' = [state EXCEPT ![j] = "waiting"]
    /\ UNCHANGED <<made, stalls, lock, slots, procs, dead, sent, bounds>>

\* Nobody renewed the lock: its worker is gone, or its event loop or its
\* connection was held up for lockDuration.
LockExpires(j) ==
    /\ lock[j] # None
    /\ LocksMayExpire \/ run[lock[j]] # j
    /\ lock' = [lock EXCEPT ![j] = None]
    /\ UNCHANGED <<state, made, stalls, slots, procs, dead, sent, bounds>>

\* Mutant: no worker runs the stalled check.
Checks_Disabled(w) == FALSE
\* disableStalledJobCheck only leaves stalledInterval out of the options,
\* which BullMQ then defaults: the check runs either way.
Checks(w) == phase[w] \in {"up", "stopping"}

RequeueStalled(j) ==
    /\ state[j] = "active" /\ lock[j] = None
    /\ \E w \in Worker : Checks(w)
    /\ state' = [state EXCEPT ![j] = "waiting"]
    /\ stalls' = Bump(stalls, j)
    /\ UNCHANGED <<made, lock, slots, procs, dead, sent, bounds>>

\* A job that stalled once too often is failed by the next worker that
\* fetches it, whatever attempts it has left.
FailStalled(s, j) ==
    /\ Fetches(WorkerOf[s])
    /\ run[s] = None
    /\ state[j] = "waiting" /\ stalls[j] > MaxStalled
    /\ made' = Bump(made, j)
    /\ state' = [state EXCEPT ![j] = "failed"]
    /\ FailedEvent(WorkerOf[s], j, made[j] + 1)
    /\ UNCHANGED <<stalls, lock, slots, procs, dlq, sent, bounds>>

-----------------------------------------------------------------------------
(* WorkerService *)

Outage(kind) ==
    kind \in Outages /\ outages < MaxOutages /\ outages' = outages + 1

\* drain(), pauseAll(): worker.pause(); resume(), resumeAll().
Drain(w) ==
    /\ phase[w] = "up" /\ w \notin paused /\ Outage("drain")
    /\ paused' = paused \cup {w}
    /\ UNCHANGED <<queue, slots, phase, dead, sent, adds>>
Resume(w) ==
    /\ phase[w] \in {"up", "stopping"} /\ w \in paused
    /\ paused' = paused \ {w}
    /\ UNCHANGED <<queue, slots, phase, dead, sent, bounds>>

\* SIGTERM or SIGINT: stop() starts to poll.
StopRequested(w) ==
    /\ phase[w] = "up" /\ Outage("stop")
    /\ phase' = [phase EXCEPT ![w] = "stopping"]
    /\ UNCHANGED <<queue, slots, paused, dead, sent, adds>>

\* waitForJobs returns when a poll finds active = 0, and after timeoutMs
\* whatever it finds; then each processor is closed.
StopWaiting(w) ==
    /\ phase[w] = "stopping"
    /\ phase' = [phase EXCEPT ![w] = "closing"]
    /\ UNCHANGED <<queue, slots, paused, dead, sent, bounds>>

\* What dies with the process: its slots, its pending adds, its pause.
ProcessEnds(w) ==
    /\ run' = [s \in Slot |-> IF WorkerOf[s] = w THEN None ELSE run[s]]
    /\ step' = [s \in Slot |-> IF WorkerOf[s] = w THEN "idle" ELSE step[s]]
    /\ pending' = [pending EXCEPT ![w] = [j \in Job |-> 0]]
    /\ paused' = paused \ {w}

\* Mutant: the process exits without waiting for worker.close().
Drained_Unawaited(w) == TRUE
Drained(w) == \A s \in SlotsOf(w) : run[s] = None

\* worker.close() waits for the running jobs, not for the failed handlers;
\* then the database is disconnected and the process exits.
Exit(w) ==
    /\ phase[w] = "closing" /\ Drained(w)
    /\ phase' = [phase EXCEPT ![w] = "exited"]
    /\ ProcessEnds(w)
    /\ UNCHANGED <<queue, dlq, sent, bounds>>

\* A crash, and the forced exit of an API process whose shutdown exceeds
\* shutdownTimeoutMs.
Crash(w) ==
    /\ phase[w] \in {"up", "stopping", "closing"} /\ Outage("crash")
    /\ phase' = [phase EXCEPT ![w] = "crashed"]
    /\ ProcessEnds(w)
    /\ UNCHANGED <<queue, dlq, sent, adds>>

Start(w) ==
    /\ phase[w] \in {"exited", "crashed"}
    /\ phase' = [phase EXCEPT ![w] = "up"]
    /\ UNCHANGED <<queue, slots, paused, dead, sent, bounds>>

-----------------------------------------------------------------------------
Fetch(s, j) == Take(s, j) \/ FailStalled(s, j)
Work(s) == SendMail(s) \/ Settle(s) \/ Complete(s) \/ FailAttempt(s) \/ ResultRefused(s)
Recover(j) == Promote(j) \/ LockExpires(j) \/ RequeueStalled(j)
Shutdown(w) == StopWaiting(w) \/ Exit(w)

Next ==
    \/ \E j \in Job : \/ AddJob(j) \/ Recover(j)
                      \/ \E s \in Slot : Fetch(s, j)
                      \/ \E w \in Worker : DeadLetter(w, j)
    \/ \E s \in Slot : Work(s)
    \/ \E w \in Worker : \/ Drain(w) \/ Resume(w) \/ StopRequested(w) \/ Shutdown(w)
                         \/ Crash(w) \/ Start(w)

Spec == Init /\ [][Next]_vars

\* A process that runs goes on; the supervisor restarts one that ended; an
\* operator resumes what was drained; Redis expires the lock of a dead worker.
\* Nothing is assumed of clients, outages or a live worker's locks.
Fairness ==
    /\ \A s \in Slot : WF_vars(Work(s))
    /\ \A j \in Job : /\ WF_vars(\E s \in Slot : Fetch(s, j))
                      /\ WF_vars(Promote(j))
                      /\ WF_vars(RequeueStalled(j))
                      /\ WF_vars(lock[j] # None /\ run[lock[j]] # j /\ LockExpires(j))
    /\ \A w \in Worker : WF_vars(Shutdown(w)) /\ WF_vars(Start(w)) /\ WF_vars(Resume(w))
FairSpec == Spec /\ Fairness

-----------------------------------------------------------------------------
(* Properties *)

\* A job is completed only if its mail was delivered, whatever crashes, stalls
\* and lost locks came before.
CompletedMeansSent == \A j \in Job : state[j] = "completed" => sent[j] > 0

\* No more executions of one job give its mail to a provider than it has
\* attempts and may stall, stale executions and repeated adds included.
MailsBounded == \A j \in Job : sent[j] <= Attempts + MaxStalled

\* A finished job stays what it is: a worker that lost its lock cannot complete,
\* fail or retry it again, and a late add does not revive it.
FinishedIsFinal == [][\A j \in Job : Finished(j) => state'[j] = state[j]]_vars

\* A job is dead-lettered when the queue has given it up: none that may still be
\* retried, or that completed, is in the dead-letter queue or on its way there.
DeadLettered(j) == dlq[j] > 0 \/ \E w \in Worker : pending[w][j] > 0
DeadLetterIsFailure == \A j \in Job : DeadLettered(j) => state[j] = "failed"

\* No job has two entries in the dead-letter queue.
DeadLetteredOnce == \A j \in Job : dlq[j] <= 1

\* Until a first process is stopped, drained or crashed, a failed job is in the
\* dead-letter queue or on its way there, if every worker is registered with one
\* and renews its locks.
FailedIsDeadLettered ==
    outages = 0 => \A j \in Job : state[j] = "failed" => DeadLettered(j)

\* Stopping, draining and restarting workers in order leaves no job behind that
\* another worker must find stalled.
GracefulStopStallsNothing == \A j \in Job : stalls[j] = 0

\* Every accepted job is completed or failed for good in the end.
JobsSettle == \A j \in Job : (state[j] = "waiting") ~> Finished(j)

\* A stop that was requested ends the process.
StopEnds == \A w \in Worker :
    (phase[w] = "stopping") ~> (phase[w] \in {"exited", "crashed"})

\* What makes the invariants inductive.
Executions(j) == made[j] + stalls[j]
                   + (IF state[j] \in {"active", "completed"} THEN 1 ELSE 0)
Unsent(j) == {s \in Slot : run[s] = j /\ step[s] = "start"}
SlotsBusy == \A s \in Slot : run[s] = None <=> step[s] = "idle"
ResultsTrue == \A s \in Slot : step[s] \in {"sent", "ok"} => sent[run[s]] > 0
LockedAreActive == \A j \in Job : lock[j] # None => state[j] = "active"
FreshJobs == \A j \in Job : state[j] = "none" => sent[j] = 0 /\ Unsent(j) = {}
AttemptsLeft == \A j \in Job :
    /\ state[j] # "failed" => made[j] < Attempts
    /\ stalls[j] <= MaxStalled + (IF state[j] = "active" THEN 0 ELSE 1)
CountsBounded == \A j \in Job :
    /\ sent[j] + Cardinality(Unsent(j)) <= Executions(j)
    /\ sent[j] + Cardinality(Unsent(j)) <= Attempts + MaxStalled

QueueInv == TypeOK /\ SlotsBusy /\ ResultsTrue /\ LockedAreActive /\ FreshJobs
            /\ CompletedMeansSent /\ AttemptsLeft /\ CountsBounded

\* Refinement: the queue keeps the promise sign-up relies on.
Promise == INSTANCE MailQueue
             WITH accepted <- {j \in Job : state[j] # "none"},
                  mailed <- {j \in Job : sent[j] > 0},
                  completed <- {j \in Job : state[j] = "completed"}
ImplementsMailQueue == Promise!Spec
=============================================================================
