---------------------------- MODULE QueueService ----------------------------
(***************************************************************************)
(* The e-mail queue as its callers and its operators see it: addJob of the *)
(* producer behind its circuit breaker, and the metrics each queue         *)
(* processor keeps of its jobs.  Every step is one of EmailQueue with what *)
(* it does to these, or one of the producer alone.                         *)
(*                                                                         *)
(* A job id is used by one call: it names the user that was just created.  *)
(***************************************************************************)
EXTENDS EmailQueue

CONSTANT QueueFaults  \* what may fail between producer and queue: "slow", "lost"

VARIABLES
    producer,  \* initialize() has made the queue and the breaker
    breaker,   \* state of the producer's breaker
    caller,    \* the addJob call for each job
    flight,    \* add commands on their way to Redis
    metrics    \* of each worker's processor

producing == <<producer, breaker, caller, flight>>
serviceVars == <<vars, producing, metrics>>

NoMetrics == [processed |-> 0, completed |-> 0, failed |-> 0, active |-> 0]

ServiceTypeOK ==
    /\ producer \in {"down", "up"}
    /\ breaker \in {"closed", "open", "halfOpen", "probing"}
    /\ caller \in [Job -> {"none", "adding", "added", "failed", "unavailable"}]
    /\ flight \subseteq Job
    /\ metrics \in [Worker -> [DOMAIN NoMetrics -> Nat]]

InitService ==
    /\ Init
    /\ producer = "down" /\ breaker = "closed"
    /\ caller = [j \in Job |-> "none"]
    /\ flight = {}
    /\ metrics = [w \in Worker |-> NoMetrics]

-----------------------------------------------------------------------------
(* Producer *)

InitializeProducer ==
    /\ producer = "down" /\ producer' = "up"
    /\ UNCHANGED <<vars, breaker, caller, flight, metrics>>

Answers(j, answer) == caller' = [caller EXCEPT ![j] = answer]

\* An open breaker rejects; while half open it lets one call through.
Admits == breaker \in {"closed", "halfOpen"}

\* addJob: valid data, and the command is sent, or EOPENBREAKER.
Call(j) ==
    /\ producer = "up" /\ caller[j] = "none"
    /\ IF Admits
       THEN /\ Answers(j, "adding") /\ flight' = flight \cup {j}
            /\ breaker' = IF breaker = "halfOpen" THEN "probing" ELSE breaker
       ELSE UNCHANGED <<breaker, flight>> /\ Answers(j, "unavailable")
    /\ UNCHANGED <<vars, producer, metrics>>

\* The command reaches Redis, in time or not, or never.
Applied(j) ==
    /\ j \in flight /\ AddJob(j)
    /\ flight' = flight \ {j}
    /\ UNCHANGED <<producer, breaker, caller, metrics>>
Lost(j) ==
    /\ "lost" \in QueueFaults
    /\ j \in flight /\ flight' = flight \ {j}
    /\ UNCHANGED <<vars, producer, breaker, caller, metrics>>

\* Its answer arrives before circuitBreakerTimeout.
Added(j) ==
    /\ caller[j] = "adding" /\ adds[j] > 0
    /\ Answers(j, "added")
    /\ breaker' = IF breaker \in {"halfOpen", "probing"} THEN "closed" ELSE breaker
    /\ UNCHANGED <<vars, producer, flight, metrics>>

\* The call times out or rejects: addJob throws, and the breaker counts it.
AddFails(j) ==
    /\ QueueFaults # {} /\ caller[j] = "adding"
    /\ Answers(j, "failed")
    /\ breaker' \in IF breaker = "closed" THEN {"closed", "open"} ELSE {"open"}
    /\ UNCHANGED <<vars, producer, flight, metrics>>

ResetBreaker ==
    /\ breaker = "open" /\ breaker' = "halfOpen"
    /\ UNCHANGED <<vars, producer, caller, flight, metrics>>

-----------------------------------------------------------------------------
(* Metrics *)

Metered(w, up, down) ==
    metrics' = [metrics EXCEPT ![w] =
        [k \in DOMAIN NoMetrics |-> @[k] + (IF k \in up THEN 1 ELSE 0)
                                         - (IF k \in down THEN 1 ELSE 0)]]

\* wrappedProcessor counts a job in and out of active, whatever becomes of it.
MeteredTake(s, j) == Take(s, j) /\ Metered(WorkerOf[s], {"processed", "active"}, {})

\* Mutant: active is decremented after the processor, outside the finally.
Left_NoFinally(s) == IF step'[s] = "ok" THEN {"active"} ELSE {}
Left(s) == {"active"}
MeteredSettle(s) == Settle(s) /\ Metered(WorkerOf[s], {}, Left(s))

\* The completed and failed events; BullMQ has none for a result it refuses, and
\* a failed one without a run for a job that stalled too often.
MeteredComplete(s) == Complete(s) /\ Metered(WorkerOf[s], {"completed"}, {})
MeteredFail(s) ==
    /\ FailAttempt(s) \/ \E j \in Job : FailStalled(s, j)
    /\ Metered(WorkerOf[s], {"failed"}, {})
Unmetered(s) == (SendMail(s) \/ ResultRefused(s)) /\ UNCHANGED metrics

\* A new process has a new processor.
Ends(w) == (Exit(w) \/ Crash(w)) /\ metrics' = [metrics EXCEPT ![w] = NoMetrics]
Operates(w) ==
    /\ \/ Drain(w) \/ Resume(w) \/ StopRequested(w) \/ StopWaiting(w) \/ Start(w)
    /\ UNCHANGED metrics

-----------------------------------------------------------------------------
Producing ==
    \/ InitializeProducer \/ ResetBreaker
    \/ \E j \in Job : Call(j) \/ Applied(j) \/ Lost(j) \/ Added(j) \/ AddFails(j)

Processing ==
    /\ \/ \E s \in Slot : \/ MeteredSettle(s) \/ MeteredComplete(s) \/ MeteredFail(s)
                          \/ Unmetered(s)
                          \/ \E j \in Job : MeteredTake(s, j)
       \/ \E w \in Worker : Ends(w) \/ Operates(w)
       \/ UNCHANGED metrics /\ \E j \in Job :
            Recover(j) \/ \E w \in Worker : DeadLetter(w, j)
    /\ UNCHANGED producing

ServiceSpec == InitService /\ [][Producing \/ Processing]_serviceVars

-----------------------------------------------------------------------------
(* Properties *)

\* addJob answers with a job only when the queue has it; with an open circuit
\* only when it has not and never will, so that the caller may try again; any
\* other failure leaves both open.
AnswersTrue == \A j \in Job :
    /\ caller[j] = "added" => state[j] # "none"
    /\ caller[j] = "unavailable" => state[j] = "none" /\ j \notin flight

\* active, on which stop() waits, counts the consumers that run, and each job a
\* process has taken ends in one counter, if no lock is lost and nothing stalls.
Running(w) == {s \in SlotsOf(w) : step[s] \in {"start", "sent"}}
Busy(w) == {s \in SlotsOf(w) : run[s] # None}
MetricsAddUp == \A w \in Worker :
    /\ metrics[w].active = Cardinality(Running(w))
    /\ metrics[w].processed = metrics[w].completed + metrics[w].failed + Cardinality(Busy(w))

\* getMetrics: the rates of a processor are parts of a whole.
Rate(w, k) == IF metrics[w].processed > 0
              THEN (100 * metrics[w][k]) \div metrics[w].processed ELSE 0
RatesAreParts == \A w \in Worker : Rate(w, "completed") + Rate(w, "failed") \in 0..100

ServiceInv == ServiceTypeOK /\ AnswersTrue /\ MetricsAddUp /\ RatesAreParts
=============================================================================
