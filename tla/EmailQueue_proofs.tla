------------------------- MODULE EmailQueue_proofs --------------------------
(***************************************************************************)
(* The safety properties of EmailQueue and of QueueService, the queue as   *)
(* its callers and operators see it, for any number of jobs, workers and   *)
(* slots, any attempts and stalls allowed, and any outages.                *)
(***************************************************************************)
EXTENDS QueueService, FiniteSetTheorems, TLAPS

-----------------------------------------------------------------------------
(* Helpers *)

\* The slots that have yet to send a job's mail can be counted.
LEMMA UnsentFinite ==
    ASSUME NEW j
    PROVE  IsFiniteSet(Unsent(j)) /\ Cardinality(Unsent(j)) \in Nat
<1>1. Unsent(j) \subseteq Slot
  BY DEF Unsent
<1>2. IsFiniteSet(Unsent(j))
  BY <1>1, QueueAssumption, FS_Subset
<1> QED
  BY <1>2, FS_CardinalityType

LEMMA UnsentFinitePrimed ==
    ASSUME NEW j
    PROVE  IsFiniteSet(Unsent(j)') /\ Cardinality(Unsent(j)') \in Nat
<1>1. Unsent(j)' \subseteq Slot
  BY DEF Unsent
<1>2. IsFiniteSet(Unsent(j)')
  BY <1>1, QueueAssumption, FS_Subset
<1> QED
  BY <1>2, FS_CardinalityType

\* A count of executions is a number.
LEMMA ExecutionsType ==
    ASSUME TypeOK, NEW j \in Job
    PROVE  Executions(j) \in Nat
  BY DEF TypeOK, Executions

\* A step that sends nothing, starts nothing and forgets no execution keeps
\* the bounds on the mails.
LEMMA CountsKept ==
    ASSUME TypeOK, TypeOK', CountsBounded, UNCHANGED sent,
           \A j \in Job : /\ Unsent(j)' \subseteq Unsent(j)
                          /\ Executions(j) <= Executions(j)'
    PROVE  CountsBounded'
<1> SUFFICES ASSUME NEW j \in Job
             PROVE  /\ sent[j]' + Cardinality(Unsent(j)') <= Executions(j)'
                    /\ sent[j]' + Cardinality(Unsent(j)') <= Attempts + MaxStalled
  BY DEF CountsBounded
<1>1. Cardinality(Unsent(j)') <= Cardinality(Unsent(j))
  BY UnsentFinite, FS_Subset
<1>2. Cardinality(Unsent(j)) \in Nat /\ Cardinality(Unsent(j)') \in Nat
  BY UnsentFinite, UnsentFinitePrimed
<1>3. Executions(j) \in Nat /\ Executions(j)' \in Nat
  BY ExecutionsType DEF TypeOK, Executions
<1>4. sent[j] \in Nat /\ sent[j]' = sent[j]
  BY DEF TypeOK
<1> QED
  BY <1>1, <1>2, <1>3, <1>4, QueueAssumption DEF CountsBounded

-----------------------------------------------------------------------------
(* The inductive invariant *)

LEMMA InitQueueInv == Init => QueueInv
<1> SUFFICES ASSUME Init PROVE QueueInv
  OBVIOUS
<1>1. TypeOK
  BY DEF Init, TypeOK, JobState, Phase
<1>2. SlotsBusy /\ ResultsTrue /\ LockedAreActive /\ CompletedMeansSent
  BY QueueAssumption DEF Init, SlotsBusy, ResultsTrue, LockedAreActive, CompletedMeansSent
<1>3. \A j \in Job : Unsent(j) = {}
  BY DEF Init, Unsent
<1>4. FreshJobs
  BY <1>3 DEF Init, FreshJobs
<1>5. AttemptsLeft
  BY QueueAssumption DEF Init, AttemptsLeft
<1>6. CountsBounded
  <2>1. \A j \in Job : Cardinality(Unsent(j)) = 0
    BY <1>3, FS_EmptySet
  <2>2. \A j \in Job : sent[j] = 0 /\ Executions(j) = 0
    BY DEF Init, Executions
  <2>3. Attempts + MaxStalled \in Nat
    BY QueueAssumption
  <2> QED
    BY <2>1, <2>2, <2>3 DEF CountsBounded
<1> QED
  BY <1>1, <1>2, <1>4, <1>5, <1>6 DEF QueueInv

\* What a step does to the slots of a process that ends.
LEMMA EndedSlots ==
    ASSUME TypeOK, NEW w \in Worker, ProcessEnds(w)
    PROVE  /\ run' \in [Slot -> Job \cup {None}]
           /\ step' \in [Slot -> {"idle", "start", "sent", "ok", "error"}]
           /\ \A s \in Slot : \/ run'[s] = run[s] /\ step'[s] = step[s]
                              \/ run'[s] = None /\ step'[s] = "idle"
           /\ pending' \in [Worker -> [Job -> Nat]]
           /\ paused' \subseteq Worker
  BY DEF TypeOK, ProcessEnds

SlotInv == TypeOK /\ SlotsBusy /\ ResultsTrue /\ LockedAreActive
           /\ CompletedMeansSent /\ AttemptsLeft

\* Everything but the counts of mails is preserved.
LEMMA StepSlotInv == SlotInv /\ FreshJobs /\ [Next]_vars => SlotInv'
<1> SUFFICES ASSUME SlotInv, FreshJobs, [Next]_vars PROVE SlotInv'
  OBVIOUS
<1> USE QueueAssumption DEF SlotInv, TypeOK, JobState, Phase, SlotsBusy, ResultsTrue,
        LockedAreActive, CompletedMeansSent, AttemptsLeft,
        queue, slots, procs, dead, bounds, Bump
<1>1. ASSUME NEW j \in Job, AddJob(j) PROVE SlotInv'
  BY <1>1 DEF AddJob
<1>2. ASSUME NEW j \in Job, Promote(j) PROVE SlotInv'
  BY <1>2 DEF Promote
<1>3. ASSUME NEW j \in Job, LockExpires(j) PROVE SlotInv'
  BY <1>3 DEF LockExpires
<1>4. ASSUME NEW j \in Job, RequeueStalled(j) PROVE SlotInv'
  BY <1>4 DEF RequeueStalled
<1>5. ASSUME NEW j \in Job, NEW s \in Slot, Take(s, j) PROVE SlotInv'
  BY <1>5 DEF Take
<1>6. ASSUME NEW j \in Job, NEW s \in Slot, FailStalled(s, j) PROVE SlotInv'
  BY <1>6 DEF FailStalled, FailedEvent
<1>7. ASSUME NEW j \in Job, NEW w \in Worker, DeadLetter(w, j) PROVE SlotInv'
  BY <1>7 DEF DeadLetter
<1>8. ASSUME NEW s \in Slot, SendMail(s) PROVE SlotInv'
  BY <1>8 DEF SendMail
<1>9. ASSUME NEW s \in Slot, Settle(s) PROVE SlotInv'
  BY <1>9 DEF Settle, Results
<1>10. ASSUME NEW s \in Slot, Complete(s) PROVE SlotInv'
  BY <1>10 DEF Complete, Holds, Release
<1>11. ASSUME NEW s \in Slot, FailAttempt(s) PROVE SlotInv'
  BY <1>11 DEF FailAttempt, Holds, Release, FailedEvent, Retries
<1>12. ASSUME NEW s \in Slot, ResultRefused(s) PROVE SlotInv'
  BY <1>12 DEF ResultRefused, Release
<1>13. ASSUME NEW w \in Worker, Drain(w) PROVE SlotInv'
  BY <1>13 DEF Drain, Outage
<1>14. ASSUME NEW w \in Worker, Resume(w) PROVE SlotInv'
  BY <1>14 DEF Resume
<1>15. ASSUME NEW w \in Worker, StopRequested(w) PROVE SlotInv'
  BY <1>15 DEF StopRequested, Outage
<1>16. ASSUME NEW w \in Worker, StopWaiting(w) PROVE SlotInv'
  BY <1>16 DEF StopWaiting
<1>17. ASSUME NEW w \in Worker, Exit(w) PROVE SlotInv'
  BY <1>17, EndedSlots DEF Exit
<1>18. ASSUME NEW w \in Worker, Crash(w) PROVE SlotInv'
  BY <1>18, EndedSlots DEF Crash, Outage
<1>19. ASSUME NEW w \in Worker, Start(w) PROVE SlotInv'
  BY <1>19 DEF Start
<1>20. CASE UNCHANGED vars
  BY <1>20 DEF vars
<1> QED
  BY <1>1, <1>2, <1>3, <1>4, <1>5, <1>6, <1>7, <1>8, <1>9, <1>10, <1>11, <1>12,
     <1>13, <1>14, <1>15, <1>16, <1>17, <1>18, <1>19, <1>20
     DEF Next, Fetch, Work, Recover, Shutdown

\* No step but the start of a job and the sending of its mail adds to the mails
\* or to the slots that may send one.
Quiet == /\ UNCHANGED sent
         /\ \A j \in Job : /\ Unsent(j)' \subseteq Unsent(j)
                           /\ Executions(j) <= Executions(j)'
                           /\ state'[j] = "none" => state[j] = "none"

LEMMA QuietSteps ==
    ASSUME SlotInv, SlotInv', [Next]_vars
    PROVE  \/ \E j \in Job, s \in Slot : Take(s, j)
           \/ \E s \in Slot : SendMail(s)
           \/ Quiet
<1> USE QueueAssumption DEF SlotInv, TypeOK, JobState, SlotsBusy, Quiet, Unsent,
        Executions, queue, slots, procs, dead, bounds, Bump
<1>1. ASSUME NEW j \in Job, AddJob(j) PROVE Quiet
  BY <1>1 DEF AddJob
<1>2. ASSUME NEW j \in Job, Promote(j) \/ LockExpires(j) \/ RequeueStalled(j) PROVE Quiet
  BY <1>2 DEF Promote, LockExpires, RequeueStalled
<1>3. ASSUME NEW j \in Job, NEW s \in Slot, FailStalled(s, j) PROVE Quiet
  BY <1>3 DEF FailStalled
<1>4. ASSUME NEW j \in Job, NEW w \in Worker, DeadLetter(w, j) PROVE Quiet
  BY <1>4 DEF DeadLetter
<1>5. ASSUME NEW s \in Slot, Settle(s) PROVE Quiet
  BY <1>5 DEF Settle, Results
<1>6. ASSUME NEW s \in Slot, Complete(s) \/ ResultRefused(s) PROVE Quiet
  BY <1>6 DEF Complete, ResultRefused, Holds, Release
<1>7. ASSUME NEW s \in Slot, FailAttempt(s) PROVE Quiet
  BY <1>7 DEF FailAttempt, Holds, Release
<1>8. ASSUME NEW w \in Worker, Drain(w) \/ Resume(w) \/ StopRequested(w) \/ StopWaiting(w) \/ Start(w)
      PROVE  Quiet
  BY <1>8 DEF Drain, Resume, StopRequested, StopWaiting, Start
<1>9. ASSUME NEW w \in Worker, Exit(w) \/ Crash(w) PROVE Quiet
  <2>1. \A s \in Slot : \/ run'[s] = run[s] /\ step'[s] = step[s]
                        \/ run'[s] = None /\ step'[s] = "idle"
    BY <1>9, EndedSlots DEF Exit, Crash
  <2> QED
    BY <1>9, <2>1 DEF Exit, Crash
<1>10. CASE UNCHANGED vars
  BY <1>10 DEF vars
<1> QED
  BY <1>1, <1>2, <1>3, <1>4, <1>5, <1>6, <1>7, <1>8, <1>9, <1>10
     DEF Next, Fetch, Work, Recover, Shutdown

\* A started job has one more execution and one more slot that may send.
LEMMA TakeCounts ==
    ASSUME QueueInv, SlotInv', NEW j \in Job, NEW s \in Slot, Take(s, j)
    PROVE  FreshJobs' /\ CountsBounded'
<1> USE DEF QueueInv, TypeOK
<1>1. \A k \in Job : Unsent(k)' = IF k = j THEN Unsent(j) \cup {s} ELSE Unsent(k)
  BY QueueAssumption DEF Take, Unsent, SlotsBusy
<1>2. s \notin Unsent(j)
  BY DEF Take, Unsent, SlotsBusy
<1>3. Cardinality(Unsent(j)') = Cardinality(Unsent(j)) + 1
  BY <1>1, <1>2, UnsentFinite, FS_AddElement
<1>4. sent' = sent
  BY DEF Take
<1>5. Executions(j)' = Executions(j) + 1 /\ Executions(j) = made[j] + stalls[j]
  BY DEF Take, Executions, queue
<1>6. \A k \in Job \ {j} : Executions(k)' = Executions(k) /\ state'[k] = state[k]
  BY DEF Take, Executions
<1>7. FreshJobs'
  BY <1>1, <1>4, <1>6 DEF FreshJobs, Take
<1>8. ASSUME NEW k \in Job \ {j}
      PROVE  /\ sent[k]' + Cardinality(Unsent(k)') <= Executions(k)'
             /\ sent[k]' + Cardinality(Unsent(k)') <= Attempts + MaxStalled
  BY <1>1, <1>4, <1>6 DEF CountsBounded
<1>9. /\ sent[j]' + Cardinality(Unsent(j)') <= Executions(j)'
      /\ sent[j]' + Cardinality(Unsent(j)') <= Attempts + MaxStalled
  <2>1. sent[j] + Cardinality(Unsent(j)) <= made[j] + stalls[j]
    BY <1>5 DEF CountsBounded
  <2>2. made[j] < Attempts /\ stalls[j] <= MaxStalled
    BY DEF Take, AttemptsLeft
  <2>3. /\ sent[j] \in Nat /\ Cardinality(Unsent(j)) \in Nat
        /\ made[j] \in Nat /\ stalls[j] \in Nat
    BY UnsentFinite
  <2> QED
    BY <1>3, <1>4, <1>5, <2>1, <2>2, <2>3, QueueAssumption
<1> QED
  BY <1>7, <1>8, <1>9 DEF CountsBounded

\* A mail that is sent takes the place of a slot that was to send it.
LEMMA SendCounts ==
    ASSUME QueueInv, SlotInv', NEW s \in Slot, SendMail(s)
    PROVE  FreshJobs' /\ CountsBounded'
<1> USE DEF QueueInv, TypeOK
<1>0. PICK j \in Job : j = run[s]
  BY DEF SendMail, SlotsBusy
<1>1. s \in Unsent(j)
  BY <1>0 DEF SendMail, Unsent
<1>2. \A k \in Job : Unsent(k)' = IF k = j THEN Unsent(j) \ {s} ELSE Unsent(k)
  BY <1>0 DEF SendMail, Unsent
<1>3. \A k \in Job : Executions(k)' = Executions(k) /\ state'[k] = state[k]
  BY DEF SendMail, Executions, queue
<1>4. sent' = [sent EXCEPT ![j] = @ + 1]
  BY <1>0 DEF SendMail, Bump
<1>5. Cardinality(Unsent(j)') = Cardinality(Unsent(j)) - 1
  BY <1>1, <1>2, UnsentFinite, FS_RemoveElement
<1>6. state[j] # "none"
  BY <1>1 DEF FreshJobs
<1>7. FreshJobs'
  BY <1>2, <1>3, <1>4, <1>6 DEF FreshJobs
<1>8. ASSUME NEW k \in Job
      PROVE  sent[k]' + Cardinality(Unsent(k)') = sent[k] + Cardinality(Unsent(k))
  <2>1. CASE k = j
    <3>1. Cardinality(Unsent(j)) \in Nat /\ sent[j] \in Nat /\ sent[j]' = sent[j] + 1
      BY <1>1, <1>4, UnsentFinite
    <3> QED
      BY <1>5, <2>1, <3>1
  <2>2. CASE k # j
    BY <1>2, <1>4, <2>2
  <2> QED
    BY <2>1, <2>2
<1> QED
  BY <1>3, <1>7, <1>8 DEF CountsBounded

LEMMA StepQueueInv == QueueInv /\ [Next]_vars => QueueInv'
<1> SUFFICES ASSUME QueueInv, [Next]_vars PROVE QueueInv'
  OBVIOUS
<1>1. SlotInv
  BY DEF QueueInv, SlotInv
<1>2. SlotInv'
  BY <1>1, StepSlotInv DEF QueueInv
<1>3. ASSUME Quiet PROVE FreshJobs' /\ CountsBounded'
  <2>1. CountsBounded'
    BY <1>2, <1>3, CountsKept DEF Quiet, QueueInv, SlotInv
  <2>2. FreshJobs'
    BY <1>3 DEF Quiet, QueueInv, FreshJobs
  <2> QED
    BY <2>1, <2>2
<1>4. FreshJobs' /\ CountsBounded'
  BY <1>1, <1>2, <1>3, QuietSteps, TakeCounts, SendCounts
<1> QED
  BY <1>2, <1>4 DEF QueueInv, SlotInv

-----------------------------------------------------------------------------
(* Theorems *)

\* QueueInv holds in every reachable state.
THEOREM QueueInvariant == Spec => []QueueInv
  BY InitQueueInv, StepQueueInv, PTL DEF Spec

\* Every variable keeps its type.
THEOREM QueueTypeCorrect == Spec => []TypeOK
<1>1. QueueInv => TypeOK
  BY DEF QueueInv
<1> QED
  BY <1>1, QueueInvariant, PTL

\* A job is completed only after its mail was delivered.
THEOREM CompletedWasSent == Spec => []CompletedMeansSent
<1>1. QueueInv => CompletedMeansSent
  BY DEF QueueInv
<1> QED
  BY <1>1, QueueInvariant, PTL

\* At most Attempts + MaxStalled executions of a job give its mail to a provider.
THEOREM MailsAreBounded == Spec => []MailsBounded
<1>1. ASSUME QueueInv, NEW j \in Job PROVE sent[j] <= Attempts + MaxStalled
  <2>1. sent[j] \in Nat /\ Cardinality(Unsent(j)) \in Nat
    BY <1>1, UnsentFinite DEF QueueInv, TypeOK
  <2>2. sent[j] + Cardinality(Unsent(j)) <= Attempts + MaxStalled
    BY <1>1 DEF QueueInv, CountsBounded
  <2> QED
    BY <2>1, <2>2, QueueAssumption
<1>2. QueueInv => MailsBounded
  BY <1>1 DEF MailsBounded
<1> QED
  BY <1>2, QueueInvariant, PTL

\* No step changes what a finished job is.
LEMMA StepFinal == QueueInv /\ [Next]_vars => \A j \in Job : Finished(j) => state'[j] = state[j]
<1> SUFFICES ASSUME QueueInv, [Next]_vars, NEW j \in Job, Finished(j)
             PROVE  state'[j] = state[j]
  OBVIOUS
<1> USE DEF Finished, QueueInv, TypeOK, queue, slots, procs, dead, bounds
<1>1. ASSUME NEW k \in Job, AddJob(k) \/ Recover(k) PROVE state'[j] = state[j]
  BY <1>1 DEF AddJob, Recover, Promote, LockExpires, RequeueStalled
<1>2. ASSUME NEW s \in Slot, NEW k \in Job, Fetch(s, k) PROVE state'[j] = state[j]
  BY <1>2 DEF Fetch, Take, FailStalled
<1>3. ASSUME NEW s \in Slot, Work(s) PROVE state'[j] = state[j]
  BY <1>3 DEF Work, SendMail, Settle, Complete, FailAttempt, ResultRefused, Holds
<1>4. ASSUME NEW w \in Worker, NEW k \in Job, DeadLetter(w, k) PROVE state'[j] = state[j]
  BY <1>4 DEF DeadLetter
<1>5. ASSUME NEW w \in Worker,
             \/ Drain(w) \/ Resume(w) \/ StopRequested(w) \/ Shutdown(w)
             \/ Crash(w) \/ Start(w)
      PROVE  state'[j] = state[j]
  BY <1>5 DEF Drain, Resume, StopRequested, Shutdown, StopWaiting, Exit, Crash, Start
<1>6. CASE UNCHANGED vars
  BY <1>6 DEF vars
<1> QED
  BY <1>1, <1>2, <1>3, <1>4, <1>5, <1>6 DEF Next

\* A finished job stays what it is.
THEOREM FinishedForever == Spec => FinishedIsFinal
<1>1. QueueInv /\ [Next]_vars => [\A j \in Job : Finished(j) => state'[j] = state[j]]_vars
  BY StepFinal
<1> QED
  BY <1>1, QueueInvariant, PTL DEF Spec, FinishedIsFinal

-----------------------------------------------------------------------------
(* The dead-letter queue, when a worker's attempts are not fewer than a job's *)

\* A job has one dead letter at most, written or on its way, and only when the
\* queue has given the job up.
DeadInv == \A j \in Job :
    /\ DeadLettered(j) => state[j] = "failed"
    /\ dlq[j] <= 1
    /\ \A w \in Worker : pending[w][j] > 0 =>
         /\ pending[w][j] = 1 /\ dlq[j] = 0
         /\ \A v \in Worker \ {w} : pending[v][j] = 0

\* The failed event of a job that had no dead letter writes one at most.
LEMMA EventDead ==
    ASSUME TypeOK, DeadInv, NEW w \in Worker, NEW j \in Job, NEW n, FailedEvent(w, j, n),
           state[j] # "failed", UNCHANGED dlq,
           \A k \in Job \ {j} : state'[k] = state[k],
           state'[j] = "failed" \/ ~LastAttempt(n)
    PROVE  DeadInv'
<1>1. ~DeadLettered(j)
  BY DEF DeadInv
<1>2. dlq[j] = 0 /\ \A v \in Worker : pending[v][j] = 0
  BY <1>1 DEF DeadLettered, TypeOK
<1>3. CASE UNCHANGED pending
  BY <1>2, <1>3 DEF DeadInv, DeadLettered, TypeOK
<1>4. CASE state'[j] = "failed" /\ pending' = [pending EXCEPT ![w][j] = @ + 1]
  BY <1>2, <1>4 DEF DeadInv, DeadLettered, TypeOK
<1> QED
  BY <1>3, <1>4 DEF FailedEvent

LEMMA StepDeadInv ==
    ASSUME Attempts <= WorkerAttempts
    PROVE  QueueInv /\ DeadInv /\ [Next]_vars => DeadInv'
<1> SUFFICES ASSUME QueueInv, DeadInv, [Next]_vars PROVE DeadInv'
  OBVIOUS
<1> USE DEF QueueInv, TypeOK, queue, slots, procs, dead, bounds
<1>1. ASSUME UNCHANGED dead, \A j \in Job : state[j] = "failed" => state'[j] = "failed"
      PROVE  DeadInv'
  BY <1>1 DEF DeadInv, DeadLettered
<1>2. ASSUME NEW j \in Job, AddJob(j) \/ Recover(j) PROVE DeadInv'
  BY <1>1, <1>2 DEF AddJob, Recover, Promote, LockExpires, RequeueStalled
<1>3. ASSUME NEW s \in Slot, NEW j \in Job, Take(s, j) PROVE DeadInv'
  BY <1>1, <1>3 DEF Take
<1>4. ASSUME NEW s \in Slot, NEW j \in Job, FailStalled(s, j) PROVE DeadInv'
  <2>1. WorkerOf[s] \in Worker
    BY QueueAssumption
  <2>2. /\ state[j] # "failed" /\ state'[j] = "failed" /\ UNCHANGED dlq
        /\ \A k \in Job \ {j} : state'[k] = state[k]
        /\ FailedEvent(WorkerOf[s], j, made[j] + 1)
    BY <1>4 DEF FailStalled
  <2> QED
    BY <2>1, <2>2, EventDead
<1>5. ASSUME NEW s \in Slot, SendMail(s) \/ Settle(s) \/ Complete(s) \/ ResultRefused(s)
      PROVE  DeadInv'
  BY <1>1, <1>5 DEF SendMail, Settle, Complete, ResultRefused, Holds
<1>6. ASSUME NEW s \in Slot, FailAttempt(s) PROVE DeadInv'
  <2>1. WorkerOf[s] \in Worker
    BY QueueAssumption
  <2>2. PICK j \in Job : j = run[s]
    BY <1>6 DEF FailAttempt, SlotsBusy
  <2>3. /\ state[j] # "failed" /\ UNCHANGED dlq
        /\ \A k \in Job \ {j} : state'[k] = state[k]
        /\ state'[j] = IF Retries(made[j] + 1) THEN "delayed" ELSE "failed"
        /\ FailedEvent(WorkerOf[s], j, made[j] + 1)
    BY <1>6, <2>2 DEF FailAttempt, Holds
  <2>4. state'[j] = "failed" \/ ~LastAttempt(made[j] + 1)
    BY <2>3, QueueAssumption DEF Retries, LastAttempt
  <2> QED
    BY <2>1, <2>3, <2>4, EventDead
<1>7. ASSUME NEW w \in Worker, NEW j \in Job, DeadLetter(w, j) PROVE DeadInv'
  <2>1. state[j] = "failed" /\ dlq[j] = 0 /\ pending[w][j] = 1
        /\ \A v \in Worker \ {w} : pending[v][j] = 0
    BY <1>7 DEF DeadLetter, DeadInv, DeadLettered
  <2>2. /\ dlq'[j] = 1 /\ \A v \in Worker : pending'[v][j] = 0
        /\ \A k \in Job \ {j} : /\ dlq'[k] = dlq[k]
                                /\ \A v \in Worker : pending'[v][k] = pending[v][k]
        /\ UNCHANGED state
    BY <1>7, <2>1 DEF DeadLetter, Bump
  <2>3. ASSUME NEW k \in Job
        PROVE  /\ DeadLettered(k)' => state'[k] = "failed"
               /\ dlq'[k] <= 1
               /\ \A x \in Worker : pending'[x][k] > 0 =>
                    /\ pending'[x][k] = 1 /\ dlq'[k] = 0
                    /\ \A v \in Worker \ {x} : pending'[v][k] = 0
    <3>1. CASE k = j
      BY <2>1, <2>2, <3>1
    <3>2. CASE k # j
      BY <2>2, <3>2 DEF DeadInv, DeadLettered
    <3> QED
      BY <3>1, <3>2
  <2> QED
    BY <2>3 DEF DeadInv
<1>8. ASSUME NEW w \in Worker, Drain(w) \/ Resume(w) \/ StopRequested(w) \/ StopWaiting(w) \/ Start(w)
      PROVE  DeadInv'
  BY <1>1, <1>8 DEF Drain, Resume, StopRequested, StopWaiting, Start
<1>9. ASSUME NEW w \in Worker, Exit(w) \/ Crash(w) PROVE DeadInv'
  <2>1. pending' = [pending EXCEPT ![w] = [j \in Job |-> 0]] /\ UNCHANGED <<state, dlq>>
    BY <1>9 DEF Exit, Crash, ProcessEnds
  <2> QED
    BY <2>1 DEF DeadInv, DeadLettered
<1>10. CASE UNCHANGED vars
  BY <1>1, <1>10 DEF vars
<1> QED
  BY <1>2, <1>3, <1>4, <1>5, <1>6, <1>7, <1>8, <1>9, <1>10 DEF Next, Fetch, Work, Shutdown

LEMMA DeadInvariant ==
    ASSUME Attempts <= WorkerAttempts
    PROVE  Spec => []DeadInv
<1>1. Init => DeadInv
  BY DEF Init, DeadInv, DeadLettered
<1>2. QueueInv /\ DeadInv /\ [Next]_vars => DeadInv'
  BY StepDeadInv
<1> QED
  BY <1>1, <1>2, QueueInvariant, PTL DEF Spec

\* Only a job the queue has given up is dead-lettered, as long as the attempts
\* the worker is configured with are not fewer than those of the job.
THEOREM DeadLettersAreFailures ==
    ASSUME Attempts <= WorkerAttempts
    PROVE  Spec => []DeadLetterIsFailure
<1>1. DeadInv => DeadLetterIsFailure
  BY DEF DeadInv, DeadLetterIsFailure
<1> QED
  BY <1>1, DeadInvariant, PTL

\* No job has two dead letters, on the same condition.
THEOREM DeadLettersAreSingle ==
    ASSUME Attempts <= WorkerAttempts
    PROVE  Spec => []DeadLetteredOnce
<1>1. DeadInv => DeadLetteredOnce
  BY DEF DeadInv, DeadLetteredOnce
<1> QED
  BY <1>1, DeadInvariant, PTL

-----------------------------------------------------------------------------
(* Outages in order: a live worker renews its locks, and no process has crashed *)

Orderly == ~LocksMayExpire /\ ("crash" \notin Outages \/ outages = 0)

\* Nothing has stalled, and the lock of a job is with the slot that runs it.
OrderlyInv ==
    /\ outages = 0 => \A w \in Worker : phase[w] = "up"
    /\ Orderly =>
         /\ \A j \in Job : stalls[j] = 0 /\ (state[j] = "active" => lock[j] # None)
         /\ \A j \in Job : lock[j] # None => run[lock[j]] = j
         /\ \A s \in Slot : run[s] # None => lock[run[s]] = s

LEMMA StepOrderlyInv == QueueInv /\ OrderlyInv /\ [Next]_vars => OrderlyInv'
<1> SUFFICES ASSUME QueueInv, OrderlyInv, [Next]_vars PROVE OrderlyInv'
  OBVIOUS
<1> USE QueueAssumption DEF QueueInv, TypeOK, SlotsBusy, LockedAreActive, OrderlyInv, Orderly,
        queue, slots, procs, dead, bounds, Bump
<1>1. ASSUME NEW j \in Job, AddJob(j) \/ Promote(j) PROVE OrderlyInv'
  BY <1>1 DEF AddJob, Promote
<1>2. ASSUME NEW j \in Job, LockExpires(j) \/ RequeueStalled(j) PROVE OrderlyInv'
  BY <1>2 DEF LockExpires, RequeueStalled
<1>3. ASSUME NEW j \in Job, NEW s \in Slot, Take(s, j) PROVE OrderlyInv'
  <2>1. /\ run[s] = None /\ lock[j] = None /\ UNCHANGED <<stalls, phase, outages>>
        /\ state' = [state EXCEPT ![j] = "active"] /\ lock' = [lock EXCEPT ![j] = s]
        /\ run' = [run EXCEPT ![s] = j]
    BY <1>3 DEF Take
  <2> QED
    BY <2>1
<1>4. ASSUME NEW j \in Job, NEW s \in Slot, FailStalled(s, j) PROVE OrderlyInv'
  BY <1>4 DEF FailStalled
<1>5. ASSUME NEW j \in Job, NEW w \in Worker, DeadLetter(w, j) PROVE OrderlyInv'
  BY <1>5 DEF DeadLetter
<1>6. ASSUME NEW s \in Slot, SendMail(s) \/ Settle(s) PROVE OrderlyInv'
  BY <1>6 DEF SendMail, Settle
<1>7. ASSUME NEW s \in Slot, Complete(s) \/ FailAttempt(s) PROVE OrderlyInv'
  <2>1. PICK j \in Job : j = run[s]
    BY <1>7 DEF Complete, FailAttempt
  <2>2. /\ lock[j] = s /\ UNCHANGED <<stalls, phase, outages>>
        /\ lock' = [lock EXCEPT ![j] = None] /\ run' = [run EXCEPT ![s] = None]
        /\ state'[j] # "active" /\ \A k \in Job \ {j} : state'[k] = state[k]
    BY <1>7, <2>1 DEF Complete, FailAttempt, Holds, Release
  <2> QED
    BY <2>1, <2>2
<1>8. ASSUME NEW s \in Slot, ResultRefused(s) PROVE OrderlyInv'
  BY <1>8 DEF ResultRefused, Release, Holds
<1>9. ASSUME NEW w \in Worker, Drain(w) \/ Resume(w) \/ StopRequested(w) \/ StopWaiting(w) \/ Start(w)
      PROVE  OrderlyInv'
  BY <1>9 DEF Drain, Resume, StopRequested, StopWaiting, Start, Outage
<1>10. ASSUME NEW w \in Worker, Exit(w) PROVE OrderlyInv'
  <2>1. \A s \in Slot : run'[s] = run[s]
    BY <1>10 DEF Exit, ProcessEnds, Drained, SlotsOf
  <2>2. UNCHANGED <<state, stalls, lock, outages>> /\ phase[w] = "closing"
    BY <1>10 DEF Exit
  <2> QED
    BY <2>1, <2>2
<1>11. ASSUME NEW w \in Worker, Crash(w) PROVE OrderlyInv'
  BY <1>11 DEF Crash, Outage
<1>12. CASE UNCHANGED vars
  BY <1>12 DEF vars
<1> QED
  BY <1>1, <1>2, <1>3, <1>4, <1>5, <1>6, <1>7, <1>8, <1>9, <1>10, <1>11, <1>12
     DEF Next, Fetch, Work, Recover, Shutdown

LEMMA OrderlyInvariant == Spec => []OrderlyInv
<1>1. Init => OrderlyInv
  BY QueueAssumption DEF Init, OrderlyInv
<1> QED
  BY <1>1, StepOrderlyInv, QueueInvariant, PTL DEF Spec

\* Stopping, draining and restarting leaves no job for the stalled check, whatever the
\* numbers, as long as no process crashes and every live worker renews its locks.
THEOREM NothingStalls ==
    ASSUME ~LocksMayExpire, "crash" \notin Outages
    PROVE  Spec => []GracefulStopStallsNothing
<1>1. OrderlyInv => GracefulStopStallsNothing
  BY DEF OrderlyInv, Orderly, GracefulStopStallsNothing
<1> QED
  BY <1>1, OrderlyInvariant, PTL

\* A failed job has its dead letter until a first process is stopped, drained or crashes:
\* every worker has a dead-letter queue and renews its locks, and the attempts it is
\* configured with are no more than those of the job.
THEOREM FailuresAreDeadLettered ==
    ASSUME ~LocksMayExpire, DeadLetters = Worker, WorkerAttempts <= Attempts
    PROVE  Spec => []FailedIsDeadLettered
<1>1. Init => FailedIsDeadLettered
  BY DEF Init, FailedIsDeadLettered
<1>2. QueueInv /\ OrderlyInv /\ FailedIsDeadLettered /\ [Next]_vars => FailedIsDeadLettered'
  <2> SUFFICES ASSUME QueueInv, OrderlyInv, FailedIsDeadLettered, [Next]_vars
               PROVE  FailedIsDeadLettered'
    OBVIOUS
  <2> USE QueueAssumption DEF QueueInv, TypeOK, OrderlyInv, Orderly, FailedIsDeadLettered, DeadLettered,
          queue, slots, procs, dead, bounds, Bump
  <2>1. ASSUME UNCHANGED <<dead, outages>>, \A j \in Job : state'[j] = "failed" => state[j] = "failed"
        PROVE  FailedIsDeadLettered'
    BY <2>1
  <2>2. ASSUME NEW j \in Job, AddJob(j) \/ Recover(j) PROVE FailedIsDeadLettered'
    BY <2>1, <2>2 DEF AddJob, Recover, Promote, LockExpires, RequeueStalled
  <2>3. ASSUME NEW s \in Slot, NEW j \in Job, Take(s, j) PROVE FailedIsDeadLettered'
    BY <2>1, <2>3 DEF Take
  <2>4. ASSUME NEW s \in Slot, NEW j \in Job, FailStalled(s, j) PROVE FailedIsDeadLettered'
    BY <2>4 DEF FailStalled
  <2>5. ASSUME NEW w \in Worker, NEW j \in Job, DeadLetter(w, j) PROVE FailedIsDeadLettered'
    <3>1. /\ dlq'[j] > 0 /\ UNCHANGED <<state, outages>>
          /\ \A k \in Job \ {j} : /\ dlq'[k] = dlq[k]
                                   /\ \A v \in Worker : pending'[v][k] = pending[v][k]
      BY <2>5 DEF DeadLetter
    <3> QED
      BY <3>1
  <2>6. ASSUME NEW s \in Slot, SendMail(s) \/ Settle(s) \/ Complete(s) \/ ResultRefused(s)
        PROVE  FailedIsDeadLettered'
    BY <2>1, <2>6 DEF SendMail, Settle, Complete, ResultRefused
  <2>7. ASSUME NEW s \in Slot, FailAttempt(s) PROVE FailedIsDeadLettered'
    <3>1. PICK j \in Job : j = run[s]
      BY <2>7 DEF FailAttempt, SlotsBusy
    <3>2. PICK w \in Worker : w = WorkerOf[s]
      OBVIOUS
    <3>3. CASE Retries(made[j] + 1)
      <4>1. state' = [state EXCEPT ![j] = "delayed"] /\ UNCHANGED <<dlq, outages>>
        BY <2>7, <3>1, <3>3 DEF FailAttempt
      <4>2. \A v \in Worker, k \in Job : pending[v][k] > 0 => pending'[v][k] > 0
        BY <2>7, <3>1, <3>2 DEF FailAttempt, FailedEvent
      <4> QED
        BY <4>1, <4>2
    <3>4. CASE ~Retries(made[j] + 1)
      <4>1. LastAttempt(made[j] + 1)
        BY <3>4 DEF Retries, LastAttempt
      <4>2. pending' = [pending EXCEPT ![w][j] = @ + 1]
        BY <2>7, <3>1, <3>2, <4>1 DEF FailAttempt, FailedEvent
      <4>3. /\ pending'[w][j] > 0
            /\ \A v \in Worker, k \in Job : pending[v][k] > 0 => pending'[v][k] > 0
        BY <4>2
      <4>4. UNCHANGED <<dlq, outages>> /\ \A k \in Job \ {j} : state'[k] = state[k]
        BY <2>7, <3>1 DEF FailAttempt
      <4> QED
        BY <4>3, <4>4
    <3> QED
      BY <3>3, <3>4
  <2>8. ASSUME NEW w \in Worker, Resume(w) \/ StopWaiting(w) \/ Start(w) PROVE FailedIsDeadLettered'
    BY <2>1, <2>8 DEF Resume, StopWaiting, Start
  <2>9. ASSUME NEW w \in Worker, Drain(w) \/ StopRequested(w) \/ Crash(w) \/ Exit(w)
        PROVE  FailedIsDeadLettered'
    BY <2>9 DEF Drain, StopRequested, Crash, Exit, Outage
  <2>10. CASE UNCHANGED vars
    BY <2>1, <2>10 DEF vars
  <2> QED
    BY <2>2, <2>3, <2>4, <2>5, <2>6, <2>7, <2>8, <2>9, <2>10 DEF Next, Fetch, Work, Shutdown
<1> QED
  BY <1>1, <1>2, QueueInvariant, OrderlyInvariant, PTL DEF Spec

-----------------------------------------------------------------------------
(* Refinement *)

LEMMA StepPromise == QueueInv /\ [Next]_vars => [Promise!Next]_(Promise!vars)
<1> SUFFICES ASSUME QueueInv, [Next]_vars PROVE [Promise!Next]_(Promise!vars)
  OBVIOUS
<1> USE DEF QueueInv, TypeOK, queue, slots, procs, dead, bounds
<1>1. ASSUME UNCHANGED sent,
             \A j \in Job : (state'[j] = "none" <=> state[j] = "none")
                            /\ (state'[j] = "completed" <=> state[j] = "completed")
      PROVE  UNCHANGED Promise!vars
  BY <1>1 DEF Promise!vars
<1>2. ASSUME NEW j \in Job, AddJob(j) PROVE [Promise!Next]_(Promise!vars)
  <2>1. CASE state[j] = "none"
    <3>1. {k \in Job : state'[k] # "none"} = {k \in Job : state[k] # "none"} \cup {j}
      BY <1>2, <2>1 DEF AddJob
    <3>2. {k \in Job : state'[k] = "completed"} = {k \in Job : state[k] = "completed"}
      BY <1>2, <2>1 DEF AddJob
    <3> QED
      BY <1>2, <3>1, <3>2 DEF AddJob, Promise!Next, Promise!Accept
  <2>2. CASE state[j] # "none"
    BY <1>1, <1>2, <2>2 DEF AddJob
  <2> QED
    BY <2>1, <2>2
<1>3. ASSUME NEW j \in Job, Recover(j) PROVE [Promise!Next]_(Promise!vars)
  BY <1>1, <1>3 DEF Recover, Promote, LockExpires, RequeueStalled, LockedAreActive
<1>4. ASSUME NEW s \in Slot, NEW j \in Job, Fetch(s, j) PROVE [Promise!Next]_(Promise!vars)
  BY <1>1, <1>4 DEF Fetch, Take, FailStalled
<1>5. ASSUME NEW s \in Slot, SendMail(s) PROVE [Promise!Next]_(Promise!vars)
  <2>1. PICK j \in Job : j = run[s] /\ j \in {k \in Job : state[k] # "none"}
    BY <1>5 DEF SendMail, SlotsBusy, FreshJobs, Unsent
  <2>2. {k \in Job : sent'[k] > 0} = {k \in Job : sent[k] > 0} \cup {j}
    BY <1>5, <2>1 DEF SendMail, Bump
  <2>3. UNCHANGED state
    BY <1>5 DEF SendMail
  <2> QED
    BY <2>1, <2>2, <2>3 DEF Promise!Next, Promise!Deliver
<1>6. ASSUME NEW s \in Slot, Complete(s) PROVE [Promise!Next]_(Promise!vars)
  <2>1. PICK j \in Job : j = run[s] /\ j \in {k \in Job : sent[k] > 0}
    BY <1>6 DEF Complete, SlotsBusy, ResultsTrue
  <2>2. {k \in Job : state'[k] = "completed"} = {k \in Job : state[k] = "completed"} \cup {j}
    BY <1>6, <2>1 DEF Complete
  <2>3. {k \in Job : state'[k] # "none"} = {k \in Job : state[k] # "none"}
    BY <1>6, <2>1 DEF Complete, Holds
  <2>4. UNCHANGED sent
    BY <1>6 DEF Complete
  <2> QED
    BY <2>1, <2>2, <2>3, <2>4 DEF Promise!Next, Promise!Complete
<1>7. ASSUME NEW s \in Slot, Settle(s) \/ FailAttempt(s) \/ ResultRefused(s)
      PROVE  [Promise!Next]_(Promise!vars)
  BY <1>1, <1>7 DEF Settle, FailAttempt, ResultRefused, Holds
<1>8. ASSUME NEW w \in Worker, NEW j \in Job, DeadLetter(w, j) PROVE [Promise!Next]_(Promise!vars)
  BY <1>1, <1>8 DEF DeadLetter
<1>9. ASSUME NEW w \in Worker,
             \/ Drain(w) \/ Resume(w) \/ StopRequested(w) \/ Shutdown(w)
             \/ Crash(w) \/ Start(w)
      PROVE  [Promise!Next]_(Promise!vars)
  BY <1>1, <1>9 DEF Drain, Resume, StopRequested, Shutdown, StopWaiting, Exit, Crash, Start
<1>10. CASE UNCHANGED vars
  BY <1>1, <1>10 DEF vars
<1> QED
  BY <1>2, <1>3, <1>4, <1>5, <1>6, <1>7, <1>8, <1>9, <1>10 DEF Next, Work

\* The queue implements MailQueue, the promise sign-up relies on.
THEOREM MailQueueImplemented == Spec => ImplementsMailQueue
<1>1. Init => Promise!Init
  BY DEF Init, Promise!Init
<1> QED
  BY <1>1, StepPromise, QueueInvariant, PTL DEF Spec, ImplementsMailQueue, Promise!Spec

-----------------------------------------------------------------------------
(* The queue as its callers and its operators see it *)

\* Every step of the service is one of the queue, or leaves it alone.
LEMMA ServiceStep == [Producing \/ Processing]_serviceVars => [Next]_vars
<1> SUFFICES ASSUME [Producing \/ Processing]_serviceVars PROVE [Next]_vars
  OBVIOUS
<1>1. CASE UNCHANGED serviceVars
  BY <1>1 DEF serviceVars, vars
<1>2. CASE Producing
  BY <1>2 DEF Producing, InitializeProducer, ResetBreaker, Call, Applied, Lost, Added, AddFails, Next
<1>3. ASSUME NEW s \in Slot, \/ MeteredSettle(s) \/ MeteredComplete(s) \/ MeteredFail(s) \/ Unmetered(s)
                             \/ \E j \in Job : MeteredTake(s, j)
      PROVE  Next
  BY <1>3 DEF MeteredSettle, MeteredComplete, MeteredFail, Unmetered, MeteredTake, Next, Fetch, Work
<1>4. ASSUME NEW w \in Worker, Ends(w) \/ Operates(w)
      PROVE  Next
  BY <1>4 DEF Ends, Operates, Next, Shutdown
<1>5. ASSUME NEW j \in Job, Recover(j) \/ \E w \in Worker : DeadLetter(w, j)
      PROVE  Next
  BY <1>5 DEF Next
<1> QED
  BY <1>1, <1>2, <1>3, <1>4, <1>5 DEF Processing

\* What is proved of the queue holds of it in the service.
THEOREM ServiceIsQueue == ServiceSpec => Spec
<1>1. InitService => Init
  BY DEF InitService
<1> QED
  BY <1>1, ServiceStep, PTL DEF ServiceSpec, Spec

\* What each call was answered, and what of it may still reach Redis.
AnswersInv ==
    /\ producer \in {"down", "up"}
    /\ breaker \in {"closed", "open", "halfOpen", "probing"}
    /\ caller \in [Job -> {"none", "adding", "added", "failed", "unavailable"}]
    /\ flight \subseteq Job
    /\ \A j \in Job :
         /\ adds[j] > 0 => state[j] # "none"
         /\ caller[j] \in {"none", "unavailable"} => state[j] = "none" /\ j \notin flight
         /\ caller[j] = "added" => state[j] # "none"

\* Only an add command makes a job, and no job disappears.
LEMMA ProcessingKeepsJobs ==
    ASSUME QueueInv, Processing
    PROVE  /\ UNCHANGED <<adds, producing>>
           /\ \A j \in Job : state'[j] = "none" <=> state[j] = "none"
<1> USE DEF QueueInv, TypeOK, SlotsBusy, queue, slots, procs, dead, bounds
<1>1. UNCHANGED producing
  BY DEF Processing
<1>2. ASSUME NEW s \in Slot, NEW j \in Job, Take(s, j) \/ FailStalled(s, j)
      PROVE  UNCHANGED adds /\ \A k \in Job : state'[k] = "none" <=> state[k] = "none"
  BY <1>2 DEF Take, FailStalled
<1>3. ASSUME NEW s \in Slot, SendMail(s) \/ Settle(s) \/ Complete(s) \/ FailAttempt(s) \/ ResultRefused(s)
      PROVE  UNCHANGED adds /\ \A k \in Job : state'[k] = "none" <=> state[k] = "none"
  BY <1>3 DEF SendMail, Settle, Complete, FailAttempt, ResultRefused, Holds
<1>4. ASSUME NEW w \in Worker,
             \/ Exit(w) \/ Crash(w) \/ Drain(w) \/ Resume(w) \/ StopRequested(w)
             \/ StopWaiting(w) \/ Start(w)
      PROVE  UNCHANGED <<adds, state>>
  BY <1>4 DEF Exit, Crash, Drain, Resume, StopRequested, StopWaiting, Start
<1>5. ASSUME NEW j \in Job, Recover(j) \/ \E w \in Worker : DeadLetter(w, j)
      PROVE  UNCHANGED adds /\ \A k \in Job : state'[k] = "none" <=> state[k] = "none"
  BY <1>5 DEF Recover, Promote, LockExpires, RequeueStalled, DeadLetter
<1>6. ASSUME NEW s \in Slot, \/ MeteredSettle(s) \/ MeteredComplete(s) \/ MeteredFail(s) \/ Unmetered(s)
                             \/ \E j \in Job : MeteredTake(s, j)
      PROVE  UNCHANGED adds /\ \A k \in Job : state'[k] = "none" <=> state[k] = "none"
  BY <1>2, <1>3, <1>6 DEF MeteredSettle, MeteredComplete, MeteredFail, Unmetered, MeteredTake
<1>7. ASSUME NEW w \in Worker, Ends(w) \/ Operates(w)
      PROVE  UNCHANGED adds /\ \A k \in Job : state'[k] = "none" <=> state[k] = "none"
  BY <1>4, <1>7 DEF Ends, Operates
<1> QED
  BY <1>1, <1>5, <1>6, <1>7 DEF Processing

LEMMA StepAnswersInv ==
    QueueInv /\ AnswersInv /\ [Producing \/ Processing]_serviceVars => AnswersInv'
<1> SUFFICES ASSUME QueueInv, AnswersInv, [Producing \/ Processing]_serviceVars PROVE AnswersInv'
  OBVIOUS
<1> USE DEF QueueInv, TypeOK, AnswersInv, Answers
<1>1. CASE InitializeProducer \/ ResetBreaker
  BY <1>1 DEF InitializeProducer, ResetBreaker, vars, queue, bounds
<1>2. ASSUME NEW j \in Job, Call(j) PROVE AnswersInv'
  <2>1. UNCHANGED vars /\ UNCHANGED producer /\ caller[j] = "none"
    BY <1>2 DEF Call
  <2>2. UNCHANGED state /\ UNCHANGED adds
    BY <2>1 DEF vars, queue, bounds
  <2>3. CASE Admits
    <3>1. /\ caller' = [caller EXCEPT ![j] = "adding"] /\ flight' = flight \cup {j}
          /\ breaker' \in {"probing", breaker}
      BY <1>2, <2>3 DEF Call
    <3> QED
      BY <2>1, <2>2, <3>1
  <2>4. CASE ~Admits
    BY <1>2, <2>1, <2>2, <2>4 DEF Call
  <2> QED
    BY <2>3, <2>4
<1>3. ASSUME NEW j \in Job, Applied(j) PROVE AnswersInv'
  BY <1>3 DEF Applied, AddJob, Bump
<1>4. ASSUME NEW j \in Job, Lost(j) \/ Added(j) \/ AddFails(j) PROVE AnswersInv'
  BY <1>4 DEF Lost, Added, AddFails, vars, queue, bounds
<1>5. CASE Processing
  <2>1. UNCHANGED <<adds, producing>> /\ \A j \in Job : state'[j] = "none" <=> state[j] = "none"
    BY <1>5, ProcessingKeepsJobs
  <2> QED
    BY <2>1 DEF producing
<1>6. CASE UNCHANGED serviceVars
  BY <1>6 DEF serviceVars, vars, queue, bounds, producing
<1> QED
  BY <1>1, <1>2, <1>3, <1>4, <1>5, <1>6 DEF Producing

LEMMA AnswersInvariant == ServiceSpec => []AnswersInv
<1>1. InitService => AnswersInv
  BY DEF InitService, Init, AnswersInv
<1> QED
  BY <1>1, StepAnswersInv, ServiceIsQueue, QueueInvariant, PTL DEF ServiceSpec

\* addJob answers with a job only when the queue has it, and that it is unavailable only
\* when the queue has not and never will, whatever is lost, slow, crashes or comes late.
THEOREM AnswersAreTrue == ServiceSpec => []AnswersTrue
<1>1. AnswersInv => AnswersTrue
  BY DEF AnswersInv, AnswersTrue
<1> QED
  BY <1>1, AnswersInvariant, PTL

\* The slots of a worker can be counted, and one more or less counts.
LEMMA SlotsCount ==
    ASSUME NEW S \in SUBSET Slot, NEW s \in Slot
    PROVE  /\ Cardinality(S) \in Nat
           /\ s \notin S => Cardinality(S \cup {s}) = Cardinality(S) + 1
           /\ s \in S => Cardinality(S) > 0 /\ Cardinality(S \ {s}) = Cardinality(S) - 1
<1>1. IsFiniteSet(S) /\ Cardinality(S) \in Nat
  BY QueueAssumption, FS_Subset, FS_CardinalityType
<1>2. s \notin S => Cardinality(S \cup {s}) = Cardinality(S) + 1
  BY <1>1, FS_AddElement
<1>3. s \in S => Cardinality(S \ {s}) = Cardinality(S) - 1 /\ Cardinality(S \ {s}) \in Nat
  <2>1. IsFiniteSet(S \ {s})
    BY <1>1, FS_Subset
  <2> QED
    BY <1>1, <2>1, FS_RemoveElement, FS_CardinalityType
<1> QED
  BY <1>1, <1>2, <1>3

MetricsType == metrics \in [Worker -> [DOMAIN NoMetrics -> Nat]]

LEMMA MetricsAreNumbers ==
    ASSUME MetricsType, NEW w \in Worker
    PROVE  /\ metrics[w].processed \in Nat /\ metrics[w].completed \in Nat
           /\ metrics[w].failed \in Nat /\ metrics[w].active \in Nat
<1>1. \A k \in DOMAIN NoMetrics : metrics[w][k] \in Nat
  BY DEF MetricsType
<1>2. DOMAIN NoMetrics = {"processed", "completed", "failed", "active"}
  BY DEF NoMetrics
<1> QED
  BY <1>1, <1>2

\* What a step counts, at one worker.
LEMMA MeteredIs ==
    ASSUME MetricsType, NEW w \in Worker, NEW up, NEW down, Metered(w, up, down),
           "active" \in down => metrics[w].active > 0, down \subseteq {"active"}, up \cap down = {}
    PROVE  /\ MetricsType' /\ \A v \in Worker \ {w} : metrics'[v] = metrics[v]
           /\ metrics'[w].processed = metrics[w].processed + (IF "processed" \in up THEN 1 ELSE 0)
           /\ metrics'[w].completed = metrics[w].completed + (IF "completed" \in up THEN 1 ELSE 0)
           /\ metrics'[w].failed = metrics[w].failed + (IF "failed" \in up THEN 1 ELSE 0)
           /\ metrics'[w].active = metrics[w].active + (IF "active" \in up THEN 1 ELSE 0)
                                                     - (IF "active" \in down THEN 1 ELSE 0)
<1> DEFINE new == [k \in DOMAIN NoMetrics |-> metrics[w][k] + (IF k \in up THEN 1 ELSE 0)
                                                            - (IF k \in down THEN 1 ELSE 0)]
<1>1. metrics' = [metrics EXCEPT ![w] = new]
  BY DEF Metered
<1>2. DOMAIN NoMetrics = {"processed", "completed", "failed", "active"}
  BY DEF NoMetrics
<1>3. \A k \in DOMAIN NoMetrics : metrics[w][k] \in Nat
  BY DEF MetricsType
<1>4. \A k \in DOMAIN NoMetrics : new[k] \in Nat
  BY <1>2, <1>3
<1>5. /\ new.processed = metrics[w].processed + (IF "processed" \in up THEN 1 ELSE 0)
      /\ new.completed = metrics[w].completed + (IF "completed" \in up THEN 1 ELSE 0)
      /\ new.failed = metrics[w].failed + (IF "failed" \in up THEN 1 ELSE 0)
      /\ new.active = metrics[w].active + (IF "active" \in up THEN 1 ELSE 0)
                                        - (IF "active" \in down THEN 1 ELSE 0)
  BY <1>2, <1>3
<1>6. new \in [DOMAIN NoMetrics -> Nat]
  BY <1>4
<1> HIDE DEF new
<1> QED
  BY <1>1, <1>5, <1>6 DEF MetricsType

\* The consumers that run and the jobs that are taken, as the metrics count them: the
\* second only while no job was failed or given up by anybody else.
MetricsInv ==
    /\ MetricsType
    /\ \A w \in Worker :
         /\ metrics[w].active = Cardinality(Running(w))
         /\ Orderly => metrics[w].processed
                         = metrics[w].completed + metrics[w].failed + Cardinality(Busy(w))

LEMMA InitMetricsInv == InitService => MetricsInv
<1> SUFFICES ASSUME InitService PROVE MetricsInv
  OBVIOUS
<1>1. \A w \in Worker : Running(w) = {} /\ Busy(w) = {}
  BY DEF InitService, Init, Running, Busy, SlotsOf
<1>2. Cardinality({}) = 0
  BY FS_EmptySet
<1>3. /\ NoMetrics \in [DOMAIN NoMetrics -> Nat] /\ NoMetrics.processed = 0
      /\ NoMetrics.completed = 0 /\ NoMetrics.failed = 0 /\ NoMetrics.active = 0
  BY DEF NoMetrics
<1>4. MetricsType
  BY <1>3 DEF InitService, MetricsType
<1>5. \A w \in Worker : /\ metrics[w].processed = 0 /\ metrics[w].completed = 0
                       /\ metrics[w].failed = 0 /\ metrics[w].active = 0
  BY <1>3 DEF InitService
<1> QED
  BY <1>1, <1>2, <1>4, <1>5 DEF MetricsInv

\* A step that counts nothing and starts, ends and leaves no run.
LEMMA Uncounted ==
    ASSUME MetricsInv, UNCHANGED metrics, Orderly' => Orderly,
           \A w \in Worker : Running(w)' = Running(w) /\ (Orderly => Busy(w)' = Busy(w))
    PROVE  MetricsInv'
  BY DEF MetricsInv, MetricsType

\* A step that counts at one worker, and starts, ends and leaves runs of no other.
LEMMA Recounted ==
    ASSUME MetricsInv, NEW w \in Worker, MetricsType', Orderly' => Orderly,
           \A v \in Worker \ {w} : /\ metrics'[v] = metrics[v]
                                   /\ Running(v)' = Running(v) /\ Busy(v)' = Busy(v),
           metrics'[w].active = Cardinality(Running(w)'),
           Orderly => metrics'[w].processed
                        = metrics'[w].completed + metrics'[w].failed + Cardinality(Busy(w)')
    PROVE  MetricsInv'
<1>1. ASSUME NEW v \in Worker
      PROVE  /\ metrics'[v].active = Cardinality(Running(v)')
             /\ Orderly => metrics'[v].processed
                            = metrics'[v].completed + metrics'[v].failed + Cardinality(Busy(v)')
  <2>1. CASE v # w
    BY <2>1 DEF MetricsInv
  <2> QED
    BY <2>1
<1> QED
  BY <1>1 DEF MetricsInv

\* A job is taken, and counted in.
LEMMA TakeMetrics ==
    ASSUME QueueInv, MetricsInv, NEW s \in Slot, NEW j \in Job, MeteredTake(s, j)
    PROVE  MetricsInv'
<1> DEFINE w == WorkerOf[s]
<1>1. w \in Worker /\ {"processed", "active"} \cap {} = {}
  BY QueueAssumption
<1>2. /\ run[s] = None /\ run' = [run EXCEPT ![s] = j] /\ step' = [step EXCEPT ![s] = "start"]
      /\ UNCHANGED outages /\ Metered(w, {"processed", "active"}, {})
  BY DEF MeteredTake, Take, bounds
<1>3. /\ MetricsType' /\ \A v \in Worker \ {w} : metrics'[v] = metrics[v]
      /\ metrics'[w].processed = metrics[w].processed + 1 /\ metrics'[w].completed = metrics[w].completed
      /\ metrics'[w].failed = metrics[w].failed /\ metrics'[w].active = metrics[w].active + 1
  <2>1. MetricsType /\ metrics[w].active \in Nat
    BY <1>1, MetricsAreNumbers DEF MetricsInv
  <2>2. "active" \notin {} /\ {} \subseteq {"active"} /\ {"processed", "active"} \cap {} = {}
    OBVIOUS
  <2> HIDE DEF w
  <2>3. /\ MetricsType' /\ \A v \in Worker \ {w} : metrics'[v] = metrics[v]
        /\ metrics'[w].processed = metrics[w].processed + (IF "processed" \in {"processed", "active"} THEN 1 ELSE 0)
        /\ metrics'[w].completed = metrics[w].completed + (IF "completed" \in {"processed", "active"} THEN 1 ELSE 0)
        /\ metrics'[w].failed = metrics[w].failed + (IF "failed" \in {"processed", "active"} THEN 1 ELSE 0)
        /\ metrics'[w].active = metrics[w].active + (IF "active" \in {"processed", "active"} THEN 1 ELSE 0)
                                                  - (IF "active" \in {} THEN 1 ELSE 0)
    BY <1>1, <1>2, <2>1, <2>2, MeteredIs
  <2> QED
    BY <1>1, <2>1, <2>3, MetricsAreNumbers DEF MetricsInv
<1>4. s \notin Running(w) /\ s \notin Busy(w) /\ Running(w) \subseteq Slot /\ Busy(w) \subseteq Slot
  BY <1>2 DEF QueueInv, SlotsBusy, Running, Busy, SlotsOf
<1>5. /\ Running(w)' = Running(w) \cup {s} /\ Busy(w)' = Busy(w) \cup {s}
      /\ \A v \in Worker \ {w} : Running(v)' = Running(v) /\ Busy(v)' = Busy(v)
  <2>1. step[s] = "idle" /\ run'[s] = j /\ step'[s] = "start" /\ j # None
    BY <1>2, QueueAssumption DEF QueueInv, TypeOK, SlotsBusy
  <2>2. \A t \in Slot \ {s} : run'[t] = run[t] /\ step'[t] = step[t]
    BY <1>2 DEF QueueInv, TypeOK
  <2> QED
    BY <2>1, <2>2 DEF Running, Busy, SlotsOf
<1>6. /\ Cardinality(Running(w)') = Cardinality(Running(w)) + 1
      /\ Cardinality(Busy(w)') = Cardinality(Busy(w)) + 1
  BY <1>4, <1>5, SlotsCount
<1>7. Orderly' = Orderly
  BY <1>2 DEF Orderly
<1>8. /\ Cardinality(Busy(w)) \in Nat /\ metrics[w].completed \in Nat /\ metrics[w].failed \in Nat
  BY <1>1, <1>4, SlotsCount, MetricsAreNumbers DEF MetricsInv
<1> HIDE DEF w
<1>9. /\ metrics'[w].active = Cardinality(Running(w)')
      /\ Orderly => metrics'[w].processed
                     = metrics'[w].completed + metrics'[w].failed + Cardinality(Busy(w)')
  BY <1>1, <1>3, <1>6, <1>8 DEF MetricsInv
<1> QED
  BY <1>1, <1>3, <1>5, <1>7, <1>9, Recounted

\* A consumer ends, and is counted out.
LEMMA SettleMetrics ==
    ASSUME QueueInv, MetricsInv, NEW s \in Slot, MeteredSettle(s)
    PROVE  MetricsInv'
<1> DEFINE w == WorkerOf[s]
<1>1. w \in Worker
  BY QueueAssumption
<1>2. /\ step[s] \in {"start", "sent"} /\ UNCHANGED run /\ UNCHANGED outages
      /\ \E o \in {"ok", "error"} : step' = [step EXCEPT ![s] = o]
      /\ Metered(w, {}, {"active"})
  BY DEF MeteredSettle, Settle, Results, Left, bounds
<1>3. /\ s \in Running(w) /\ Running(w) \subseteq Slot
      /\ Running(w)' = Running(w) \ {s}
      /\ \A v \in Worker : Busy(v)' = Busy(v)
      /\ \A v \in Worker \ {w} : Running(v)' = Running(v)
  BY <1>1, <1>2 DEF QueueInv, TypeOK, Running, Busy, SlotsOf
<1> HIDE DEF w
<1>4. /\ Cardinality(Running(w)') = Cardinality(Running(w)) - 1
      /\ metrics[w].active = Cardinality(Running(w)) /\ metrics[w].active > 0
  BY <1>1, <1>3, SlotsCount DEF MetricsInv
<1>5. /\ MetricsType' /\ \A v \in Worker \ {w} : metrics'[v] = metrics[v]
      /\ metrics'[w].processed = metrics[w].processed /\ metrics'[w].completed = metrics[w].completed
      /\ metrics'[w].failed = metrics[w].failed /\ metrics'[w].active = metrics[w].active - 1
  <2>1. MetricsType /\ {"active"} \subseteq {"active"} /\ {} \cap {"active"} = {}
    BY DEF MetricsInv
  <2>2. /\ MetricsType' /\ \A v \in Worker \ {w} : metrics'[v] = metrics[v]
        /\ metrics'[w].processed = metrics[w].processed + (IF "processed" \in {} THEN 1 ELSE 0)
        /\ metrics'[w].completed = metrics[w].completed + (IF "completed" \in {} THEN 1 ELSE 0)
        /\ metrics'[w].failed = metrics[w].failed + (IF "failed" \in {} THEN 1 ELSE 0)
        /\ metrics'[w].active = metrics[w].active + (IF "active" \in {} THEN 1 ELSE 0)
                                                  - (IF "active" \in {"active"} THEN 1 ELSE 0)
    BY <1>1, <1>2, <1>4, <2>1, MeteredIs
  <2> QED
    BY <1>1, <2>1, <2>2, MetricsAreNumbers
<1>6. Orderly' = Orderly
  BY <1>2 DEF Orderly
<1>7. /\ metrics'[w].active = Cardinality(Running(w)')
      /\ Orderly => metrics'[w].processed
                     = metrics'[w].completed + metrics'[w].failed + Cardinality(Busy(w)')
  BY <1>1, <1>3, <1>4, <1>5 DEF MetricsInv
<1> QED
  BY <1>1, <1>3, <1>5, <1>6, <1>7, Recounted

\* A job is completed or failed by its run, and counted once.
LEMMA ResultMetrics ==
    ASSUME QueueInv, MetricsInv, NEW s \in Slot, NEW k \in {"completed", "failed"},
           Complete(s) \/ FailAttempt(s), Metered(WorkerOf[s], {k}, {})
    PROVE  MetricsInv'
<1> DEFINE w == WorkerOf[s]
<1>1. w \in Worker
  BY QueueAssumption
<1>2. /\ step[s] \in {"ok", "error"} /\ UNCHANGED outages
      /\ run' = [run EXCEPT ![s] = None] /\ step' = [step EXCEPT ![s] = "idle"]
  BY DEF Complete, FailAttempt, Release, bounds
<1>3. /\ s \in Busy(w) /\ Busy(w) \subseteq Slot
      /\ Busy(w)' = Busy(w) \ {s}
      /\ \A v \in Worker : Running(v)' = Running(v)
      /\ \A v \in Worker \ {w} : Busy(v)' = Busy(v)
  BY <1>1, <1>2 DEF QueueInv, TypeOK, SlotsBusy, Running, Busy, SlotsOf
<1>4. Metered(w, {k}, {})
  OBVIOUS
<1> HIDE DEF w
<1>5. Cardinality(Busy(w)') = Cardinality(Busy(w)) - 1 /\ Cardinality(Busy(w)) \in Nat
  BY <1>3, SlotsCount
<1>6. /\ MetricsType' /\ \A v \in Worker \ {w} : metrics'[v] = metrics[v]
      /\ metrics'[w].processed = metrics[w].processed
      /\ metrics'[w].completed + metrics'[w].failed = metrics[w].completed + metrics[w].failed + 1
      /\ metrics'[w].active = metrics[w].active
  <2>1. MetricsType /\ "active" \notin {} /\ {} \subseteq {"active"} /\ {k} \cap {} = {}
    BY DEF MetricsInv
  <2>2. /\ MetricsType' /\ \A v \in Worker \ {w} : metrics'[v] = metrics[v]
        /\ metrics'[w].processed = metrics[w].processed + (IF "processed" \in {k} THEN 1 ELSE 0)
        /\ metrics'[w].completed = metrics[w].completed + (IF "completed" \in {k} THEN 1 ELSE 0)
        /\ metrics'[w].failed = metrics[w].failed + (IF "failed" \in {k} THEN 1 ELSE 0)
        /\ metrics'[w].active = metrics[w].active + (IF "active" \in {k} THEN 1 ELSE 0)
                                                  - (IF "active" \in {} THEN 1 ELSE 0)
    BY <1>1, <1>4, <2>1, MeteredIs
  <2> QED
    BY <1>1, <2>1, <2>2, MetricsAreNumbers
<1>7. Orderly' = Orderly
  BY <1>2 DEF Orderly
<1>8. metrics'[w].active = Cardinality(Running(w)')
  BY <1>1, <1>3, <1>6 DEF MetricsInv
<1>9. Orderly => metrics'[w].processed
                  = metrics'[w].completed + metrics'[w].failed + Cardinality(Busy(w)')
  <2>1. MetricsType
    BY DEF MetricsInv
  <2> QED
    BY <1>1, <1>5, <1>6, <2>1, MetricsAreNumbers DEF MetricsInv
<1> QED
  BY <1>1, <1>3, <1>6, <1>7, <1>8, <1>9, Recounted

\* A job that stalled too often is failed without a run, which happens only when an
\* outage was out of order.
LEMMA StalledMetrics ==
    ASSUME QueueInv, OrderlyInv, MetricsInv, NEW s \in Slot, NEW j \in Job, FailStalled(s, j),
           Metered(WorkerOf[s], {"failed"}, {})
    PROVE  MetricsInv'
<1> DEFINE w == WorkerOf[s]
<1>1. w \in Worker /\ Metered(w, {"failed"}, {})
  BY QueueAssumption
<1>2. UNCHANGED run /\ UNCHANGED step /\ UNCHANGED outages
  BY DEF FailStalled, slots, bounds
<1>3. ~Orderly /\ Orderly' = Orderly
  BY <1>2, QueueAssumption DEF FailStalled, OrderlyInv, Orderly
<1>4. \A v \in Worker : Running(v)' = Running(v) /\ Busy(v)' = Busy(v)
  BY <1>2 DEF Running, Busy
<1> HIDE DEF w
<1>5. /\ MetricsType' /\ \A v \in Worker \ {w} : metrics'[v] = metrics[v]
      /\ metrics'[w].active = metrics[w].active
  <2>1. MetricsType /\ "active" \notin {} /\ {} \subseteq {"active"} /\ {"failed"} \cap {} = {}
    BY DEF MetricsInv
  <2>2. /\ MetricsType' /\ \A v \in Worker \ {w} : metrics'[v] = metrics[v]
        /\ metrics'[w].active = metrics[w].active + (IF "active" \in {"failed"} THEN 1 ELSE 0)
                                                  - (IF "active" \in {} THEN 1 ELSE 0)
    BY <1>1, <2>1, MeteredIs
  <2> QED
    BY <1>1, <2>1, <2>2, MetricsAreNumbers
<1>6. metrics'[w].active = Cardinality(Running(w)')
  BY <1>1, <1>4, <1>5 DEF MetricsInv
<1> QED
  BY <1>1, <1>3, <1>4, <1>5, <1>6, Recounted

\* A new process counts from nothing.
LEMMA EndMetrics ==
    ASSUME QueueInv, MetricsInv, NEW w \in Worker, Ends(w)
    PROVE  MetricsInv'
<1>1. /\ metrics' = [metrics EXCEPT ![w] = NoMetrics]
      /\ run' = [s \in Slot |-> IF WorkerOf[s] = w THEN None ELSE run[s]]
      /\ step' = [s \in Slot |-> IF WorkerOf[s] = w THEN "idle" ELSE step[s]]
  BY DEF Ends, Exit, Crash, ProcessEnds
<1>2. Orderly' => Orderly
  BY DEF Ends, Exit, Crash, Outage, Orderly, bounds, QueueInv, TypeOK
<1>3. /\ Running(w)' = {} /\ Busy(w)' = {}
      /\ \A v \in Worker \ {w} : Running(v)' = Running(v) /\ Busy(v)' = Busy(v)
  BY <1>1 DEF Running, Busy, SlotsOf
<1>4. /\ NoMetrics \in [DOMAIN NoMetrics -> Nat] /\ NoMetrics.processed = 0
      /\ NoMetrics.completed = 0 /\ NoMetrics.failed = 0 /\ NoMetrics.active = 0
  BY DEF NoMetrics
<1>5. /\ MetricsType' /\ \A v \in Worker \ {w} : metrics'[v] = metrics[v]
      /\ metrics'[w] = NoMetrics
  BY <1>1, <1>4 DEF MetricsInv, MetricsType
<1>6. Cardinality({}) = 0
  BY FS_EmptySet
<1>7. /\ metrics'[w].active = Cardinality(Running(w)')
      /\ metrics'[w].processed
           = metrics'[w].completed + metrics'[w].failed + Cardinality(Busy(w)')
  BY <1>3, <1>4, <1>5, <1>6
<1> QED
  BY <1>2, <1>3, <1>5, <1>7, Recounted

LEMMA StepMetricsInv ==
    QueueInv /\ OrderlyInv /\ MetricsInv /\ [Producing \/ Processing]_serviceVars => MetricsInv'
<1> SUFFICES ASSUME QueueInv, OrderlyInv, MetricsInv, [Producing \/ Processing]_serviceVars
             PROVE  MetricsInv'
  OBVIOUS
<1>1. ASSUME UNCHANGED <<run, step, metrics>>, Orderly' => Orderly PROVE MetricsInv'
  <2>1. \A w \in Worker : Running(w)' = Running(w) /\ Busy(w)' = Busy(w)
    BY <1>1 DEF Running, Busy
  <2> QED
    BY <1>1, <2>1, Uncounted
<1>2. CASE UNCHANGED serviceVars
  BY <1>1, <1>2 DEF serviceVars, vars, slots, bounds, Orderly
<1>3. CASE Producing
  BY <1>1, <1>3 DEF Producing, InitializeProducer, ResetBreaker, Call, Applied, Lost, Added, AddFails,
     AddJob, vars, slots, bounds, Orderly
<1>4. ASSUME NEW s \in Slot, NEW j \in Job, MeteredTake(s, j) PROVE MetricsInv'
  BY <1>4, TakeMetrics
<1>5. ASSUME NEW s \in Slot, MeteredSettle(s) \/ MeteredComplete(s) \/ MeteredFail(s) PROVE MetricsInv'
  BY <1>5, SettleMetrics, ResultMetrics, StalledMetrics DEF MeteredComplete, MeteredFail
<1>6. ASSUME NEW s \in Slot, Unmetered(s) PROVE MetricsInv'
  <2>1. CASE SendMail(s)
    <3>1. /\ step[s] = "start" /\ step' = [step EXCEPT ![s] = "sent"]
          /\ UNCHANGED <<run, outages, metrics>>
      BY <1>6, <2>1 DEF Unmetered, SendMail, bounds
    <3>2. \A w \in Worker : Running(w)' = Running(w) /\ Busy(w)' = Busy(w)
      BY <3>1 DEF Running, Busy, SlotsOf, QueueInv, TypeOK
    <3> QED
      BY <3>1, <3>2, Uncounted DEF Orderly
  <2>2. CASE ResultRefused(s)
    <3>1. /\ step[s] \in {"ok", "error"} /\ step' = [step EXCEPT ![s] = "idle"]
          /\ UNCHANGED outages /\ UNCHANGED metrics
      BY <1>6, <2>2 DEF Unmetered, ResultRefused, Release, bounds
    <3>2. ~Orderly
      <4>1. run[s] \in Job /\ s # None
        BY <3>1, QueueAssumption DEF QueueInv, TypeOK, SlotsBusy
      <4>2. Orderly => lock[run[s]] = s
        BY <4>1, QueueAssumption DEF OrderlyInv
      <4>3. lock[run[s]] = s => state[run[s]] = "active"
        BY <4>1 DEF QueueInv, LockedAreActive
      <4> QED
        BY <2>2, <4>2, <4>3 DEF ResultRefused, Holds
    <3>3. \A w \in Worker : Running(w)' = Running(w)
      BY <3>1 DEF Running, SlotsOf, QueueInv, TypeOK
    <3> QED
      BY <3>1, <3>2, <3>3, Uncounted DEF Orderly
  <2> QED
    BY <1>6, <2>1, <2>2 DEF Unmetered
<1>7. ASSUME NEW w \in Worker, Operates(w) PROVE MetricsInv'
  <2>1. UNCHANGED <<run, step, metrics>>
    BY <1>7 DEF Operates, Drain, Resume, StopRequested, StopWaiting, Start, slots
  <2>2. Orderly' => Orderly
    BY <1>7 DEF Operates, Drain, Resume, StopRequested, StopWaiting, Start, Outage, Orderly, bounds,
       QueueInv, TypeOK
  <2> QED
    BY <1>1, <2>1, <2>2
<1>8. ASSUME NEW j \in Job, Recover(j) \/ \E w \in Worker : DeadLetter(w, j), UNCHANGED metrics
      PROVE  MetricsInv'
  BY <1>1, <1>8 DEF Recover, Promote, LockExpires, RequeueStalled, DeadLetter, slots, bounds, Orderly
<1> QED
  BY <1>2, <1>3, <1>4, <1>5, <1>6, <1>7, <1>8, EndMetrics DEF Processing

LEMMA MetricsInvariant == ServiceSpec => []MetricsInv
  BY InitMetricsInv, StepMetricsInv, ServiceIsQueue, QueueInvariant, OrderlyInvariant, PTL DEF ServiceSpec

\* The rounded percentages of two parts of a whole are parts of a hundred.
LEMMA Percentages ==
    ASSUME NEW p \in Nat, NEW c \in Nat, NEW f \in Nat, p > 0, c + f <= p
    PROVE  (100 * c) \div p + (100 * f) \div p \in 0..100
<1> DEFINE q == (100 * c) \div p
           r == (100 * f) \div p
<1>1. q \in Nat /\ q * p <= 100 * c
  OBVIOUS
<1>2. r \in Nat /\ r * p <= 100 * f
  OBVIOUS
<1> HIDE DEF q, r
<1>3. (q + r) * p <= 100 * p
  BY <1>1, <1>2
<1>4. q + r <= 100
  BY <1>1, <1>2, <1>3
<1> QED
  BY <1>1, <1>2, <1>4 DEF q, r

\* ServiceInv, whatever is slow or lost on the way to the queue: addJob answers true, and
\* the metrics of each processor add up, as long as no process crashes and every live
\* worker renews its locks.
THEOREM ServiceInvariant ==
    ASSUME ~LocksMayExpire, "crash" \notin Outages
    PROVE  ServiceSpec => []ServiceInv
<1>1. QueueInv /\ AnswersInv /\ MetricsInv => ServiceInv
  <2> SUFFICES ASSUME QueueInv, AnswersInv, MetricsInv PROVE ServiceInv
    OBVIOUS
  <2>1. ServiceTypeOK /\ AnswersTrue
    BY DEF AnswersInv, MetricsInv, MetricsType, ServiceTypeOK, AnswersTrue
  <2>2. ASSUME NEW w \in Worker
        PROVE  /\ metrics[w].active = Cardinality(Running(w))
               /\ metrics[w].processed = metrics[w].completed + metrics[w].failed + Cardinality(Busy(w))
    BY DEF MetricsInv, Orderly
  <2>3. ASSUME NEW w \in Worker PROVE Rate(w, "completed") + Rate(w, "failed") \in 0..100
    <3>1. /\ metrics[w].processed \in Nat /\ metrics[w].completed \in Nat /\ metrics[w].failed \in Nat
          /\ Cardinality(Busy(w)) \in Nat
      <4>1. MetricsType /\ IsFiniteSet(Busy(w))
        BY QueueAssumption, FS_Subset DEF MetricsInv, Busy, SlotsOf
      <4> QED
        BY <4>1, MetricsAreNumbers, FS_CardinalityType
    <3>2. metrics[w].completed + metrics[w].failed <= metrics[w].processed
      BY <2>2, <3>1
    <3>3. CASE metrics[w].processed > 0
      <4>1. (100 * metrics[w].completed) \div metrics[w].processed
              + (100 * metrics[w].failed) \div metrics[w].processed \in 0..100
        BY <3>1, <3>2, <3>3, Percentages
      <4> QED
        BY <3>3, <4>1 DEF Rate
    <3>4. CASE ~(metrics[w].processed > 0)
      BY <3>4 DEF Rate
    <3> QED
      BY <3>3, <3>4
  <2> QED
    BY <2>1, <2>2, <2>3 DEF ServiceInv, MetricsAddUp, RatesAreParts
<1> QED
  BY <1>1, ServiceIsQueue, QueueInvariant, AnswersInvariant, MetricsInvariant, PTL
=============================================================================
