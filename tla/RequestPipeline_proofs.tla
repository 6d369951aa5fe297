----------------------- MODULE RequestPipeline_proofs -----------------------
(***************************************************************************)
(* The safety properties of RequestPipeline for any requests, connections  *)
(* and limits.                                                             *)
(***************************************************************************)
EXTENDS RequestPipeline, TLAPS

LEMMA InitPipeline == Init => PipelineInv
  BY PipelineAssumption
  DEF Init, PipelineInv, TypeOK, CountedByRoute, LateIsAnswered, LimitsHold, Sent, Waiting, Limiter

-----------------------------------------------------------------------------
(* Answers *)

\* What next(err) and res.status() may do to the answers: nobody's answer changes but
\* that of the request, which has one afterwards, and what was sent stays.
Answers(r) ==
    /\ reply' \in [Request -> {"none", "2xx", "404", "409", "422", "429", "500", "503"}]
    /\ walked' \in [Request -> BOOLEAN]
    /\ closed' \subseteq Connection
    /\ \A q \in Request \ {r} : reply'[q] = reply[q] /\ walked'[q] = walked[q]
    /\ Sent(r)' /\ (walked[r] => walked'[r])
    /\ Sent(r) => reply'[r] = reply[r]

LEMMA RaiseAnswers ==
  ASSUME TypeOK, LateIsAnswered, NEW r \in Request, NEW err, Raise(r, err)
  PROVE  Answers(r) /\ walked'[r]
<1>1. Status(err) \in {"404", "409", "422", "500", "503"}
  BY DEF Status
<1>2. CASE walked[r]
  BY <1>2, PipelineAssumption DEF Raise, Destroy, Answers, TypeOK, LateIsAnswered, Sent
<1>3. CASE ~walked[r]
  BY <1>1, <1>3 DEF Raise, Answers, TypeOK, Sent
<1> QED
  BY <1>2, <1>3

LEMMA RespondAnswers ==
  ASSUME TypeOK, LateIsAnswered, NEW r \in Request, Respond(r, "2xx")
  PROVE  Answers(r)
<1>1. CASE Sent(r)
  BY <1>1, RaiseAnswers DEF Respond
<1>2. CASE ~Sent(r)
  BY <1>2 DEF Respond, Answers, TypeOK, Sent
<1> QED
  BY <1>1, <1>2

\* A request that is answered and over keeps to the invariant, whatever answered it.
LEMMA AnsweredAndOver ==
  ASSUME PipelineInv, NEW r \in Request, Over(r), Answers(r), UNCHANGED <<route, expired>>
  PROVE  /\ at' \in [Request -> {"new", "over"} \cup Waiting]
         /\ CountedByRoute' /\ LateIsAnswered'
  BY DEF PipelineInv, TypeOK, CountedByRoute, LateIsAnswered, Over, Answers, Sent, Waiting, Limiter

LEMMA CountersKept ==
  ASSUME PipelineInv, UNCHANGED counters
  PROVE  /\ LimitsHold'
         /\ hits' \in [Limiter -> Nat] /\ late' \in [Limiter -> Nat] /\ admitted' \in [Limiter -> Nat]
         /\ window' \in Nat
  BY DEF PipelineInv, TypeOK, LimitsHold, counters

-----------------------------------------------------------------------------
(* The steps *)

LEMMA ArriveKeeps ==
  ASSUME PipelineInv, NEW r \in Request, Arrive(r)
  PROVE  PipelineInv'
<1>1. CASE at' = [at EXCEPT ![r] = "body"] /\ UNCHANGED <<reply, walked, closed>>
  BY <1>1, CountersKept
  DEF Arrive, PipelineInv, TypeOK, CountedByRoute, LateIsAnswered, Sent, Waiting, Limiter
<1>2. CASE Over(r) /\ (Respond(r, "2xx") \/ Raise(r, "cors"))
  <2>1. Answers(r)
    BY <1>2, RespondAnswers, RaiseAnswers DEF PipelineInv
  <2> QED
    BY <1>2, <2>1, AnsweredAndOver, CountersKept DEF Arrive, PipelineInv, TypeOK, Answers
<1> QED
  BY <1>1, <1>2 DEF Arrive, Cors

LEMMA ParseKeeps ==
  ASSUME PipelineInv, NEW r \in Request, Parse(r)
  PROVE  PipelineInv'
<1>1. CASE /\ at' = [at EXCEPT ![r] = IF walked[r] THEN "over" ELSE Version(r)]
           /\ UNCHANGED <<reply, walked, closed>>
  BY <1>1, CountersKept
  DEF Parse, Version, PipelineInv, TypeOK, CountedByRoute, LateIsAnswered, Sent, Waiting, Limiter
<1>2. CASE Over(r) /\ Raise(r, "body")
  <2>1. Answers(r)
    BY <1>2, RaiseAnswers DEF PipelineInv
  <2> QED
    BY <1>2, <2>1, AnsweredAndOver, CountersKept DEF Parse, PipelineInv, TypeOK, Answers
<1> QED
  BY <1>1, <1>2 DEF Parse

\* The timeout speaks only while nothing was sent, so that it is the one to walk the chain.
LEMMA TimeoutKeeps ==
  ASSUME PipelineInv, NEW r \in Request, Timeout(r)
  PROVE  PipelineInv'
<1>1. ~walked[r] /\ Status("timeout") = "500"
  BY DEF Timeout, PipelineInv, LateIsAnswered, Status
<1>2. /\ walked' = [walked EXCEPT ![r] = TRUE] /\ reply' = [reply EXCEPT ![r] = "500"]
      /\ UNCHANGED closed
  BY <1>1 DEF Timeout, Raise
<1> QED
  BY <1>2, CountersKept
  DEF Timeout, Overdue, PipelineInv, TypeOK, CountedByRoute, LateIsAnswered, Sent, Waiting, Limiter

LEMMA CountKeeps ==
  ASSUME PipelineInv, NEW r \in Request, NEW l \in Limiter, Count(r, l)
  PROVE  PipelineInv'
<1>1. hits' \in [Limiter -> Nat] /\ admitted' \in [Limiter -> Nat]
  BY DEF Count, PipelineInv, TypeOK
<1>2. LimitsHold'
  <2> SUFFICES ASSUME NEW k \in Limiter PROVE admitted'[k] <= hits'[k] /\ admitted'[k] <= Max[k]
    BY DEF LimitsHold
  <2>1. /\ hits[k] \in Nat /\ admitted[k] \in Nat /\ Max[k] \in Nat
        /\ admitted[k] <= hits[k] /\ admitted[k] <= Max[k]
    BY PipelineAssumption DEF PipelineInv, TypeOK, LimitsHold
  <2>2. hits'[k] = IF k = l THEN hits[k] + 1 ELSE hits[k]
    BY DEF Count, PipelineInv, TypeOK
  <2>3. CASE hits[l] < Max[l]
    <3>1. admitted'[k] = IF k = l THEN admitted[k] + 1 ELSE admitted[k]
      BY <2>3 DEF Count, PipelineInv, TypeOK
    <3> QED
      BY <2>1, <2>2, <2>3, <3>1
  <2>4. CASE ~(hits[l] < Max[l])
    BY <2>1, <2>2, <2>4 DEF Count
  <2> QED
    BY <2>3, <2>4
<1>3. CASE hits[l] < Max[l]
  BY <1>1, <1>2, <1>3
  DEF Count, Pass, PipelineInv, TypeOK, CountedByRoute, LateIsAnswered, Sent, Waiting, Limiter
<1>4. CASE ~(hits[l] < Max[l])
  <2>1. Over(r) /\ Answers(r)
    BY <1>4 DEF Count, Answers, PipelineInv, TypeOK, Sent
  <2> QED
    BY <1>1, <1>2, <2>1, AnsweredAndOver DEF Count, PipelineInv, TypeOK, Answers
<1> QED
  BY <1>3, <1>4

LEMMA CountFailsKeeps ==
  ASSUME PipelineInv, NEW r \in Request, NEW l \in Limiter, CountFails(r, l)
  PROVE  PipelineInv'
<1>1. Over(r) /\ Answers(r)
  BY RaiseAnswers DEF CountFails, Refuse, PipelineInv
<1>2. late' \in [Limiter -> Nat] /\ LimitsHold'
  BY DEF CountFails, Refuse, PipelineInv, TypeOK, LimitsHold
<1> QED
  BY <1>1, <1>2, AnsweredAndOver DEF CountFails, Refuse, PipelineInv, TypeOK, Answers

LEMMA FinishKeeps ==
  ASSUME PipelineInv, NEW r \in Request, Finish(r)
  PROVE  PipelineInv'
<1>1. Over(r) /\ Answers(r)
  BY RespondAnswers, RaiseAnswers DEF Finish, Failed, PipelineInv
<1> QED
  BY <1>1, AnsweredAndOver, CountersKept DEF Finish, PipelineInv, TypeOK, Answers

\* Redis' own steps disturb nothing but the counters, and these upwards.
LEMMA RedisKeeps ==
  ASSUME PipelineInv, NextWindow \/ \E l \in Limiter : CountsLate(l)
  PROVE  PipelineInv'
<1>1. hits' \in [Limiter -> Nat] /\ admitted' \in [Limiter -> Nat] /\ late' \in [Limiter -> Nat]
      /\ window' \in Nat /\ LimitsHold'
  BY PipelineAssumption DEF NextWindow, CountsLate, PipelineInv, TypeOK, LimitsHold
<1>2. UNCHANGED <<at, route, reply, walked, expired, closed>>
  BY DEF NextWindow, CountsLate
<1> QED
  BY <1>1, <1>2 DEF PipelineInv, TypeOK, CountedByRoute, LateIsAnswered, Sent

\* PipelineInv: no limiter lets more requests pass in a window than its maximum,
\* whatever becomes of the store, and whoever goes on after an answer was told 500 by
\* the timeout (apps/api/src/app.ts).
THEOREM PipelineInvariant == Spec => []PipelineInv
<1>1. PipelineInv /\ [Next]_vars => PipelineInv'
  <2> SUFFICES ASSUME PipelineInv, [Next]_vars PROVE PipelineInv'
    OBVIOUS
  <2>1. CASE UNCHANGED vars
    BY <2>1 DEF vars, PipelineInv, TypeOK, CountedByRoute, LateIsAnswered, LimitsHold, Sent
  <2> QED
    BY <2>1, ArriveKeeps, ParseKeeps, TimeoutKeeps, CountKeeps, CountFailsKeeps, FinishKeeps,
       RedisKeeps DEF Next
<1> QED
  BY InitPipeline, <1>1, PTL DEF Spec

-----------------------------------------------------------------------------
(* Connections *)

\* What destroys a connection is a second walk of the chain by the request itself.
LEMMA RaiseDestroys ==
  ASSUME NEW r \in Request, NEW err, Raise(r, err)
  PROVE  closed' = closed \/ (walked[r] /\ closed' = closed \cup {ConnectionOf[r]})
<1>1. CASE walked[r]
  BY <1>1 DEF Raise, Destroy
<1>2. CASE ~walked[r]
  BY <1>2 DEF Raise
<1> QED
  BY <1>1, <1>2

LEMMA EndsDestroy ==
  ASSUME PipelineInv, NEW r \in Request, at[r] # "over", Over(r),
         Respond(r, "2xx") \/ \E err : Raise(r, err)
  PROVE  \A c \in closed' \ closed :
           \E q \in Request : /\ ConnectionOf[q] = c /\ expired[q] /\ reply[q] = "500"
                              /\ at[q] # "over" /\ at'[q] = "over"
<1>1. closed' = closed \/ (walked[r] /\ closed' = closed \cup {ConnectionOf[r]})
  <2>1. CASE Respond(r, "2xx") /\ ~Sent(r)
    BY <2>1 DEF Respond
  <2>2. CASE \E err : Raise(r, err)
    BY <2>2, RaiseDestroys
  <2> QED
    BY <2>1, <2>2 DEF Respond
<1>2. walked[r] => expired[r] /\ reply[r] = "500"
  BY DEF PipelineInv, TypeOK, LateIsAnswered, Waiting
<1>3. at'[r] = "over"
  BY DEF Over, PipelineInv, TypeOK
<1> QED
  BY <1>1, <1>2, <1>3

\* ClosedByTheLate: Express destroys a connection only under a request that timed out,
\* was told 500 and ends now.
THEOREM OnlyTheLateClose == Spec => ClosedByTheLate
<1> DEFINE D == \A c \in closed' \ closed :
         \E r \in Request : /\ ConnectionOf[r] = c /\ expired[r] /\ reply[r] = "500"
                            /\ at[r] # "over" /\ at'[r] = "over"
<1>1. PipelineInv /\ [Next]_vars => [D]_vars
  <2> SUFFICES ASSUME PipelineInv, Next PROVE D
    BY DEF vars
  <2>1. ASSUME NEW r \in Request, Arrive(r) PROVE D
    BY <2>1, EndsDestroy DEF Arrive, Cors
  <2>2. ASSUME NEW r \in Request, Parse(r) PROVE D
    BY <2>2, EndsDestroy DEF Parse
  <2>3. ASSUME NEW r \in Request, Timeout(r) PROVE D
    BY <2>3 DEF Timeout, Raise, PipelineInv, LateIsAnswered
  <2>4. ASSUME NEW r \in Request, NEW l \in Limiter, CountFails(r, l) PROVE D
    BY <2>4, EndsDestroy DEF CountFails, Refuse, Limiter
  <2>5. ASSUME NEW r \in Request, Finish(r) PROVE D
    BY <2>5, EndsDestroy DEF Finish, Failed
  <2>6. ASSUME NEW r \in Request, NEW l \in Limiter, Count(r, l) PROVE D
    BY <2>6 DEF Count
  <2>7. ASSUME NextWindow \/ \E l \in Limiter : CountsLate(l) PROVE D
    BY <2>7 DEF NextWindow, CountsLate
  <2> QED
    BY <2>1, <2>2, <2>3, <2>4, <2>5, <2>6, <2>7 DEF Next
<1> QED
  BY PipelineInvariant, <1>1, PTL DEF Spec, ClosedByTheLate
=============================================================================
