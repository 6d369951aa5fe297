--------------------------- MODULE RequestPipeline --------------------------
(***************************************************************************)
(* The Express application of the API: a request passes the timeout, CORS, *)
(* the body parsers, the rate limiters and its handler, and errors go down *)
(* the chain to errorHandler.  connect-timeout, Express, its body parsers  *)
(* and the limiter's Redis store are modelled from how app.ts uses them:   *)
(* next(err) walks what is left of the application's chain, once.          *)
(* Requests share keep-alive connections, on each of which the client      *)
(* sends one after the other.                                              *)
(***************************************************************************)
EXTENDS Integers, FiniteSets

CONSTANTS
    Request,
    Connection,
    ConnectionOf, \* the connection each request is sent on
    Max,          \* Max["api"], Max["auth"]: requests per window
    MaxWindows    \* bound on the windows

Limiter == {"api", "auth"}

ASSUME PipelineAssumption ==
    /\ ConnectionOf \in [Request -> Connection]
    /\ Max \in [Limiter -> Nat] /\ MaxWindows \in Nat

VARIABLES
    at,       \* new, where the request waits (body, api, auth, handler), or over
    route,    \* auth: /api/v1/auth, api: the rest of /api, root: probes and webhooks
    reply,    \* status that was written, or none
    walked,   \* the chain of error handlers has been walked
    expired,  \* the timeout fired
    closed,   \* connections the server destroyed
    hits,     \* the counters in Redis
    late,     \* increments whose call timed out and which Redis may still execute
    admitted, \* requests each limiter let pass in this window
    window

vars == <<at, route, reply, walked, expired, closed, hits, late, admitted, window>>

Waiting == {"body", "api", "auth", "handler"}

Init ==
    /\ at = [r \in Request |-> "new"]
    /\ route \in [Request -> {"auth", "api", "root"}]
    /\ reply = [r \in Request |-> "none"]
    /\ walked = [r \in Request |-> FALSE]
    /\ expired = [r \in Request |-> FALSE]
    /\ closed = {}
    /\ hits = [l \in Limiter |-> 0]
    /\ late = [l \in Limiter |-> 0]
    /\ admitted = [l \in Limiter |-> 0]
    /\ window = 1

counters == <<hits, late, admitted, window>>

-----------------------------------------------------------------------------
(* Answers *)

Open(r) == ConnectionOf[r] \notin closed
Sent(r) == reply[r] # "none"

\* What errorHandler answers: an HttpError or BaseError its own status, Mongoose's
\* errors 422 and 409, and anything else 500: the 503 of connect-timeout and the 400
\* of the body parsers are not HttpErrors of this code.  timeoutErrorHandler has three parameters, and Express
\* calls no such handler for an error.
Status(err) ==
    CASE err \in {"404", "409", "422", "503"} -> err
      [] err = "mongoDuplicate" -> "409"
      [] err = "mongoValidation" -> "422"
      [] OTHER -> "500"

Destroy(r) == closed' = closed \cup {ConnectionOf[r]}

\* next(err): the rest of the chain answers.  When it was walked before, Express's
\* last handler finds that the headers are sent and destroys the socket.
Raise(r, err) ==
    IF walked[r] THEN Destroy(r) /\ UNCHANGED <<reply, walked>>
    ELSE /\ walked' = [walked EXCEPT ![r] = TRUE]
         /\ reply' = IF Sent(r) THEN reply ELSE [reply EXCEPT ![r] = Status(err)]
         /\ UNCHANGED closed

\* res.status().json(): throws when the headers are sent, and what the handler
\* throws is passed to next.
Respond(r, status) ==
    IF Sent(r) THEN Raise(r, "headersSent")
    ELSE reply' = [reply EXCEPT ![r] = status] /\ UNCHANGED <<walked, closed>>

-----------------------------------------------------------------------------
(* Requests *)

Previous(r) == {q \in Request : ConnectionOf[q] = ConnectionOf[r] /\ at[q] # "new"}

Over(r) == at' = [at EXCEPT ![r] = "over"]

\* cors() lets the request through, answers a preflight, or passes on the error of
\* an origin that is not allowed.
Cors(r) ==
    \/ at' = [at EXCEPT ![r] = "body"] /\ UNCHANGED <<reply, walked, closed>>
    \/ Over(r) /\ (Respond(r, "2xx") \/ Raise(r, "cors"))

Arrive(r) ==
    /\ at[r] = "new" /\ Open(r)
    /\ \A q \in Previous(r) : Sent(q)
    /\ Cors(r)
    /\ UNCHANGED <<route, expired, counters>>

\* apiVersionMiddleware names the version of what is under /api.
Version(r) == IF route[r] = "root" THEN "handler" ELSE "api"

\* The body has arrived and is parsed, or it is broken off, malformed or too large.
Parse(r) ==
    /\ at[r] = "body"
    /\ \/ /\ at' = [at EXCEPT ![r] = IF walked[r] THEN "over" ELSE Version(r)]
          /\ UNCHANGED <<reply, walked, closed>>
       \/ Over(r) /\ Raise(r, "body")
    /\ UNCHANGED <<route, expired, counters>>

\* Mutant: the timer is cleared when the request has passed the limiters.
Overdue_BeforeHandler(r) == at[r] \in {"body", "api", "auth"}
Overdue(r) == at[r] \in Waiting

Timeout(r) ==
    /\ Overdue(r) /\ ~Sent(r) /\ ~expired[r]
    /\ expired' = [expired EXCEPT ![r] = TRUE]
    /\ Raise(r, "timeout")
    /\ UNCHANGED <<at, route, counters>>

\* next() of a limiter.  That of apiLimiter belongs to the application's chain, of
\* which nothing is left once an error has walked it; that of authLimiter belongs
\* to the router, which goes on to the handler.
Pass(r, l) ==
    IF l = "api"
    THEN at' = [at EXCEPT ![r] = IF walked[r] THEN "over"
                                 ELSE IF route[r] = "auth" THEN "auth" ELSE "handler"]
    ELSE at' = [at EXCEPT ![r] = "handler"]

\* The store counts the request: within the limit it goes on, over it it is answered
\* 429 unless it was answered before.
Count(r, l) ==
    /\ at[r] = l
    /\ hits' = [hits EXCEPT ![l] = @ + 1]
    /\ IF hits[l] < Max[l]
       THEN /\ Pass(r, l) /\ UNCHANGED reply
            /\ admitted' = [admitted EXCEPT ![l] = @ + 1]
       ELSE /\ Over(r) /\ UNCHANGED admitted
            /\ reply' = IF Sent(r) THEN reply ELSE [reply EXCEPT ![r] = "429"]
    /\ UNCHANGED <<route, walked, expired, closed, late, window>>

\* Mutant: the limiter lets pass what the store could not count.
Refuse_Pass(r, l) ==
    /\ Pass(r, l) /\ UNCHANGED <<reply, walked, closed>>
    /\ admitted' = [admitted EXCEPT ![l] = @ + 1]
\* redis.call is a critical command, whose error the proxy throws.
Refuse(r, l) == Over(r) /\ Raise(r, "redis") /\ UNCHANGED admitted

\* The proxy's breaker answers for Redis: the increment was not sent, or is still
\* on its way.
CountFails(r, l) ==
    /\ at[r] = l
    /\ Refuse(r, l)
    /\ late' \in {late, [late EXCEPT ![l] = @ + 1]}
    /\ UNCHANGED <<route, expired, hits, window>>

CountsLate(l) ==
    /\ late[l] > 0
    /\ late' = [late EXCEPT ![l] = @ - 1] /\ hits' = [hits EXCEPT ![l] = @ + 1]
    /\ UNCHANGED <<at, route, reply, walked, expired, closed, admitted, window>>

\* The counters expire.
NextWindow ==
    /\ window < MaxWindows /\ window' = window + 1
    /\ hits' = [l \in Limiter |-> 0] /\ admitted' = [l \in Limiter |-> 0]
    /\ UNCHANGED <<at, route, reply, walked, expired, closed, late>>

-----------------------------------------------------------------------------
(* Handlers *)

\* Mutant: a controller that passes its error on answers as well.
Failed_Answers(r, err) ==
    /\ walked' = [walked EXCEPT ![r] = TRUE]
    /\ reply' = IF Sent(r) THEN reply ELSE [reply EXCEPT ![r] = Status(err)]
    /\ Destroy(r)
\* catch (error) { next(error) }
Failed(r, err) == Raise(r, err)

HandlerErrors == {"404", "409", "422", "503", "mongoDuplicate", "mongoValidation", "other"}

\* A handler ends, in time or after the timeout; it may never.
Finish(r) ==
    /\ at[r] = "handler" /\ Over(r)
    /\ \/ Respond(r, "2xx")
       \/ \E err \in HandlerErrors : Failed(r, err)
    /\ UNCHANGED <<route, expired, counters>>

Next ==
    \/ \E r \in Request :
         \/ Arrive(r) \/ Parse(r) \/ Timeout(r) \/ Finish(r)
         \/ \E l \in Limiter : Count(r, l) \/ CountFails(r, l)
    \/ \E l \in Limiter : CountsLate(l)
    \/ NextWindow

\* Only the timer is sure to fire.
Spec == Init /\ [][Next]_vars /\ \A r \in Request : WF_vars(Timeout(r))

-----------------------------------------------------------------------------
(* Properties *)

TypeOK ==
    /\ at \in [Request -> {"new", "over"} \cup Waiting]
    /\ route \in [Request -> {"auth", "api", "root"}]
    /\ reply \in [Request -> {"none", "2xx", "404", "409", "422", "429", "500", "503"}]
    /\ walked \in [Request -> BOOLEAN] /\ expired \in [Request -> BOOLEAN]
    /\ closed \subseteq Connection
    /\ hits \in [Limiter -> Nat] /\ late \in [Limiter -> Nat] /\ admitted \in [Limiter -> Nat]
    /\ window \in Nat

\* Only what is under /api is counted, and by authLimiter only its own routes.
CountedByRoute ==
    \A r \in Request : at[r] \in Limiter => route[r] # "root" /\ (at[r] = "auth" => route[r] = "auth")

\* Whoever waits and has been answered is late: the timeout walked the chain and
\* told 500.  No request is answered before it arrives, none walks the chain unheard.
LateIsAnswered ==
    \A r \in Request :
        /\ at[r] = "new" => ~Sent(r)
        /\ walked[r] => Sent(r)
        /\ expired[r] => walked[r] /\ at[r] # "new" /\ reply[r] = "500"
        /\ at[r] \in Waiting /\ Sent(r) => expired[r]

\* A counter may be too high (an increment that is executed after its request was
\* refused), never too low.
LimitsHold == \A l \in Limiter : admitted[l] <= hits[l] /\ admitted[l] <= Max[l]

\* The limits hold whatever becomes of Redis: in no window does a limiter let more
\* requests pass than its maximum.  And a request goes on after its answer only when
\* the timeout gave it.
PipelineInv == TypeOK /\ CountedByRoute /\ LateIsAnswered /\ LimitsHold

\* A destroyed connection is the trace of a request that timed out: without one no
\* client loses the answer to a request, and the one who does had been told 500.
ClosedByTheLate ==
    [][\A c \in closed' \ closed :
         \E r \in Request : /\ ConnectionOf[r] = c /\ expired[r] /\ reply[r] = "500"
                            /\ at[r] # "over" /\ at'[r] = "over"]_vars

\* Every request is answered or loses its connection, though its body may never
\* arrive, and its handler or the limiter's Redis never return.
EveryRequestEnds == \A r \in Request : at[r] \in Waiting ~> Sent(r) \/ ~Open(r)
=============================================================================
