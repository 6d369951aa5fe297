---------------------------- MODULE EmailService ----------------------------
(***************************************************************************)
(* EmailService around its sends: initialize(), the verification mail that *)
(* is composed before each send, and the statistics that the breaker's     *)
(* events keep.  Every step is one of EmailDelivery with what it does to   *)
(* the service, or one of the service alone.                               *)
(***************************************************************************)
EXTENDS EmailDelivery, FiniteSets

\* The statistics count calls.
ASSUME ServiceAssumption == IsFiniteSet(Call)

VARIABLES
    service,   \* how far initialize() has come
    template,  \* the verification template is compiled and in the cache
    prep,      \* the composing of each call's mail
    stats,     \* circuitBreakerStats
    openSince  \* circuitOpenTimestamp is not null

compose == <<service, template, prep>>
counts == <<stats, openSince>>
serviceVars == <<vars, compose, counts>>

NoStats == [fires |-> 0, successes |-> 0, failures |-> 0, timeouts |-> 0, rejects |-> 0]

ServiceTypeOK ==
    /\ service \in {"down", "templates", "up", "failed"}
    /\ template \in BOOLEAN /\ openSince \in BOOLEAN
    /\ prep \in [Call -> {"none", "compiling", "ready", "refused"}]
    /\ stats \in [DOMAIN NoStats -> 0..Cardinality(Call)]

InitService ==
    /\ Init
    /\ service = "down" /\ template = FALSE
    /\ prep = [c \in Call |-> "none"]
    /\ stats = NoStats /\ openSince = FALSE

-----------------------------------------------------------------------------
(* initialize() *)

\* A read of the template files fails.
Unreadable == Fault("files")

InitializeTemplates ==
    /\ service = "down"
    /\ \/ service' = "templates"
       \/ Unreadable /\ service' = "failed"
    /\ UNCHANGED <<vars, template, prep, counts>>

InitializeProviders ==
    /\ service = "templates"
    /\ service' = IF Provider = {} THEN "failed" ELSE "up"
    /\ UNCHANGED <<vars, template, prep, counts>>

-----------------------------------------------------------------------------
(* sendVerificationEmail() *)

Prepared(c, step) == prep' = [prep EXCEPT ![c] = step]

Prepare(c) ==
    /\ service = "up" /\ prep[c] = "none"
    /\ Prepared(c, IF template THEN "ready" ELSE "compiling")
    /\ UNCHANGED <<vars, service, template, counts>>

\* The first calls compile the template, all at once perhaps; a call whose reads
\* fail rejects.
Compile(c) ==
    /\ prep[c] = "compiling"
    /\ \/ Prepared(c, "ready") /\ template' = TRUE
       \/ Unreadable /\ Prepared(c, "refused") /\ UNCHANGED template
    /\ UNCHANGED <<vars, service, counts>>

-----------------------------------------------------------------------------
(* The breaker's events *)

Counts(events) ==
    stats' = [k \in DOMAIN stats |-> stats[k] + IF k \in events THEN 1 ELSE 0]

\* Mutant: a late result is an event as well.
Decides_Late(c) == pc[c] \in {"fire", "waiting"} \/ left'[c] # left[c]
\* The breaker decides a call that it was asked for and has not given up.
Decides(c) == pc'[c] # pc[c] /\ pc[c] \in {"fire", "waiting"}

\* A timeout is a failure, too; a rejected call is not fired.
Emitted(c) ==
    IF ~Decides(c) THEN {}
    ELSE CASE pc'[c] = "accepted"    -> {"fires", "successes"}
           [] pc'[c] = "undelivered" -> {"fires", "failures"}
           [] pc'[c] = "timedOut"    -> {"fires", "failures", "timeouts"}
           [] pc'[c] = "rejected"    -> {"rejects"}
           [] OTHER                  -> {}

\* "open" sets the timestamp, "halfOpen" keeps it, "close" clears it.
Turned == openSince' = CASE breaker' = "open"   -> TRUE
                         [] breaker' = "closed" -> FALSE
                         [] OTHER               -> openSince
Events(c) == Counts(Emitted(c)) /\ Turned

-----------------------------------------------------------------------------
Sends(c) ==
    \/ Caller(c)
    \/ prep[c] = "ready" /\ \E p \in Provider \cup {None} : Called(c, p)
    \/ \E p \in Provider : Loop(c, p)

ServiceNext ==
    \/ InitializeTemplates \/ InitializeProviders
    \/ \E c \in Call : Prepare(c) \/ Compile(c)
    \/ \E c \in Call : Sends(c) /\ Events(c) /\ UNCHANGED compose
    \/ Reset /\ UNCHANGED <<compose, counts>>

ServiceSpec ==
    /\ InitService /\ [][ServiceNext]_serviceVars
    /\ \A c \in Call : WF_serviceVars(Caller(c) /\ Events(c) /\ UNCHANGED compose)

-----------------------------------------------------------------------------
(* Properties *)

CallsAt(steps) == Cardinality({c \in Call : pc[c] \in steps})

\* The statistics count every call the breaker decided once, as what it was for
\* its caller, whatever the provider did after the timeout.
CountedOnce ==
    /\ stats.fires = stats.successes + stats.failures
    /\ stats.timeouts <= stats.failures
    /\ stats.successes = CallsAt({"accepted", "sent"})
    /\ stats.failures + stats.rejects = CallsAt(Failure \cup {"failed"})

\* getCircuitBreakerHealth's state.
CircuitState == CASE service # "up"     -> "unknown"
                  [] breaker = "open"   -> "open"
                  [] breaker = "closed" -> "closed"
                  [] OTHER              -> "half-open"

\* A circuit that is reported as not closed has a time since when it is open.
OpenHasTime == openSince <=> CircuitState \in {"open", "half-open"}

\* A call that could not be composed leaves no log and no mail.
RefusedLeavesNothing == \A c \in Call :
    prep[c] # "ready" => pc[c] = "idle" /\ log[c] = NoLog /\ ~Mailed(c)

\* With OncePerProvider: one call gives its mail to each provider at most once.
ServiceInv ==
    ServiceTypeOK /\ CountedOnce /\ OpenHasTime /\ RefusedLeavesNothing /\ OncePerProvider
=============================================================================
