---------------------------- MODULE RedisClients ----------------------------
(***************************************************************************)
(* The clients of the Redis proxy outside AuthFlow: the feature flags and  *)
(* the response cache.  Behaviours use one of the two, which share nothing *)
(* but the connection.                                                     *)
(***************************************************************************)
EXTENDS FeatureFlags, ResponseCache

\* The callers, and what they store; null is what an absent key and a failure give.
ASSUME ClientsAssumption ==
    /\ {"check", "admin", "get", "fill", "inv"} \subseteq Client
    /\ {"global", "user", "rollout", "page"} \subseteq Key
    /\ null # "true" /\ null # {}

VARIABLE use

vars == <<proxy, flagVars, cacheVars, use>>

Init ==
    /\ ProxyInit /\ FlagInit /\ CacheInit
    /\ use \in {"flags", "cache"}

Next ==
    \/ ProxyNext /\ UNCHANGED <<flagVars, cacheVars, use>>
    \/ use = "flags" /\ FlagNext /\ UNCHANGED <<cacheVars, use>>
    \/ use = "cache" /\ CacheNext /\ UNCHANGED <<flagVars, use>>

Spec == Init /\ [][Next]_vars
=============================================================================
