--------------------------- MODULE MCRedisClients ---------------------------
EXTENDS RedisClients

Clients == {"check", "admin", "get", "fill", "inv"}
Keys == {"global", "user", "rollout", "page", "url"}

\* The stories of the cache are longer than those of the flags, and nobody would read
\* what the administrator changes last.
CommandsOf == [c \in Clients |-> CASE c = "admin" -> 3 [] c = "check" -> 4 [] OTHER -> 5]
=============================================================================
