----------------------------- MODULE RedisProxy -----------------------------
(***************************************************************************)
(* One process's Redis connection: the proxy of createRedisCircuitBreaker, *)
(* its breaker, and the ioredis connection behind it, which keeps          *)
(* unanswered commands in order, sends them again after a reconnect and    *)
(* never gives one up (maxRetriesPerRequest: null).  The breaker's timeout *)
(* answers the caller and leaves the command where it is.                  *)
(***************************************************************************)
EXTENDS Integers, Sequences, FiniteSets

CONSTANTS
    Client,      \* callers, each with one call at a time
    Key,
    null,
    Faults,      \* "link": the connection breaks, "error": Redis answers an error
    MaxCommands, \* bound, of each client, on the commands sent before its last
    MaxWire      \* bound on those without a reply

ASSUME ProxyAssumption ==
    MaxCommands \in [Client -> Nat] /\ MaxWire \in Nat /\ Faults \subseteq {"link", "error"}

VARIABLES
    store,    \* the keys of Redis
    wire,     \* commands without a reply, oldest first
    done,     \* how many of them Redis executed since the last connect
    up,       \* the connection
    breaker,
    call,     \* the call of each client: waiting, answered
    sent      \* commands sent so far

proxy == <<store, wire, done, up, breaker, call, sent>>

Idle == [at |-> "idle", n |-> 0, v |-> null, failed |-> FALSE]
Waiting(n) == [at |-> "waiting", n |-> n, v |-> null, failed |-> FALSE]
Answer(n, v, failed) == [at |-> "answered", n |-> n, v |-> v, failed |-> failed]

ProxyInit ==
    /\ store = [k \in Key |-> null]
    /\ wire = <<>> /\ done = 0 /\ up = TRUE
    /\ breaker = "closed"
    /\ call = [c \in Client |-> Idle]
    /\ sent = 0

-----------------------------------------------------------------------------
(* The proxy *)

Answered(c) == call[c].at = "answered"
Return(c) == call' = [call EXCEPT ![c] = Idle]

\* Commands that degrade to null; any other failure is rethrown.
NonCritical == {"get", "set", "setex", "del", "keys", "ttl", "incr", "decr", "expire"}
Failed(n, op) == Answer(n, IF op \in NonCritical THEN null ELSE "error", TRUE)

Rejects == breaker \in {"open", "probing"}

\* breaker.fire(command): an open breaker answers at once, and a half-open one
\* lets a single call through.
Fire(c, op, key, val) ==
    IF Rejects
    THEN /\ call' = [call EXCEPT ![c] = Failed(0, op)]
         /\ UNCHANGED <<wire, breaker, sent>>
    ELSE /\ sent < MaxCommands[c] /\ Len(wire) < MaxWire /\ sent' = sent + 1
         /\ wire' = Append(wire, [n |-> sent', by |-> c, op |-> op, key |-> key, val |-> val,
                                  refused |-> FALSE, result |-> null])
         /\ call' = [call EXCEPT ![c] = Waiting(sent')]
         /\ breaker' = IF breaker = "halfOpen" THEN "probing" ELSE breaker

\* Mutant: any reply answers the caller.
Waits_ForAny(c, cmd) == call[c].at = "waiting"
\* The promise that was given for this command is still awaited.
Waits(c, cmd) == call[c].at = "waiting" /\ call[c].n = cmd.n

\* Whether a failure opens a closed breaker depends on its statistics.
AfterFailure == IF breaker = "closed" THEN {"closed", "open"} ELSE {"open"}
AfterSuccess == IF breaker \in {"halfOpen", "probing"} THEN "closed" ELSE breaker

\* The breaker's timeout.
TimesOut(c) ==
    /\ call[c].at = "waiting"
    /\ \E i \in DOMAIN wire :
         wire[i].n = call[c].n /\ call' = [call EXCEPT ![c] = Failed(wire[i].n, wire[i].op)]
    /\ breaker' \in AfterFailure
    /\ UNCHANGED <<store, wire, done, up, sent>>

Reset ==
    /\ breaker = "open" /\ breaker' = "halfOpen"
    /\ UNCHANGED <<store, wire, done, up, call, sent>>

-----------------------------------------------------------------------------
(* ioredis and Redis *)

Effect(cmd) ==
    CASE cmd.op \in {"set", "setex"} -> [store EXCEPT ![cmd.key] = cmd.val]
      [] cmd.op = "del" -> [store EXCEPT ![cmd.key] = null]
      [] OTHER -> store
Result(cmd) ==
    CASE cmd.op = "get" -> store[cmd.key]
      [] cmd.op = "keys" -> {k \in {cmd.key} : store[k] # null}
      [] OTHER -> "OK"

Put(refused, result) ==
    wire' = [wire EXCEPT ![done + 1].refused = refused, ![done + 1].result = result]

\* Redis executes the next command, or refuses it.  What it answers to a call that
\* timed out is not kept.
Execute ==
    /\ up /\ done < Len(wire)
    /\ LET cmd == wire[done + 1]  awaited == Waits(cmd.by, cmd) IN
         \/ store' = Effect(cmd) /\ Put(FALSE, IF awaited THEN Result(cmd) ELSE null)
         \/ "error" \in Faults /\ UNCHANGED store /\ Put(awaited, null)
    /\ done' = done + 1
    /\ UNCHANGED <<up, breaker, call, sent>>

\* Its reply arrives; nobody waits for that of a call which timed out.
Reply ==
    /\ up /\ done > 0
    /\ LET cmd == Head(wire) IN
       IF Waits(cmd.by, cmd)
       THEN IF cmd.refused
            THEN /\ call' = [call EXCEPT ![cmd.by] = Failed(cmd.n, cmd.op)]
                 /\ breaker' \in AfterFailure
            ELSE /\ call' = [call EXCEPT ![cmd.by] = Answer(call[cmd.by].n, cmd.result, FALSE)]
                 /\ breaker' = AfterSuccess
       ELSE UNCHANGED <<call, breaker>>
    /\ wire' = Tail(wire) /\ done' = done - 1
    /\ UNCHANGED <<store, up, sent>>

Unanswered == [i \in DOMAIN wire |-> [wire[i] EXCEPT !.refused = FALSE, !.result = null]]

\* Mutant: what was sent goes behind what was not.
Resend_Behind == SubSeq(Unanswered, done + 1, Len(wire)) \o SubSeq(Unanswered, 1, done)
\* After a reconnect every command without a reply is sent again, in order.
Resend == Unanswered

Breaks ==
    /\ up /\ "link" \in Faults
    /\ up' = FALSE /\ done' = 0 /\ wire' = Resend
    /\ UNCHANGED <<store, breaker, call, sent>>
Reconnects ==
    /\ ~up /\ up' = TRUE
    /\ UNCHANGED <<store, wire, done, breaker, call, sent>>

ProxyNext ==
    \/ \E c \in Client : TimesOut(c)
    \/ Reset \/ Execute \/ Reply \/ Breaks \/ Reconnects

-----------------------------------------------------------------------------
(* Properties *)

Fields == {"n", "by", "op", "key", "val", "refused", "result"}

TypeOK ==
    /\ DOMAIN store = Key /\ up \in BOOLEAN
    /\ Len(wire) \in Nat /\ wire = [i \in 1..Len(wire) |-> wire[i]] /\ done \in 0..Len(wire)
    /\ breaker \in {"closed", "open", "halfOpen", "probing"}
    /\ sent \in Nat
    /\ \A i \in 1..Len(wire) :
         /\ DOMAIN wire[i] = Fields /\ wire[i].refused \in BOOLEAN
         /\ wire[i].n \in 1..sent /\ wire[i].by \in Client
    /\ DOMAIN call = Client
    /\ \A c \in Client :
         /\ DOMAIN call[c] = {"at", "n", "v", "failed"} /\ call[c].failed \in BOOLEAN
         /\ call[c].at \in {"idle", "waiting", "answered"} /\ call[c].n \in 0..sent

\* Commands without a reply are kept in the order in which they were sent.
InOrder == \A i, j \in 1..Len(wire) : i < j => wire[i].n < wire[j].n

Mine(c) == {i \in 1..Len(wire) : wire[i].by = c /\ wire[i].n = call[c].n}

\* A command whose call still waits is on the wire once, and what a caller was answered
\* without a failure was not the late reply to a call of its that timed out before (its
\* command would still be there).
OwnAnswer ==
    \A c \in Client :
        CASE call[c].at = "waiting" -> \E i \in 1..Len(wire) : Mine(c) = {i}
          [] call[c].at = "answered" -> ~call[c].failed => Mine(c) = {}
          [] OTHER -> call[c] = Idle

\* The clients of this proxy send only commands whose failure degrades to null.
Degrades ==
    /\ \A i \in 1..Len(wire) : wire[i].op \in NonCritical
    /\ \A c \in Client : call[c].failed => call[c].v = null

\* A caller gets its own answer, however late replies are and however often the link
\* breaks.
ProxyInv == TypeOK /\ InOrder /\ OwnAnswer /\ Degrades

KeepsOrder ==
    /\ done' = done + 1 =>
         \A i \in 1..Len(wire) : wire[i].n < wire[done + 1].n => i <= done
    /\ \A c \in Client :
         call[c].at = "waiting" /\ Answered(c)' /\ ~call'[c].failed =>
           \A i \in 1..Len(wire') : wire'[i].n > call[c].n

\* The order that AuthFlow relies on (Settled, RepeatSetToken): a command is executed,
\* for the first time or again, only after all those without a reply that were sent
\* before it, and once a caller has the reply of a command none of them is executed.
CommandsInOrder == [][KeepsOrder]_proxy
=============================================================================
