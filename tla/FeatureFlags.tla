---------------------------- MODULE FeatureFlags ----------------------------
(***************************************************************************)
(* FeatureFlagService over the Redis proxy: one evaluation after another,  *)
(* while an administrator changes the flag.  A flag has a global value, a  *)
(* value for the user and a rollout percentage.                            *)
(***************************************************************************)
EXTENDS RedisProxy

CONSTANTS
    Percent,  \* percentages the administrator sets
    Hash      \* hashUserId of the user

ASSUME FlagsAssumption == Percent \subseteq 0..100 /\ Hash \in 0..99

VARIABLES
    flag,     \* step or outcome of the evaluation
    known,    \* the caller passed a user id
    blind,    \* the read of the global value failed
    turnsOff, \* the change that is under way is a disable()
    off,      \* the last change of the global value was one, and worked
    offSince  \* it had when the evaluation started, and still has

flagVars == <<flag, known, blind, turnsOff, off, offSince>>

FlagInit ==
    /\ flag = "idle" /\ known = FALSE /\ blind = FALSE
    /\ turnsOff = FALSE /\ off = FALSE /\ offSince = FALSE

Ask(op, key, step) ==
    flag' = step /\ Fire("check", op, key, null) /\ UNCHANGED known

\* The outcome: the gate lets the request pass or answers it 404.
Ends(result) ==
    /\ flag' = IF result THEN "yes" ELSE "no"
    /\ known' = FALSE
    /\ Return("check") /\ UNCHANGED <<wire, breaker, sent>>

reads == <<store, done, up, turnsOff, off>>

-----------------------------------------------------------------------------
\* isEnabled, of a user or not, and getAllFlags.
IsEnabled ==
    /\ flag \in {"idle", "yes", "no"}
    /\ flag' = "global" /\ Fire("check", "get", "global", null)
    /\ known' \in BOOLEAN /\ offSince' = off /\ blind' = FALSE
    /\ UNCHANGED reads

GetAllFlags ==
    /\ flag \in {"idle", "yes", "no"}
    /\ Ask("keys", "global", "keys")
    /\ offSince' = off /\ blind' = FALSE
    /\ UNCHANGED reads

\* Mutant: only an enabled flag is decided globally.
Decided_TrueOnly(v) == v = "true"
Decided(v) == v \in {"true", "false"}

\* Null, of an absent key or of a failed read, goes on to the user's value.
GlobalRead ==
    /\ flag = "global" /\ Answered("check")
    /\ blind' = call["check"].failed
    /\ LET v == call["check"].v IN
       IF Decided(v) THEN Ends(v = "true")
       ELSE IF ~known THEN Ends(FALSE)
       ELSE Ask("get", "user", "user")
    /\ UNCHANGED <<reads, offSince>>

UserRead ==
    /\ flag = "user" /\ Answered("check")
    /\ IF call["check"].v = "true" THEN Ends(TRUE)
                                   ELSE Ask("get", "rollout", "rollout")
    /\ UNCHANGED <<reads, offSince, blind>>

RolloutRead ==
    /\ flag = "rollout" /\ Answered("check")
    /\ LET v == call["check"].v IN
       Ends(IF v = null THEN FALSE ELSE Hash < v)
    /\ UNCHANGED <<reads, offSince, blind>>

\* A failed KEYS is null, iterating over it throws, and the list is empty.
FlagsListed ==
    /\ flag = "keys" /\ Answered("check")
    /\ IF call["check"].v \in {null, {}} THEN Ends(FALSE)
                                         ELSE Ask("get", "global", "value")
    /\ UNCHANGED <<reads, offSince, blind>>

ValueRead ==
    /\ flag = "value" /\ Answered("check")
    /\ Ends(call["check"].v = "true")
    /\ UNCHANGED <<reads, offSince, blind>>

-----------------------------------------------------------------------------
(* The administrator *)

Change(key, val) ==
    /\ call["admin"].at = "idle"
    /\ Fire("admin", "set", key, val)
    /\ LET keeps == key # "global" \/ val = "false" IN
         off' = (off /\ keeps) /\ offSince' = (offSince /\ keeps)
    /\ turnsOff' = IF key = "global" THEN val = "false" ELSE FALSE
    /\ UNCHANGED <<store, done, up, flag, known, blind>>

Enable == Change("global", "true")
Disable == Change("global", "false")
EnableForUser == Change("user", "true")
SetRolloutPercentage == \E p \in Percent : Change("rollout", p)

\* The method resolves, whether the proxy answered OK or a failure's null.
Changed ==
    /\ Answered("admin") /\ Return("admin")
    /\ off' = (off \/ (turnsOff /\ ~call["admin"].failed)) /\ turnsOff' = FALSE
    /\ UNCHANGED <<store, wire, done, up, breaker, sent, flag, known, blind, offSince>>

FlagNext ==
    \/ IsEnabled \/ GlobalRead \/ UserRead \/ RolloutRead
    \/ GetAllFlags \/ FlagsListed \/ ValueRead
    \/ Enable \/ Disable \/ EnableForUser \/ SetRolloutPercentage \/ Changed

-----------------------------------------------------------------------------
(* Properties *)

\* Nobody but the administrator writes the global value.
GlobalWriters ==
    \A i \in 1..Len(wire) : wire[i].key = "global" =>
        wire[i].op \in {"get", "keys"} \/ (wire[i].op = "set" /\ wire[i].by = "admin")

\* The flag is off in Redis, and no command without a reply would switch it on.
IsOff ==
    /\ store["global"] = "false"
    /\ \A i \in 1..Len(wire) : wire[i].key = "global" /\ wire[i].op = "set" => wire[i].val = "false"

\* A disable() that is awaited is the administrator's last command: once it is executed
\* it stays so, and once it is answered none before it is left.
TurningOff ==
    /\ turnsOff /\ call["admin"].at = "waiting" =>
         \A i \in 1..Len(wire) :
           /\ wire[i].n > call["admin"].n => wire[i].by # "admin"
           /\ wire[i].n = call["admin"].n =>
                /\ wire[i].op = "set" /\ wire[i].key = "global" /\ wire[i].val = "false"
                /\ i <= done /\ ~wire[i].refused => store["global"] = "false"
    /\ turnsOff /\ call["admin"].at = "answered" /\ ~call["admin"].failed => IsOff

\* An evaluation that started after a disable() worked reads that, or nothing.
ReadsOff ==
    offSince /\ flag \in {"global", "value"} =>
      /\ call["check"].at = "waiting" =>
           \A i \in 1..Len(wire) : wire[i].n = call["check"].n =>
             /\ wire[i].op = "get" /\ wire[i].key = "global"
             /\ i <= done /\ ~wire[i].refused => wire[i].result = "false"
      /\ call["check"].at = "answered" /\ ~call["check"].failed => call["check"].v = "false"

\* A disabled flag is off: once disable() worked and until the next change, no
\* evaluation answers yes, to whatever user or percentage, and no command that is
\* in flight or sent again enables it; unless the read of the global value failed,
\* which isEnabled cannot tell from a flag that is not set.
KillSwitch ==
    /\ (offSince => off) /\ (off => IsOff)
    /\ GlobalWriters /\ TurningOff /\ ReadsOff
    /\ flag \in {"user", "rollout", "yes"} => ~offSince \/ blind
=============================================================================
