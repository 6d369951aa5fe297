----------------------------- MODULE Migrations -----------------------------
(***************************************************************************)
(* MigrationRunner: the commands "migrate up", "down" and "status", each a *)
(* process of its own, on one database.  A migration and its record change *)
(* in one MongoDB transaction; the record of a failure is written outside  *)
(* it, under the same unique name.                                         *)
(***************************************************************************)
EXTENDS Integers

CONSTANTS
    Migration,  \* migration files
    Rank,       \* their alphabetical order
    Runner,     \* processes that may run at the same time
    Commands,   \* what they run: "up", "down"
    Faults,     \* what may fail: "body", "mongo"
    MaxRuns     \* bound on the commands run

ASSUME MigrationsAssumption ==
    /\ Rank \in [Migration -> Nat]
    /\ \A m, n \in Migration : Rank[m] = Rank[n] => m = n
    /\ Commands \subseteq {"up", "down"}
    /\ MaxRuns \in Nat

VARIABLES
    record,  \* status of the record of each migration, "none" if it has none
    at,      \* appliedAt of each record
    effect,  \* how often the migration was applied, less how often reverted
    pc,      \* state of each process
    cmd,     \* command of each process
    todo,    \* migrations it has yet to run
    clean,   \* nothing went wrong in the command, nor ran beside it
    rolledBack, \* a "down" was run
    runs,    \* commands run
    clock    \* time of the last commit or record

db == <<record, at, effect, clock>>
process == <<pc, cmd, todo, clean, rolledBack>>
vars == <<db, process, runs>>

\* How a process ends that has disconnected: with exit code 0, or with 1 where the
\* command threw.
Ended == {"idle", "ok", "failed"}

TypeOK ==
    /\ record \in [Migration -> {"none", "applied", "failed"}]
    /\ at \in [Migration -> Nat]
    /\ effect \in [Migration -> Int]
    /\ pc \in [Runner -> Ended \cup {"next", "transaction", "aborted"}]
    /\ cmd \in [Runner -> {"up", "down", "none"}]
    /\ todo \in [Runner -> SUBSET Migration]
    /\ clean \in [Runner -> BOOLEAN] /\ rolledBack \in BOOLEAN
    /\ runs \in Nat /\ clock \in Nat

Init ==
    /\ record = [m \in Migration |-> "none"]
    /\ at = [m \in Migration |-> 0]
    /\ effect = [m \in Migration |-> 0]
    /\ pc = [r \in Runner |-> "idle"]
    /\ cmd = [r \in Runner |-> "none"]
    /\ todo = [r \in Runner |-> {}]
    /\ clean = [r \in Runner |-> TRUE] /\ rolledBack = FALSE
    /\ runs = 0 /\ clock = 0

Goto(r, step) == pc' = [pc EXCEPT ![r] = step]
Fault(f) == f \in Faults
Set(f, m, v) == f' = [f EXCEPT ![m] = v]

\* Migration.find({ status: "applied" })
HasStatus(m) == record[m] = "applied"

\* up(): the files that are not applied.
Pending == {m \in Migration : ~HasStatus(m)}

\* Mutant: the records are sorted the other way round.
Latest_First == {m \in Migration : HasStatus(m) /\
                   \A n \in Migration : HasStatus(n) => at[n] >= at[m]}
\* down(): the one that was applied last.
Latest == {m \in Migration : HasStatus(m) /\
             \A n \in Migration : HasStatus(n) => at[n] <= at[m]}

\* A process starts and reads the records.
Start(r, c) ==
    /\ pc[r] \in Ended /\ runs < MaxRuns
    /\ runs' = runs + 1
    /\ cmd' = [cmd EXCEPT ![r] = c]
    /\ rolledBack' = (rolledBack \/ c = "down")
    /\ LET all == IF c = "up" THEN Pending ELSE Latest IN
         /\ todo' = [todo EXCEPT ![r] = all]
         /\ Goto(r, IF all = {} THEN "ok" ELSE "next")
    /\ LET others == {q \in Runner \ {r} : pc[q] \notin Ended} IN
       clean' = [q \in Runner |-> IF q = r THEN others = {}
                                  ELSE clean[q] /\ q \notin others]
    /\ UNCHANGED db

\* A process that applies and reverts nothing.
Brief(r, end) ==
    /\ pc[r] \in Ended /\ runs < MaxRuns
    /\ runs' = runs + 1
    /\ Goto(r, end)
    /\ UNCHANGED <<db, cmd, todo, clean, rolledBack>>

\* "migrate status" names what is pending.
ShowStatus(r) == Brief(r, "ok")

\* The process does not connect, or cannot read the records.
NotConnected(r) == Fault("mongo") /\ Brief(r, "failed")

\* Mutant: the files in the order of the directory.
Turn_Unsorted(r, m) == m \in todo[r]
\* The files are sorted.
Turn(r, m) == m \in todo[r] /\ \A n \in todo[r] : Rank[m] <= Rank[n]

\* runMigration: startTransaction and the migration's own code.
Begin(r) ==
    /\ pc[r] = "next"
    /\ Goto(r, "transaction")
    /\ UNCHANGED <<db, cmd, todo, clean, rolledBack, runs>>

\* Mutant: the record has no unique name.
Insertable_Any(m) == TRUE
\* Migration.create meets the unique index on the name.
Insertable(m) == record[m] = "none"

\* What the transaction of r writes for m.
Change(r, m) ==
    IF cmd[r] = "up"
    THEN /\ Set(record, m, "applied") /\ Set(effect, m, effect[m] + 1)
         /\ clock' = clock + 1 /\ Set(at, m, clock')
    ELSE /\ Set(record, m, "none") /\ Set(effect, m, effect[m] - 1)
         /\ UNCHANGED <<clock, at>>

Commit(r) == \E m \in Migration :
    /\ pc[r] = "transaction" /\ Turn(r, m)
    /\ cmd[r] = "up" => Insertable(m)
    /\ Change(r, m)
    /\ todo' = [todo EXCEPT ![r] = @ \ {m}]
    /\ Goto(r, IF todo[r] = {m} THEN "ok" ELSE "next")
    /\ UNCHANGED <<cmd, clean, rolledBack, runs>>

\* The transaction conflicts with that of another process.
Conflict(r, m) == \E q \in Runner \ {r} : pc[q] = "transaction" /\ Turn(q, m)

\* Its code fails, it conflicts, it reverts what is not there, or the insert
\* of its record fails: the transaction is aborted.
Abort(r) == \E m \in Migration :
    /\ pc[r] = "transaction" /\ Turn(r, m)
    /\ \/ Fault("body") /\ clean' = [clean EXCEPT ![r] = FALSE]
       \/ /\ \/ Conflict(r, m)
             \/ cmd[r] = "down" /\ record[m] # "applied"
             \/ cmd[r] = "up" /\ ~Insertable(m)
          /\ UNCHANGED clean
    /\ Goto(r, "aborted")
    /\ UNCHANGED <<db, cmd, todo, rolledBack, runs>>

\* commitTransaction fails, the outcome unknown, or the process dies.  The
\* abort that follows a commit throws, so no failure is recorded.
CommitFails(r) == \E m \in Migration :
    /\ Fault("mongo") /\ pc[r] = "transaction" /\ Turn(r, m)
    /\ \/ (cmd[r] = "up" => Insertable(m)) /\ Change(r, m)
       \/ UNCHANGED db
    /\ todo' = [todo EXCEPT ![r] = {}]
    /\ clean' = [clean EXCEPT ![r] = FALSE]
    /\ Goto(r, "failed")
    /\ UNCHANGED <<cmd, rolledBack, runs>>

Failure == "failed"

\* findOneAndUpdate, upserting: the failure is recorded whatever the record says.
RecordFailure(r) == \E m \in Migration :
    /\ pc[r] = "aborted" /\ Turn(r, m)
    /\ \/ /\ Set(record, m, Failure)
          /\ IF record[m] = "none" THEN clock' = clock + 1 /\ Set(at, m, clock')
                                   ELSE UNCHANGED <<clock, at>>
       \/ Fault("mongo") /\ UNCHANGED <<record, at, clock>>
    /\ todo' = [todo EXCEPT ![r] = {}]
    /\ Goto(r, "failed")
    /\ UNCHANGED <<effect, cmd, clean, rolledBack, runs>>

Next ==
    \E r \in Runner :
        \/ \E c \in Commands : Start(r, c)
        \/ ShowStatus(r) \/ NotConnected(r)
        \/ Begin(r) \/ Commit(r) \/ Abort(r) \/ CommitFails(r) \/ RecordFailure(r)

Spec == Init /\ [][Next]_vars

-----------------------------------------------------------------------------
(* Properties *)

\* No migration is in effect twice, whatever processes run up and down at once:
\* a second transaction fails at the unique name of the record.
AppliedOnce == \A m \in Migration : effect[m] <= 1

\* As long as nothing is rolled back, only the record of a failure leaves open
\* whether its migration is in effect.
OnlyFailuresAreUncertain == \A m \in Migration :
    /\ record[m] = "applied" => effect[m] = 1
    /\ record[m] = "none" => effect[m] = 0

\* Migrations run in order: what is in effect has all before it in effect.
InOrder == \A m, n \in Migration :
    effect[m] > 0 /\ Rank[n] < Rank[m] => effect[n] > 0

\* "Rollback the last migration": as long as no failure is on record, a rollback
\* that nothing runs beside reverts the migration in effect that was applied
\* last.  After a failed rollback it may not: that migration is in effect still,
\* and its record is no longer seen.
RollsBackLast ==
    [][\A r \in Runner, m, n \in Migration :
         /\ pc[r] = "transaction" /\ pc'[r] # "transaction" /\ clean[r]
         /\ \A k \in Migration : record[k] # "failed"
         /\ effect'[m] < effect[m] /\ effect[n] > 0
         => at[n] <= at[m]]_vars

\* What makes the invariants inductive: a record that can be inserted is of a
\* migration that is not in effect, and a process that runs up has left behind no
\* migration that is not in effect.
InsertableIsNotInEffect == \A m \in Migration : record[m] = "none" => effect[m] <= 0
OnceInv == TypeOK /\ AppliedOnce /\ InsertableIsNotInEffect

NothingSkipped == \A r \in Runner : pc[r] \in {"next", "transaction"} =>
    \A m \in Migration \ todo[r] : effect[m] = 1
OnlyUps == \A r \in Runner : pc[r] \in {"next", "transaction", "aborted"} => cmd[r] = "up"
UpsInv == OnceInv /\ OnlyUps /\ OnlyFailuresAreUncertain /\ InOrder /\ NothingSkipped

\* Until the first rollback migrations are in effect in order, and only the
\* record of a failure leaves open whether its migration is, although processes
\* that run up at once fail each other.
UpInv == rolledBack \/ UpsInv

\* A rollback that nothing has run beside reverts what the records named last
\* when it read them.
RunsAlone == \A r \in Runner : clean[r] /\ pc[r] \notin Ended =>
    \A q \in Runner \ {r} : pc[q] \in Ended
RevertsLatest == \A r \in Runner :
    clean[r] /\ pc[r] \in {"next", "transaction"} /\ cmd[r] # "up" => todo[r] \subseteq Latest
RollbackInv == OnceInv /\ RunsAlone /\ RevertsLatest
=============================================================================
