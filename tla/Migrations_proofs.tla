------------------------- MODULE Migrations_proofs --------------------------
(***************************************************************************)
(* Proofs about Migrations, for any files and any number of processes.     *)
(*                                                                         *)
(* The argument: a transaction that applies a migration inserts its        *)
(* record, so there was none, and a migration without a record is not in   *)
(* effect.  With no rollbacks a process goes through the pending files in  *)
(* order and stops at the first failure, so whatever it has passed is in   *)
(* effect.                                                                 *)
(***************************************************************************)
EXTENDS Migrations, TLAPS

\* Both invariants hold of the initial state.
LEMMA InitInv == Init => OnceInv /\ UpsInv
  <1> SUFFICES ASSUME Init PROVE OnceInv /\ UpsInv
    OBVIOUS
  <1>1. TypeOK
    <2>1. rolledBack \in BOOLEAN /\ clean \in [Runner -> BOOLEAN]
      BY Zenon DEF Init
    <2> QED BY <2>1 DEF Init, TypeOK, Ended
  <1>2. OnceInv
    BY <1>1 DEF Init, OnceInv, AppliedOnce, InsertableIsNotInEffect
  <1> QED BY <1>2 DEF Init, UpsInv, OnlyUps, OnlyFailuresAreUncertain, InOrder, NothingSkipped

\* What a transaction changes in the database.
LEMMA ChangeDB ==
  ASSUME TypeOK, NEW r \in Runner, NEW m \in Migration, Change(r, m),
         cmd[r] = "up" => Insertable(m)
  PROVE  /\ record' \in [Migration -> {"none", "applied", "failed"}]
         /\ at' \in [Migration -> Nat] /\ effect' \in [Migration -> Int] /\ clock' \in Nat
         /\ \A n \in Migration \ {m} : record'[n] = record[n] /\ effect'[n] = effect[n]
         /\ \/ /\ cmd[r] = "up" /\ record[m] = "none"
               /\ record'[m] = "applied" /\ effect'[m] = effect[m] + 1
            \/ /\ cmd[r] # "up" /\ record'[m] = "none" /\ effect'[m] = effect[m] - 1
  <1>1. CASE cmd[r] = "up"
    BY <1>1 DEF TypeOK, Change, Set, Insertable
  <1>2. CASE cmd[r] # "up"
    BY <1>2 DEF TypeOK, Change, Set
  <1> QED BY <1>1, <1>2

\* A process that starts changes no record.
LEMMA StartType ==
  ASSUME TypeOK, NEW r \in Runner, NEW c \in Commands, Start(r, c)
  PROVE  TypeOK' /\ UNCHANGED <<record, effect>>
  <1>1. c \in {"up", "down"}
    BY MigrationsAssumption
  <1>2. /\ pc' = [pc EXCEPT ![r] = "ok"] \/ pc' = [pc EXCEPT ![r] = "next"]
        /\ cmd' = [cmd EXCEPT ![r] = c] /\ runs' = runs + 1
        /\ UNCHANGED <<record, at, effect, clock>>
        /\ rolledBack' = (rolledBack \/ c = "down")
    BY DEF Start, Goto, db
  <1>3. \E all \in SUBSET Migration : todo' = [todo EXCEPT ![r] = all]
    <2>1. Pending \subseteq Migration /\ Latest \subseteq Migration
      BY DEF Pending, Latest
    <2> QED BY <2>1 DEF Start
  <1>4. clean' \in [Runner -> BOOLEAN]
    BY DEF Start, TypeOK
  <1>5. pc' \in [Runner -> Ended \cup {"next", "transaction", "aborted"}]
    BY <1>2 DEF TypeOK, Ended
  <1>6. todo' \in [Runner -> SUBSET Migration]
    BY <1>3 DEF TypeOK
  <1> QED BY <1>1, <1>2, <1>4, <1>5, <1>6 DEF TypeOK

-----------------------------------------------------------------------------
(* A migration is in effect at most once *)

LEMMA OnceStep == ASSUME OnceInv, [Next]_vars PROVE OnceInv'
  <1>1. TypeOK
    BY DEF OnceInv
  <1>2. CASE UNCHANGED vars
    BY <1>2 DEF vars, db, process, OnceInv, TypeOK, AppliedOnce, InsertableIsNotInEffect
  <1>3. ASSUME NEW r \in Runner, NEW c \in Commands, Start(r, c) PROVE OnceInv'
    BY <1>1, <1>3, StartType DEF OnceInv, AppliedOnce, InsertableIsNotInEffect
  <1>4. ASSUME NEW r \in Runner, Begin(r) \/ Abort(r) PROVE OnceInv'
    <2>1. /\ UNCHANGED <<record, at, effect, clock, cmd, todo, rolledBack, runs>>
          /\ pc' = [pc EXCEPT ![r] = "transaction"] \/ pc' = [pc EXCEPT ![r] = "aborted"]
          /\ clean' = clean \/ clean' = [clean EXCEPT ![r] = FALSE]
      BY <1>4 DEF Begin, Abort, Goto, db
    <2>2. TypeOK'
      BY <1>1, <2>1 DEF TypeOK
    <2> QED BY <2>1, <2>2 DEF OnceInv, AppliedOnce, InsertableIsNotInEffect
  <1>5. ASSUME NEW r \in Runner, NEW m \in Migration, Change(r, m),
               cmd[r] = "up" => Insertable(m)
        PROVE  AppliedOnce' /\ InsertableIsNotInEffect'
    BY <1>1, <1>5, ChangeDB DEF OnceInv, TypeOK, AppliedOnce, InsertableIsNotInEffect
  <1>6. ASSUME NEW r \in Runner, Commit(r) \/ CommitFails(r) PROVE OnceInv'
    <2>1. PICK m \in Migration :
            \/ (cmd[r] = "up" => Insertable(m)) /\ Change(r, m)
            \/ UNCHANGED db
      BY <1>6 DEF Commit, CommitFails
    <2>2. /\ pc' \in [Runner -> Ended \cup {"next", "transaction", "aborted"}]
          /\ clean' \in [Runner -> BOOLEAN] /\ UNCHANGED <<cmd, rolledBack, runs>>
      BY <1>1, <1>6 DEF Commit, CommitFails, Goto, TypeOK, Ended
    <2>3. todo' \in [Runner -> SUBSET Migration]
      BY <1>1, <1>6 DEF Commit, CommitFails, TypeOK
    <2>4. CASE (cmd[r] = "up" => Insertable(m)) /\ Change(r, m)
      BY <1>1, <1>5, <2>2, <2>3, <2>4, ChangeDB DEF OnceInv, TypeOK
    <2>5. CASE UNCHANGED db
      BY <1>1, <2>2, <2>3, <2>5 DEF db, OnceInv, TypeOK, AppliedOnce, InsertableIsNotInEffect
    <2> QED BY <2>1, <2>4, <2>5
  <1>7. ASSUME NEW r \in Runner, RecordFailure(r) PROVE OnceInv'
    <2>1. PICK m \in Migration :
            /\ record' = [record EXCEPT ![m] = "failed"] \/ record' = record
            /\ \/ at' = at /\ clock' = clock
               \/ clock' = clock + 1 /\ at' = [at EXCEPT ![m] = clock']
      BY <1>7 DEF RecordFailure, Set, Failure
    <2>2. /\ todo' = [todo EXCEPT ![r] = {}] /\ pc' = [pc EXCEPT ![r] = "failed"]
          /\ UNCHANGED <<effect, cmd, clean, rolledBack, runs>>
      BY <1>7 DEF RecordFailure, Goto
    <2>3. TypeOK'
      BY <1>1, <2>1, <2>2 DEF TypeOK, Ended
    <2>4. \A n \in Migration : record'[n] = "none" => record[n] = "none"
      BY <1>1, <2>1 DEF TypeOK
    <2> QED BY <2>2, <2>3, <2>4 DEF OnceInv, AppliedOnce, InsertableIsNotInEffect
  <1>8. ASSUME NEW r \in Runner, ShowStatus(r) \/ NotConnected(r) PROVE OnceInv'
    <2>1. /\ UNCHANGED <<db, cmd, todo, clean, rolledBack>> /\ runs' = runs + 1
          /\ pc' = [pc EXCEPT ![r] = "ok"] \/ pc' = [pc EXCEPT ![r] = "failed"]
      BY <1>8 DEF ShowStatus, NotConnected, Brief, Goto
    <2>2. TypeOK'
      BY <1>1, <2>1 DEF TypeOK, db, Ended
    <2> QED BY <2>1, <2>2 DEF db, OnceInv, AppliedOnce, InsertableIsNotInEffect
  <1> QED BY <1>2, <1>3, <1>4, <1>6, <1>7, <1>8 DEF Next

\* The invariant holds throughout, whatever runs and fails.
THEOREM OnceInvariant == Spec => []OnceInv
  <1>1. Init => OnceInv
    BY InitInv
  <1>2. OnceInv /\ [Next]_vars => OnceInv'
    BY OnceStep
  <1> QED BY <1>1, <1>2, PTL DEF Spec

\* No migration is in effect twice, for any number of processes.
THEOREM NeverAppliedTwice == Spec => []AppliedOnce
  <1>1. OnceInv => AppliedOnce
    BY DEF OnceInv
  <1> QED BY <1>1, OnceInvariant, PTL

-----------------------------------------------------------------------------
(* Without rollbacks, migrations are in effect in order *)

\* A transaction that applies the next migration of an up keeps the order, and
\* leaves nothing behind that is not in effect.
LEMMA ApplyStep ==
  ASSUME UpsInv, NEW r \in Runner, NEW m \in Migration, pc[r] = "transaction",
         Turn(r, m), Insertable(m), Change(r, m)
  PROVE  /\ OnlyFailuresAreUncertain' /\ InOrder'
         /\ effect[m] = 0 /\ effect'[m] = 1
         /\ \A n \in Migration \ {m} : effect'[n] = effect[n]
  <1>1. /\ TypeOK /\ cmd[r] = "up" /\ record[m] = "none" /\ effect[m] = 0
        /\ effect \in [Migration -> Int] /\ Rank \in [Migration -> Nat]
    BY MigrationsAssumption
       DEF UpsInv, OnceInv, OnlyUps, TypeOK, Insertable, OnlyFailuresAreUncertain
  <1>2. /\ record'[m] = "applied" /\ effect'[m] = 1
        /\ \A n \in Migration \ {m} : record'[n] = record[n] /\ effect'[n] = effect[n]
    BY <1>1, ChangeDB
  <1>3. OnlyFailuresAreUncertain'
    BY <1>2 DEF UpsInv, OnlyFailuresAreUncertain
  <1>4. \A n \in Migration : Rank[n] < Rank[m] => effect[n] = 1
    <2>1. ASSUME NEW n \in Migration, Rank[n] < Rank[m] PROVE n \notin todo[r]
      BY <1>1, <2>1 DEF Turn
    <2> QED BY <2>1 DEF UpsInv, NothingSkipped
  <1>5. InOrder'
    <2>1. \A n \in Migration : effect[n] > 0 => effect'[n] > 0
      BY <1>1, <1>2
    <2>2. ASSUME NEW k \in Migration, NEW n \in Migration, effect'[k] > 0, Rank[n] < Rank[k]
          PROVE  effect'[n] > 0
      <3>1. CASE k = m
        BY <1>4, <2>1, <2>2, <3>1
      <3>2. CASE k # m
        BY <1>2, <2>1, <2>2, <3>2 DEF UpsInv, InOrder
      <3> QED BY <3>1, <3>2
    <2> QED BY <2>2 DEF InOrder
  <1> QED BY <1>1, <1>2, <1>3, <1>5

LEMMA UpStep == ASSUME UpsInv, [Next]_vars, ~rolledBack' PROVE UpsInv'
  <1>1. OnceInv' /\ TypeOK
    BY OnceStep DEF UpsInv, OnceInv
  <1>2. CASE UNCHANGED vars
    BY <1>1, <1>2 DEF vars, db, process, UpsInv, OnlyUps, OnlyFailuresAreUncertain, InOrder,
                      NothingSkipped
  <1>3. ASSUME NEW r \in Runner, NEW c \in Commands, Start(r, c) PROVE UpsInv'
    <2>1. c = "up" /\ UNCHANGED <<record, effect>>
      BY <1>1, <1>3, StartType, MigrationsAssumption DEF Start
    <2>2. /\ cmd' = [cmd EXCEPT ![r] = "up"]
          /\ todo' = [todo EXCEPT ![r] = Pending]
          /\ \A q \in Runner \ {r} : pc'[q] = pc[q]
      BY <1>1, <1>3, <2>1 DEF Start, Goto, TypeOK
    <2>3. OnlyUps'
      BY <1>1, <2>2 DEF UpsInv, OnlyUps, TypeOK
    <2>4. NothingSkipped'
      <3>1. \A m \in Migration \ Pending : effect[m] = 1
        BY DEF Pending, HasStatus, UpsInv, OnlyFailuresAreUncertain
      <3>2. todo'[r] = Pending /\ \A q \in Runner \ {r} : todo'[q] = todo[q]
        BY <1>1, <2>2 DEF TypeOK
      <3> QED BY <2>1, <2>2, <3>1, <3>2 DEF UpsInv, NothingSkipped
    <2>5. OnlyFailuresAreUncertain' /\ InOrder'
      BY <2>1 DEF UpsInv, OnlyFailuresAreUncertain, InOrder
    <2> QED BY <1>1, <2>3, <2>4, <2>5 DEF UpsInv
  <1>4. ASSUME NEW r \in Runner, Begin(r) \/ Abort(r) PROVE UpsInv'
    <2>1. /\ UNCHANGED <<record, effect, cmd, todo>>
          /\ \/ pc[r] = "next" /\ pc' = [pc EXCEPT ![r] = "transaction"]
             \/ pc[r] = "transaction" /\ pc' = [pc EXCEPT ![r] = "aborted"]
      BY <1>4 DEF Begin, Abort, Goto, db
    <2>2. NothingSkipped'
      BY <1>1, <2>1 DEF UpsInv, NothingSkipped, TypeOK
    <2>3. OnlyUps'
      BY <1>1, <2>1 DEF UpsInv, OnlyUps, TypeOK
    <2> QED BY <1>1, <2>1, <2>2, <2>3 DEF UpsInv, OnlyFailuresAreUncertain, InOrder
  <1>5. ASSUME NEW r \in Runner, Commit(r) PROVE UpsInv'
    <2>1. cmd[r] = "up"
      BY <1>5 DEF UpsInv, OnlyUps, Commit
    <2>2. PICK m \in Migration :
            /\ pc[r] = "transaction" /\ Turn(r, m) /\ Insertable(m) /\ Change(r, m)
            /\ todo' = [todo EXCEPT ![r] = @ \ {m}]
            /\ pc' = [pc EXCEPT ![r] = "ok"] \/ pc' = [pc EXCEPT ![r] = "next"]
      BY <1>5, <2>1 DEF Commit, Goto
    <2>3. /\ OnlyFailuresAreUncertain' /\ InOrder'
          /\ effect'[m] = 1 /\ \A n \in Migration \ {m} : effect'[n] = effect[n]
      BY <2>2, ApplyStep
    <2>4. OnlyUps'
      BY <1>1, <1>5, <2>1, <2>2 DEF Commit, UpsInv, OnlyUps, TypeOK
    <2>5. NothingSkipped'
      <3>1. todo'[r] = todo[r] \ {m} /\ \A q \in Runner \ {r} : todo'[q] = todo[q] /\ pc'[q] = pc[q]
        BY <1>1, <2>2 DEF TypeOK
      <3> QED BY <2>2, <2>3, <3>1 DEF UpsInv, NothingSkipped
    <2> QED BY <1>1, <2>3, <2>4, <2>5 DEF UpsInv
  <1>6. ASSUME NEW r \in Runner, CommitFails(r) PROVE UpsInv'
    <2>1. cmd[r] = "up"
      BY <1>6 DEF UpsInv, OnlyUps, CommitFails
    <2>2. PICK m \in Migration :
            /\ pc[r] = "transaction" /\ Turn(r, m)
            /\ (Insertable(m) /\ Change(r, m)) \/ UNCHANGED db
            /\ todo' = [todo EXCEPT ![r] = {}] /\ pc' = [pc EXCEPT ![r] = "failed"]
            /\ UNCHANGED cmd
      BY <1>6, <2>1 DEF CommitFails, Goto
    <2>3. /\ OnlyFailuresAreUncertain' /\ InOrder'
          /\ \A n \in Migration : effect[n] = 1 => effect'[n] = 1
      <3>1. CASE Insertable(m) /\ Change(r, m)
        BY <2>2, <3>1, ApplyStep
      <3>2. CASE UNCHANGED db
        BY <3>2 DEF db, UpsInv, OnlyFailuresAreUncertain, InOrder
      <3> QED BY <2>2, <3>1, <3>2
    <2>4. OnlyUps'
      BY <1>1, <2>1, <2>2 DEF UpsInv, OnlyUps, TypeOK
    <2>5. NothingSkipped'
      <3>1. /\ pc'[r] = "failed"
            /\ \A q \in Runner \ {r} : todo'[q] = todo[q] /\ pc'[q] = pc[q]
        BY <1>1, <2>2 DEF TypeOK
      <3> QED BY <2>3, <3>1 DEF UpsInv, NothingSkipped
    <2> QED BY <1>1, <2>3, <2>4, <2>5 DEF UpsInv
  <1>7. ASSUME NEW r \in Runner, RecordFailure(r) PROVE UpsInv'
    <2>1. /\ UNCHANGED <<effect, cmd>> /\ pc[r] = "aborted"
          /\ pc' = [pc EXCEPT ![r] = "failed"] /\ todo' = [todo EXCEPT ![r] = {}]
          /\ \/ record' = record
             \/ \E m \in Migration : record' = [record EXCEPT ![m] = "failed"]
      BY <1>7 DEF RecordFailure, Goto, Set, Failure
    <2>2. \A n \in Migration : record'[n] = record[n] \/ record'[n] = "failed"
      BY <1>1, <2>1 DEF TypeOK
    <2>3. OnlyFailuresAreUncertain' /\ InOrder'
      BY <2>1, <2>2 DEF UpsInv, OnlyFailuresAreUncertain, InOrder
    <2>4. OnlyUps'
      BY <1>1, <2>1 DEF UpsInv, OnlyUps, TypeOK
    <2>5. NothingSkipped'
      <3>1. /\ pc'[r] = "failed"
            /\ \A q \in Runner \ {r} : todo'[q] = todo[q] /\ pc'[q] = pc[q]
        BY <1>1, <2>1 DEF TypeOK
      <3> QED BY <2>1, <3>1 DEF UpsInv, NothingSkipped
    <2> QED BY <1>1, <2>3, <2>4, <2>5 DEF UpsInv
  <1>8. ASSUME NEW r \in Runner, ShowStatus(r) \/ NotConnected(r) PROVE UpsInv'
    <2>1. /\ UNCHANGED <<record, effect, cmd, todo>>
          /\ pc' = [pc EXCEPT ![r] = "ok"] \/ pc' = [pc EXCEPT ![r] = "failed"]
      BY <1>8 DEF ShowStatus, NotConnected, Brief, Goto, db
    <2>2. /\ pc'[r] \in {"ok", "failed"}
          /\ \A q \in Runner \ {r} : pc'[q] = pc[q]
      BY <1>1, <2>1 DEF TypeOK
    <2>3. OnlyUps' /\ NothingSkipped'
      BY <2>1, <2>2 DEF UpsInv, OnlyUps, NothingSkipped
    <2> QED BY <1>1, <2>1, <2>3 DEF UpsInv, OnlyFailuresAreUncertain, InOrder
  <1> QED BY <1>2, <1>3, <1>4, <1>5, <1>6, <1>7, <1>8 DEF Next

\* Until the first rollback, UpInv holds for any number of processes.
THEOREM UpInvariant == Spec => []UpInv
  <1>1. Init => OnceInv /\ UpInv
    BY InitInv DEF UpInv
  <1>2. OnceInv /\ UpInv /\ [Next]_vars => OnceInv' /\ UpInv'
    <2>1. SUFFICES ASSUME OnceInv, UpInv, [Next]_vars PROVE OnceInv' /\ UpInv'
      OBVIOUS
    <2>2. rolledBack => rolledBack'
      BY <2>1 DEF Next, Start, ShowStatus, NotConnected, Brief, Begin, Commit, Abort, CommitFails,
                     RecordFailure, vars, process
    <2>3. ~rolledBack' => UpsInv'
      BY <2>1, <2>2, UpStep DEF UpInv
    <2> QED BY <2>1, <2>3, OnceStep DEF UpInv
  <1> QED BY <1>1, <1>2, PTL DEF Spec

\* Until the first rollback, migrations run in order although processes that run
\* up at once fail each other.
THEOREM MigrationsInOrder == Spec => [](rolledBack \/ InOrder)
  <1>1. UpInv => rolledBack \/ InOrder
    BY DEF UpInv, UpsInv
  <1> QED BY <1>1, UpInvariant, PTL
-----------------------------------------------------------------------------
(* A rollback reverts what was applied last *)

LEMMA InitRollback == Init => RollbackInv
  BY InitInv DEF Init, RollbackInv, RunsAlone, RevertsLatest, Ended

\* A process that nothing runs beside is the only one that takes steps which
\* change the records, or the next one to start makes it no longer so.
LEMMA AloneStep == ASSUME RollbackInv, [Next]_vars PROVE RunsAlone'
  <1> USE DEF RunsAlone, Ended
  <1>1. /\ pc \in [Runner -> Ended \cup {"next", "transaction", "aborted"}]
        /\ clean \in [Runner -> BOOLEAN] /\ RunsAlone
    BY DEF RollbackInv, OnceInv, TypeOK
  <1>2. ASSUME NEW r \in Runner, NEW c \in Commands, Start(r, c) PROVE RunsAlone'
    <2> DEFINE others == {q \in Runner \ {r} : pc[q] \notin Ended}
    <2>1. /\ clean'[r] => others = {}
          /\ \A q \in Runner \ {r} : clean'[q] => pc[q] \in Ended
      <3>1. clean' = [q \in Runner |-> IF q = r THEN others = {}
                                       ELSE clean[q] /\ q \notin others]
        BY <1>2 DEF Start
      <3>2. clean'[r] = (others = {})
        BY <3>1
      <3>3. \A q \in Runner \ {r} : clean'[q] = (clean[q] /\ q \notin others)
        BY <3>1
      <3> QED BY <3>2, <3>3
    <2>2. \A q \in Runner \ {r} : pc'[q] = pc[q]
      BY <1>1, <1>2 DEF Start, Goto
    <2> QED BY <2>1, <2>2
  <1>3. ASSUME NEW r \in Runner, ShowStatus(r) \/ NotConnected(r) PROVE RunsAlone'
    <2>1. /\ UNCHANGED clean /\ pc[r] \in Ended
          /\ pc' = [pc EXCEPT ![r] = "ok"] \/ pc' = [pc EXCEPT ![r] = "failed"]
      BY <1>3 DEF ShowStatus, NotConnected, Brief, Goto
    <2> QED BY <1>1, <2>1
  <1>4. ASSUME NEW r \in Runner,
               Begin(r) \/ Commit(r) \/ Abort(r) \/ CommitFails(r) \/ RecordFailure(r)
        PROVE  RunsAlone'
    <2>1. /\ pc[r] \in {"next", "transaction", "aborted"}
          /\ clean' = clean \/ clean' = [clean EXCEPT ![r] = FALSE]
          /\ \E step \in {"ok", "next", "transaction", "aborted", "failed"} :
                 pc' = [pc EXCEPT ![r] = step]
      BY <1>4 DEF Begin, Commit, Abort, CommitFails, RecordFailure, Goto
    <2> QED BY <1>1, <2>1
  <1>5. CASE UNCHANGED vars
    <2>1. pc' = pc /\ clean' = clean
      BY <1>5 DEF vars, process
    <2> QED BY <1>1, <2>1
  <1> QED BY <1>2, <1>3, <1>4, <1>5 DEF Next

\* The records of a process that nothing runs beside stay as it read them but for
\* what it reverts itself.
LEMMA LatestStep == ASSUME RollbackInv, [Next]_vars PROVE RevertsLatest'
  <1> USE DEF RevertsLatest
  <1>1. TypeOK /\ RunsAlone /\ RevertsLatest
    BY DEF RollbackInv, OnceInv
  <1> USE DEF TypeOK
  <1>2. ASSUME NEW r \in Runner, NEW c \in Commands, Start(r, c) PROVE RevertsLatest'
    <2>1. /\ UNCHANGED <<record, at>>
          /\ cmd' = [cmd EXCEPT ![r] = c]
          /\ todo' = [todo EXCEPT ![r] = IF c = "up" THEN Pending ELSE Latest]
          /\ \A q \in Runner \ {r} : pc'[q] = pc[q]
      BY <1>1, <1>2 DEF Start, Goto, db
    <2>2. Latest' = Latest
      BY <2>1 DEF Latest, HasStatus
    <2>3. cmd'[r] = c /\ todo'[r] = IF c = "up" THEN Pending ELSE Latest
      BY <1>1, <2>1
    <2>4. \A q \in Runner \ {r} : /\ cmd'[q] = cmd[q] /\ todo'[q] = todo[q]
                                  /\ clean'[q] => clean[q]
      BY <1>1, <1>2, <2>1 DEF Start
    <2> QED BY <1>1, <2>1, <2>2, <2>3, <2>4
  <1>3. ASSUME NEW r \in Runner, ShowStatus(r) \/ NotConnected(r) PROVE RevertsLatest'
    <2>1. /\ UNCHANGED <<record, at, clean, cmd, todo>>
          /\ pc' = [pc EXCEPT ![r] = "ok"] \/ pc' = [pc EXCEPT ![r] = "failed"]
      BY <1>3 DEF ShowStatus, NotConnected, Brief, Goto, db
    <2>2. Latest' = Latest
      BY <2>1 DEF Latest, HasStatus
    <2> QED BY <1>1, <2>1, <2>2
  <1>4. ASSUME NEW r \in Runner, Begin(r) \/ Abort(r) PROVE RevertsLatest'
    <2>1. /\ UNCHANGED <<record, at, cmd, todo>>
          /\ clean' = clean \/ clean' = [clean EXCEPT ![r] = FALSE]
          /\ \/ pc[r] = "next" /\ pc' = [pc EXCEPT ![r] = "transaction"]
             \/ pc' = [pc EXCEPT ![r] = "aborted"]
      BY <1>4 DEF Begin, Abort, Goto, db
    <2>2. Latest' = Latest
      BY <2>1 DEF Latest, HasStatus
    <2> QED BY <1>1, <2>1, <2>2
  \* Beside a process that runs, none is clean.
  <1>5. ASSUME NEW r \in Runner, pc[r] \notin Ended, NEW q \in Runner \ {r},
               clean[q] /\ pc[q] \in {"next", "transaction"}
        PROVE  FALSE
    BY <1>1, <1>5 DEF RunsAlone, Ended
  <1>6. ASSUME NEW r \in Runner, Commit(r) PROVE RevertsLatest'
    <2>1. PICK m \in Migration :
            /\ pc[r] = "transaction" /\ Change(r, m)
            /\ todo' = [todo EXCEPT ![r] = @ \ {m}]
            /\ pc' = [pc EXCEPT ![r] = "ok"] \/ pc' = [pc EXCEPT ![r] = "next"]
            /\ UNCHANGED <<cmd, clean>>
      BY <1>6 DEF Commit, Goto
    <2>2. cmd[r] # "up" => Latest \ {m} \subseteq Latest'
      BY <1>1, <2>1 DEF Change, Set, Latest, HasStatus
    <2>3. \A q \in Runner \ {r} : ~(clean'[q] /\ pc'[q] \in {"next", "transaction"})
      BY <1>1, <1>5, <2>1 DEF Ended
    <2> QED BY <1>1, <2>1, <2>2, <2>3
  <1>7. ASSUME NEW r \in Runner, CommitFails(r) \/ RecordFailure(r) PROVE RevertsLatest'
    <2>1. /\ pc[r] \in {"transaction", "aborted"} /\ pc' = [pc EXCEPT ![r] = "failed"]
          /\ clean' = clean \/ clean' = [clean EXCEPT ![r] = FALSE]
      BY <1>7 DEF CommitFails, RecordFailure, Goto
    <2>2. \A q \in Runner \ {r} : ~(clean'[q] /\ pc'[q] \in {"next", "transaction"})
      BY <1>1, <1>5, <2>1 DEF Ended
    <2> QED BY <1>1, <2>1, <2>2
  <1>8. CASE UNCHANGED vars
    BY <1>1, <1>8 DEF vars, db, process, Latest, HasStatus
  <1> QED BY <1>2, <1>3, <1>4, <1>6, <1>7, <1>8 DEF Next

THEOREM RollbackInvariant == Spec => []RollbackInv
  <1>1. RollbackInv /\ [Next]_vars => RollbackInv'
    BY OnceStep, AloneStep, LatestStep DEF RollbackInv
  <1> QED BY <1>1, InitRollback, PTL DEF Spec

\* With no failure on record, what is in effect has a record, so the latest record
\* is of what was applied last.
LEMMA RollbackStep ==
  ASSUME RollbackInv, [Next]_vars, NEW r \in Runner, NEW m \in Migration, NEW n \in Migration,
         pc[r] = "transaction", pc'[r] # "transaction", clean[r],
         \A k \in Migration : record[k] # "failed",
         effect'[m] < effect[m], effect[n] > 0
  PROVE  at[n] <= at[m]
  <1>1. /\ TypeOK /\ InsertableIsNotInEffect
        /\ RevertsLatest /\ effect[m] \in Int /\ effect[n] \in Int
    BY DEF RollbackInv, OnceInv, TypeOK
  <1>2. HasStatus(n)
    BY <1>1 DEF InsertableIsNotInEffect, TypeOK, HasStatus
  <1>3. Commit(r) \/ CommitFails(r)
    <2>1. ASSUME NEW q \in Runner, Commit(q) \/ CommitFails(q), q # r PROVE FALSE
      BY <1>1, <2>1 DEF Commit, CommitFails, Goto, TypeOK
    <2>2. ~(UNCHANGED effect)
      BY <1>1
    <2> QED BY <2>1, <2>2 DEF Next, vars, db, Start, ShowStatus, NotConnected, Brief, Begin,
                              Abort, RecordFailure
  <1>4. PICK k \in Migration :
          Turn(r, k) /\ Change(r, k) /\ (cmd[r] = "up" => Insertable(k))
    <2>1. ~UNCHANGED db
      BY <1>1 DEF db
    <2> QED BY <1>3, <2>1 DEF Commit, CommitFails
  <1>5. k = m /\ cmd[r] # "up"
    BY <1>1, <1>4, ChangeDB DEF TypeOK
  <1>6. m \in Latest
    BY <1>1, <1>4, <1>5 DEF RevertsLatest, Turn
  <1> QED BY <1>2, <1>6 DEF Latest

\* A rollback reverts the migration that was applied last, as long as no failure
\* hides one and nothing runs beside it.
THEOREM RollbackOfTheLast == Spec => RollsBackLast
  <1>1. RollbackInv /\ [Next]_vars =>
          \A r \in Runner, m, n \in Migration :
            /\ pc[r] = "transaction" /\ pc'[r] # "transaction" /\ clean[r]
            /\ \A k \in Migration : record[k] # "failed"
            /\ effect'[m] < effect[m] /\ effect[n] > 0
            => at[n] <= at[m]
    BY RollbackStep
  <1> QED BY <1>1, RollbackInvariant, PTL DEF Spec, RollsBackLast
=============================================================================
