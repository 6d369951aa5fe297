----------------------- MODULE EmailDelivery_proofs -----------------------
(***************************************************************************)
(* Proofs about EmailDelivery and, at the end, about EmailService around   *)
(* it, for any calls, providers and faults.                                *)
(*                                                                         *)
(* The argument: a provider that a failover loop has yet to try has not    *)
(* accepted the mail, so it accepts it once; a call is accepted only by    *)
(* such a step, and only then does a log carry a message id, in the same   *)
(* update that marks it sent; so a bounce finds a log that no later step   *)
(* of its call will write.                                                 *)
(***************************************************************************)
EXTENDS EmailService, FiniteSetTheorems, TLAPS

-----------------------------------------------------------------------------
(* The inductive invariant *)

\* The invariant holds of the initial state.
LEMMA InitInv == Init => DeliveryInv
  BY DeliveryAssumption
     DEF Init, DeliveryInv, TypeOK, UntriedIsUnsent, GotWasAccepted, LogFollowsCall,
         SentWasAccepted, OncePerProvider, AnsweredBounceIsRecorded, Step, Settled,
         Failure, Log, NoLog, Action, Mailed

\* Setting one log leaves the others alone.
LEMMA LogUpdate ==
  ASSUME TypeOK, NEW c \in Call, NEW entry \in Log, SetLog(c, entry)
  PROVE  /\ log' \in [Call -> Log] /\ log'[c] = entry
         /\ \A d \in Call \ {c} : log'[d] = log[d]
  BY DEF TypeOK, SetLog

\* The entries that the steps write.
LEMMA Entries ==
  ASSUME TypeOK, NEW c \in Call
  PROVE  /\ [NoLog EXCEPT !.status = "queued"] \in Log
         /\ [log[c] EXCEPT !.status = "bounced"] \in Log
         /\ [log[c] EXCEPT !.status = "failed", !.error = "CB_OPEN"] \in Log
         /\ \A p \in Provider :
              [log[c] EXCEPT !.status = "sent", !.provider = p] \in Log
  <1>1. log[c] \in Log
    BY DEF TypeOK
  <1>2. [NoLog EXCEPT !.status = "queued"] \in Log
    BY DEF Log, NoLog
  <1>3. [log[c] EXCEPT !.status = "bounced"] \in Log
    BY <1>1 DEF Log
  <1>4. [log[c] EXCEPT !.status = "failed", !.error = "CB_OPEN"] \in Log
    BY <1>1 DEF Log
  <1>5. ASSUME NEW p \in Provider
        PROVE  [log[c] EXCEPT !.status = "sent", !.provider = p] \in Log
    BY <1>1 DEF Log
  <1> QED BY <1>2, <1>3, <1>4, <1>5

\* A mail that a provider had not accepted is accepted once.
LEMMA DeliverOnce ==
  ASSUME TypeOK, NEW c \in Call, NEW p \in Provider, mails[c][p] = 0, Deliver(c, p)
  PROVE  /\ mails' \in [Call -> [Provider -> Nat]]
         /\ mails'[c][p] = 1
         /\ \A d \in Call, q \in Provider :
              (d # c \/ q # p) => mails'[d][q] = mails[d][q]
  <1>1. mails \in [Call -> [Provider -> Nat]]
    BY DEF TypeOK
  <1>2. mails' = [mails EXCEPT ![c] = [mails[c] EXCEPT ![p] = mails[c][p] + 1]]
    BY <1>1 DEF Deliver
  <1>3. /\ mails'[c] = [mails[c] EXCEPT ![p] = 1]
        /\ \A d \in Call \ {c} : mails'[d] = mails[d]
    BY <1>1, <1>2
  <1>4. [mails[c] EXCEPT ![p] = 1] \in [Provider -> Nat]
    BY <1>1
  <1>5. mails' \in [Call -> [Provider -> Nat]]
    BY <1>1, <1>2, <1>3, <1>4
  <1> QED BY <1>1, <1>3, <1>5

\* Creating a log keeps the invariant.
LEMMA CreateStep ==
  ASSUME DeliveryInv, NEW c \in Call, CreateLog(c) PROVE DeliveryInv'
  <1>1. /\ pc[c] = "log" /\ log[c] = NoLog
        /\ UNCHANGED log \/ SetLog(c, [NoLog EXCEPT !.status = "queued"])
        /\ known' \in {known, known \cup {c}}
        /\ pc' = [pc EXCEPT ![c] = "fire"]
        /\ UNCHANGED <<pref, left, got, mails, breaker, fate, reply>>
    BY DEF CreateLog, Created, DeliveryInv, LogFollowsCall, Goto, hook, Write
  <1>2. /\ log' \in [Call -> Log]
        /\ log'[c].status \in {"absent", "queued"} /\ log'[c].provider = None
        /\ \A d \in Call \ {c} : log'[d] = log[d]
    <2>1. TypeOK /\ log \in [Call -> Log]
      BY DEF DeliveryInv, TypeOK
    <2>2. CASE UNCHANGED log
      BY <1>1, <2>1, <2>2 DEF NoLog
    <2>3. CASE SetLog(c, [NoLog EXCEPT !.status = "queued"])
      <3>1. [NoLog EXCEPT !.status = "queued"] \in Log
        BY <2>1, Entries
      <3>2. /\ log' \in [Call -> Log] /\ log'[c] = [NoLog EXCEPT !.status = "queued"]
            /\ \A d \in Call \ {c} : log'[d] = log[d]
        BY <2>1, <2>3, <3>1, LogUpdate
      <3> QED BY <3>2 DEF NoLog
    <2> QED BY <1>1, <2>2, <2>3
  <1>3. TypeOK'
    BY <1>1, <1>2 DEF DeliveryInv, TypeOK, Step
  <1>4. UntriedIsUnsent' /\ GotWasAccepted' /\ OncePerProvider'
    BY <1>1 DEF DeliveryInv, TypeOK, UntriedIsUnsent, GotWasAccepted, OncePerProvider
  <1>5. LogFollowsCall'
    BY <1>1, <1>2 DEF DeliveryInv, TypeOK, LogFollowsCall, Failure
  <1>6. SentWasAccepted'
    <2>1. \A d \in Call : pc'[d] = "sent" => pc[d] = "sent"
      BY <1>1 DEF DeliveryInv, TypeOK
    <2>2. \A d \in Call : log'[d].status \in {"sent", "bounced"} => log'[d] = log[d]
      BY <1>2
    <2>3. mails' = mails
      BY <1>1
    <2>4. \A d \in Call : pc'[d] = "sent" => \E p \in Provider : mails'[d][p] > 0
      BY <2>1, <2>3 DEF DeliveryInv, SentWasAccepted, Mailed
    <2>5. \A d \in Call : log'[d].status \in {"sent", "bounced"} =>
            log'[d].provider # None /\ mails'[d][log'[d].provider] > 0
      BY <2>2, <2>3 DEF DeliveryInv, SentWasAccepted
    <2> QED BY <2>4, <2>5 DEF SentWasAccepted, Mailed
  <1>7. AnsweredBounceIsRecorded'
    <2>1. reply' = reply /\ log[c].status # "bounced"
      BY <1>1 DEF NoLog
    <2>2. \A p \in Provider : reply[c][p] \notin Action
      BY <2>1 DEF DeliveryInv, AnsweredBounceIsRecorded
    <2> QED BY <1>2, <2>1, <2>2 DEF DeliveryInv, AnsweredBounceIsRecorded
  <1> QED BY <1>3, <1>4, <1>5, <1>6, <1>7 DEF DeliveryInv

\* So does firing the breaker: the providers it has yet to try got nothing.
LEMMA FireStep ==
  ASSUME DeliveryInv, NEW c \in Call, Fire(c) PROVE DeliveryInv'
  <1>1. /\ pc[c] = "fire"
        /\ UNCHANGED <<pref, got, mails, known, log, fate, reply>>
    BY DEF Fire, logs, hook
  <1>2. \/ /\ pc' = [pc EXCEPT ![c] = "waiting"]
           /\ left' = [left EXCEPT ![c] = Provider]
           /\ breaker' = breaker \/ breaker' = "probing"
        \/ /\ pc' = [pc EXCEPT ![c] = "rejected"]
           /\ UNCHANGED <<left, breaker>>
    BY DEF Fire, Goto
  <1>3. TypeOK'
    <2>1. pc' \in [Call -> Step] /\ breaker' \in {"closed", "open", "halfOpen", "probing"}
      BY <1>2 DEF DeliveryInv, TypeOK, Step, Failure
    <2>2. left' \in [Call -> SUBSET Provider]
      BY <1>2 DEF DeliveryInv, TypeOK
    <2> QED BY <1>1, <2>1, <2>2 DEF DeliveryInv, TypeOK
  <1>4. UntriedIsUnsent' /\ GotWasAccepted' /\ OncePerProvider'
    <2>1. \A p \in Provider : mails[c][p] = 0
      BY <1>1 DEF DeliveryInv, UntriedIsUnsent
    <2>2. \A d \in Call \ {c} : pc'[d] = pc[d] /\ left'[d] = left[d]
      BY <1>2 DEF DeliveryInv, TypeOK
    <2>3. /\ \/ pc'[c] = "waiting"
             \/ pc'[c] = "rejected" /\ left'[c] = left[c]
          /\ left'[c] \subseteq Provider
      BY <1>2 DEF DeliveryInv, TypeOK
    <2>4. UntriedIsUnsent'
      BY <1>1, <2>1, <2>2, <2>3 DEF DeliveryInv, UntriedIsUnsent
    <2>5. GotWasAccepted' /\ OncePerProvider'
      BY <1>1, <2>2, <2>3 DEF DeliveryInv, GotWasAccepted, OncePerProvider
    <2> QED BY <2>4, <2>5
  <1>5. LogFollowsCall'
    BY <1>1, <1>2 DEF DeliveryInv, TypeOK, LogFollowsCall, Failure
  <1>6. SentWasAccepted' /\ AnsweredBounceIsRecorded'
    BY <1>1, <1>2 DEF DeliveryInv, TypeOK, SentWasAccepted, Mailed, AnsweredBounceIsRecorded
  <1> QED BY <1>3, <1>4, <1>5, <1>6 DEF DeliveryInv

\* A timeout, and the arrival of a call, change nothing the invariant is about.
LEMMA TimeoutStep ==
  ASSUME DeliveryInv, NEW c \in Call, Timeout(c) PROVE DeliveryInv'
  <1>1. /\ pc[c] = "waiting" /\ pc' = [pc EXCEPT ![c] = "timedOut"]
        /\ breaker' \in {"closed", "open"}
        /\ UNCHANGED <<pref, left, got, mails, known, log, fate, reply>>
    BY DEF Timeout, TimesOut, Goto, BreakerFails, logs, hook
  <1>2. TypeOK'
    BY <1>1 DEF DeliveryInv, TypeOK, Step, Failure
  <1>3. UntriedIsUnsent' /\ GotWasAccepted' /\ OncePerProvider'
    BY <1>1 DEF DeliveryInv, TypeOK, UntriedIsUnsent, GotWasAccepted, OncePerProvider
  <1>4. LogFollowsCall' /\ SentWasAccepted' /\ AnsweredBounceIsRecorded'
    BY <1>1 DEF DeliveryInv, TypeOK, LogFollowsCall, Failure, SentWasAccepted, Mailed,
                AnsweredBounceIsRecorded
  <1> QED BY <1>2, <1>3, <1>4 DEF DeliveryInv

LEMMA CalledStep ==
  ASSUME DeliveryInv, NEW c \in Call, NEW p \in Provider \cup {None}, Called(c, p)
  PROVE  DeliveryInv'
  <1>1. /\ pc[c] = "idle" /\ pc' = [pc EXCEPT ![c] = "log"]
        /\ pref' = [pref EXCEPT ![c] = p]
        /\ UNCHANGED <<left, got, mails, breaker, known, log, fate, reply>>
    BY DEF Called, Goto, logs, hook
  <1>2. TypeOK'
    BY <1>1 DEF DeliveryInv, TypeOK, Step
  <1>3. UntriedIsUnsent' /\ GotWasAccepted' /\ OncePerProvider'
    BY <1>1 DEF DeliveryInv, TypeOK, UntriedIsUnsent, GotWasAccepted, OncePerProvider
  <1>4. LogFollowsCall' /\ SentWasAccepted' /\ AnsweredBounceIsRecorded'
    BY <1>1 DEF DeliveryInv, TypeOK, LogFollowsCall, Failure, SentWasAccepted, Mailed,
                AnsweredBounceIsRecorded
  <1> QED BY <1>2, <1>3, <1>4 DEF DeliveryInv

\* The log that is marked sent names the provider whose acceptance resolved the
\* call, and no bounce was recorded in it before.
LEMMA MarkSentStep ==
  ASSUME DeliveryInv, NEW c \in Call, MarkSent(c) PROVE DeliveryInv'
  <1>1. /\ pc[c] = "accepted" /\ got[c] \in Provider /\ mails[c][got[c]] > 0
        /\ log[c].status \in {"absent", "queued"} /\ log[c].provider = None
    BY DEF MarkSent, DeliveryInv, GotWasAccepted, LogFollowsCall
  <1>2. /\ \/ UNCHANGED log
           \/ SetLog(c, [log[c] EXCEPT !.status = "sent", !.provider = got[c]])
        /\ pc' = [pc EXCEPT ![c] = "sent"]
        /\ UNCHANGED <<pref, left, got, mails, breaker, known, fate, reply>>
    BY DEF MarkSent, Goto, AfterUpdate, hook
  <1>3. /\ log' \in [Call -> Log]
        /\ \/ log'[c] = log[c]
           \/ log'[c].status = "sent" /\ log'[c].provider = got[c]
        /\ \A d \in Call \ {c} : log'[d] = log[d]
    <2>1. TypeOK /\ log \in [Call -> Log]
      BY DEF DeliveryInv, TypeOK
    <2>2. CASE UNCHANGED log
      BY <2>1, <2>2
    <2>3. CASE SetLog(c, [log[c] EXCEPT !.status = "sent", !.provider = got[c]])
      <3>1. [log[c] EXCEPT !.status = "sent", !.provider = got[c]] \in Log
        BY <1>1, <2>1, Entries
      <3>2. /\ log' \in [Call -> Log]
            /\ log'[c] = [log[c] EXCEPT !.status = "sent", !.provider = got[c]]
            /\ \A d \in Call \ {c} : log'[d] = log[d]
        BY <2>1, <2>3, <3>1, LogUpdate
      <3> QED BY <2>1, <3>2 DEF Log
    <2> QED BY <1>2, <2>2, <2>3
  <1>4. TypeOK'
    BY <1>2, <1>3 DEF DeliveryInv, TypeOK, Step, Settled
  <1>5. UntriedIsUnsent' /\ GotWasAccepted' /\ OncePerProvider'
    BY <1>1, <1>2 DEF DeliveryInv, TypeOK, UntriedIsUnsent, GotWasAccepted, OncePerProvider
  <1>6. LogFollowsCall'
    BY <1>1, <1>2, <1>3, DeliveryAssumption DEF DeliveryInv, TypeOK, LogFollowsCall, Failure
  <1>7. SentWasAccepted'
    <2>1. Mailed(c)'
      BY <1>1, <1>2 DEF Mailed
    <2> QED BY <1>1, <1>2, <1>3, <2>1, DeliveryAssumption
               DEF DeliveryInv, TypeOK, SentWasAccepted, Mailed
  <1>8. AnsweredBounceIsRecorded'
    BY <1>1, <1>2, <1>3 DEF DeliveryInv, TypeOK, AnsweredBounceIsRecorded
  <1> QED BY <1>4, <1>5, <1>6, <1>7, <1>8 DEF DeliveryInv

LEMMA MarkFailedStep ==
  ASSUME DeliveryInv, NEW c \in Call, MarkFailed(c) PROVE DeliveryInv'
  <1>1. /\ pc[c] \in Failure
        /\ log[c].status \in {"absent", "queued"} /\ log[c].provider = None
    BY DEF MarkFailed, DeliveryInv, LogFollowsCall
  <1>2. /\ \/ UNCHANGED log
           \/ SetLog(c, [log[c] EXCEPT !.status = "failed", !.error = "CB_OPEN"])
        /\ pc' = [pc EXCEPT ![c] = "failed"]
        /\ UNCHANGED <<pref, left, got, mails, breaker, known, fate, reply>>
    BY DEF MarkFailed, Goto, Fallback, hook
  <1>3. /\ log' \in [Call -> Log]
        /\ log'[c] = log[c] \/ log'[c].status = "failed"
        /\ log'[c].provider = None
        /\ \A d \in Call \ {c} : log'[d] = log[d]
    <2>1. TypeOK /\ log \in [Call -> Log]
      BY DEF DeliveryInv, TypeOK
    <2>2. CASE UNCHANGED log
      BY <1>1, <2>1, <2>2
    <2>3. CASE SetLog(c, [log[c] EXCEPT !.status = "failed", !.error = "CB_OPEN"])
      <3>1. [log[c] EXCEPT !.status = "failed", !.error = "CB_OPEN"] \in Log
        BY <2>1, Entries
      <3>2. /\ log' \in [Call -> Log]
            /\ log'[c] = [log[c] EXCEPT !.status = "failed", !.error = "CB_OPEN"]
            /\ \A d \in Call \ {c} : log'[d] = log[d]
        BY <2>1, <2>3, <3>1, LogUpdate
      <3> QED BY <1>1, <2>1, <3>2 DEF Log
    <2> QED BY <1>2, <2>2, <2>3
  <1>4. TypeOK'
    BY <1>2, <1>3 DEF DeliveryInv, TypeOK, Step, Settled
  <1>5. UntriedIsUnsent' /\ GotWasAccepted' /\ OncePerProvider'
    BY <1>1, <1>2 DEF DeliveryInv, TypeOK, UntriedIsUnsent, GotWasAccepted, OncePerProvider
  <1>6. LogFollowsCall'
    BY <1>1, <1>2, <1>3 DEF DeliveryInv, TypeOK, LogFollowsCall, Failure
  <1>7. SentWasAccepted' /\ AnsweredBounceIsRecorded'
    BY <1>1, <1>2, <1>3 DEF DeliveryInv, TypeOK, SentWasAccepted, Mailed,
                            AnsweredBounceIsRecorded
  <1> QED BY <1>4, <1>5, <1>6, <1>7 DEF DeliveryInv

\* A provider takes its turn only once, so it had not accepted the mail before.
LEMMA AcceptStep ==
  ASSUME DeliveryInv, NEW c \in Call, NEW p \in Provider, ProviderAccepts(c, p)
  PROVE  DeliveryInv'
  <1>1. /\ p \in left[c] /\ mails[c][p] = 0
        /\ pc[c] \notin {"idle", "log", "fire", "rejected"}
    BY DEF ProviderAccepts, Turn, DeliveryInv, UntriedIsUnsent
  <1>2. /\ mails' = [mails EXCEPT ![c][p] = @ + 1]
        /\ left' = [left EXCEPT ![c] = {}]
        /\ \/ /\ pc[c] = "waiting" /\ pc' = [pc EXCEPT ![c] = "accepted"]
              /\ got' = [got EXCEPT ![c] = p]
              /\ breaker' = breaker \/ breaker' = "closed"
           \/ UNCHANGED <<pc, got, breaker>>
        /\ UNCHANGED <<pref, known, log, fate, reply>>
    BY DEF ProviderAccepts, Deliver, Awaited, Goto, BreakerSucceeds, logs, hook
  <1>3. /\ mails' \in [Call -> [Provider -> Nat]]
        /\ mails'[c][p] = 1
        /\ \A d \in Call, q \in Provider :
             (d # c \/ q # p) => mails'[d][q] = mails[d][q]
    BY <1>1, DeliverOnce DEF DeliveryInv, ProviderAccepts
  <1>4. TypeOK'
    <2>1. pc' \in [Call -> Step]
      BY <1>2 DEF DeliveryInv, TypeOK, Step
    <2>3. got' \in [Call -> Provider \cup {None}]
      BY <1>2 DEF DeliveryInv, TypeOK
    <2>4. breaker' \in {"closed", "open", "halfOpen", "probing"}
      BY <1>2 DEF DeliveryInv, TypeOK
    <2>2. left' \in [Call -> SUBSET Provider]
      BY <1>2 DEF DeliveryInv, TypeOK
    <2> QED BY <1>2, <1>3, <2>1, <2>2, <2>3, <2>4 DEF DeliveryInv, TypeOK
  <1>5. UntriedIsUnsent' /\ OncePerProvider'
    <2>1. \A d \in Call : left'[d] \subseteq left[d] \ (IF d = c THEN {p} ELSE {})
      BY <1>2 DEF DeliveryInv, TypeOK
    <2>2. \A d \in Call : pc'[d] \in {"idle", "log", "fire", "rejected"}
                            => d # c /\ pc'[d] = pc[d]
      BY <1>1, <1>2 DEF DeliveryInv, TypeOK
    <2>3. UntriedIsUnsent'
      BY <1>3, <2>1, <2>2 DEF DeliveryInv, TypeOK, UntriedIsUnsent
    <2>4. OncePerProvider'
      BY <1>3 DEF DeliveryInv, OncePerProvider
    <2> QED BY <2>3, <2>4
  <1>6. GotWasAccepted'
    <2>1. \A d \in Call, q \in Provider : mails[d][q] > 0 => mails'[d][q] > 0
      BY <1>1, <1>3
    <2>2. \A d \in Call : \/ pc'[d] = pc[d] /\ got'[d] = got[d]
                          \/ d = c /\ got'[d] = p
      BY <1>2 DEF DeliveryInv, TypeOK
    <2>3. mails'[c][p] > 0
      BY <1>3
    <2> QED BY <2>1, <2>2, <2>3 DEF DeliveryInv, GotWasAccepted
  <1>7. LogFollowsCall' /\ AnsweredBounceIsRecorded'
    BY <1>2 DEF DeliveryInv, TypeOK, LogFollowsCall, Failure, AnsweredBounceIsRecorded
  <1>8. SentWasAccepted'
    <2>1. \A d \in Call, q \in Provider : mails[d][q] > 0 => mails'[d][q] > 0
      BY <1>1, <1>3
    <2>2. \A d \in Call : pc'[d] = "sent" => pc[d] = "sent"
      BY <1>2 DEF DeliveryInv, TypeOK
    <2> QED BY <1>2, <2>1, <2>2 DEF DeliveryInv, TypeOK, Log, SentWasAccepted, Mailed
  <1> QED BY <1>4, <1>5, <1>6, <1>7, <1>8 DEF DeliveryInv

LEMMA FailStep ==
  ASSUME DeliveryInv, NEW c \in Call, NEW p \in Provider, ProviderFails(c, p)
  PROVE  DeliveryInv'
  <1>1. /\ p \in left[c] /\ mails[c][p] = 0
        /\ pc[c] \notin {"idle", "log", "fire", "rejected"}
    BY DEF ProviderFails, Turn, DeliveryInv, UntriedIsUnsent
  <1>2. /\ mails' = mails \/ mails' = [mails EXCEPT ![c][p] = @ + 1]
        /\ left' = [left EXCEPT ![c] = @ \ {p}]
        /\ \/ /\ pc[c] = "waiting" /\ pc' = [pc EXCEPT ![c] = "undelivered"]
              /\ breaker' \in {"closed", "open"}
           \/ UNCHANGED <<pc, breaker>>
        /\ UNCHANGED <<pref, got, known, log, fate, reply>>
    BY DEF ProviderFails, Deliver, Awaited, Goto, AllFailed, Rest, BreakerFails, logs, hook
  <1>3. /\ mails' \in [Call -> [Provider -> Nat]]
        /\ mails'[c][p] \in {0, 1}
        /\ \A d \in Call, q \in Provider :
             (d # c \/ q # p) => mails'[d][q] = mails[d][q]
    <2>1. TypeOK /\ mails \in [Call -> [Provider -> Nat]]
      BY DEF DeliveryInv, TypeOK
    <2>2. CASE mails' = mails
      BY <1>1, <2>1, <2>2
    <2>3. CASE Deliver(c, p)
      BY <1>1, <2>1, <2>3, DeliverOnce
    <2> QED BY <1>2, <2>2, <2>3 DEF Deliver
  <1>4. TypeOK'
    BY <1>2, <1>3 DEF DeliveryInv, TypeOK, Step, Failure
  <1>5. UntriedIsUnsent' /\ OncePerProvider'
    <2>1. \A d \in Call : left'[d] \subseteq left[d] \ (IF d = c THEN {p} ELSE {})
      BY <1>2 DEF DeliveryInv, TypeOK
    <2>2. \A d \in Call : pc'[d] \in {"idle", "log", "fire", "rejected"}
                            => d # c /\ pc'[d] = pc[d]
      BY <1>1, <1>2 DEF DeliveryInv, TypeOK
    <2>3. UntriedIsUnsent'
      BY <1>3, <2>1, <2>2 DEF DeliveryInv, TypeOK, UntriedIsUnsent
    <2>4. OncePerProvider'
      BY <1>3 DEF DeliveryInv, OncePerProvider
    <2> QED BY <2>3, <2>4
  <1>6. LogFollowsCall' /\ AnsweredBounceIsRecorded'
    BY <1>2 DEF DeliveryInv, TypeOK, LogFollowsCall, Failure, AnsweredBounceIsRecorded
  <1>7. \A d \in Call, q \in Provider : mails[d][q] > 0 => mails'[d][q] > 0
    BY <1>1, <1>3
  <1>8. \A d \in Call : pc'[d] \in {"accepted", "sent"} => pc[d] = pc'[d]
    BY <1>2 DEF DeliveryInv, TypeOK
  <1>9. GotWasAccepted'
    BY <1>2, <1>7, <1>8 DEF DeliveryInv, GotWasAccepted
  <1>10. SentWasAccepted'
    BY <1>2, <1>7, <1>8 DEF DeliveryInv, TypeOK, Log, SentWasAccepted, Mailed
  <1> QED BY <1>4, <1>5, <1>6, <1>9, <1>10 DEF DeliveryInv

\* A webhook that answers with an action has marked the log of its message.
LEMMA WebhookStep ==
  ASSUME DeliveryInv, NEW c \in Call, NEW p \in Provider, Webhook(c, p)
  PROVE  DeliveryInv'
  <1>1. PICK r \in Action \cup {"none", "refused", "ignored", "notFound", "500"} :
          /\ reply' = [reply EXCEPT ![c][p] = r]
          /\ \/ UNCHANGED log /\ r \notin Action
             \/ SetLog(c, [log[c] EXCEPT !.status = "bounced"]) /\ Found(c, p)
    <2> DEFINE type == BounceType(p, fate[c][p])
    <2>0. PICK verified \in Verified(p) :
            LET Answer(r) == reply' = [reply EXCEPT ![c][p] = r] IN
            IF ~verified THEN Answer("refused") /\ UNCHANGED log
            ELSE IF type = "null" THEN Answer("ignored") /\ UNCHANGED log
            ELSE \E o \in Write :
                   /\ IF Written(o) /\ Found(c, p)
                      THEN SetLog(c, [log[c] EXCEPT !.status = "bounced"])
                      ELSE UNCHANGED log
                   /\ Answer(IF o # "ok" THEN "500"
                             ELSE IF Found(c, p) THEN ActionOf(p, type) ELSE "notFound")
      BY DEF Webhook
    <2>1. CASE ~verified
      BY <2>0, <2>1 DEF Action
    <2>2. CASE verified /\ type = "null"
      BY <2>0, <2>2 DEF Action
    <2>3. CASE verified /\ type # "null"
      <3>1. PICK o \in Write :
              /\ IF Written(o) /\ Found(c, p)
                 THEN SetLog(c, [log[c] EXCEPT !.status = "bounced"])
                 ELSE UNCHANGED log
              /\ reply' = [reply EXCEPT ![c][p] =
                            IF o # "ok" THEN "500"
                            ELSE IF Found(c, p) THEN ActionOf(p, type) ELSE "notFound"]
        BY <2>0, <2>3
      <3>2. fate[c][p] \in {"delivered", "complained", "soft", "hard"}
        BY DEF Webhook, DeliveryInv, TypeOK
      <3>3. type \in {"soft", "hard"}
        BY <2>3, <3>2 DEF BounceType, Parse, ParseResend, ParseMailersend
      <3>4. ActionOf(p, type) \in Action
        BY <3>3 DEF ActionOf, Action
      <3>5. CASE o = "ok" /\ Found(c, p)
        BY <3>1, <3>4, <3>5 DEF Written
      <3>6. CASE o # "ok"
        BY <3>1, <3>6 DEF Action
      <3>7. CASE o = "ok" /\ ~Found(c, p)
        BY <3>1, <3>7 DEF Action
      <3> QED BY <3>5, <3>6, <3>7
    <2> QED BY <2>1, <2>2, <2>3
  <1>2. UNCHANGED <<pc, pref, left, got, mails, breaker, known, fate>>
    BY DEF Webhook, call
  <1>3. /\ log' \in [Call -> Log] /\ log'[c].provider = log[c].provider
        /\ \/ log'[c] = log[c]
           \/ log'[c].status = "bounced" /\ log[c].provider = p
        /\ r \in Action => log'[c].status = "bounced"
        /\ \A d \in Call \ {c} : log'[d] = log[d]
    <2>1. TypeOK /\ log \in [Call -> Log]
      BY DEF DeliveryInv, TypeOK
    <2>2. CASE UNCHANGED log /\ r \notin Action
      BY <2>1, <2>2
    <2>3. CASE SetLog(c, [log[c] EXCEPT !.status = "bounced"]) /\ Found(c, p)
      <3>1. [log[c] EXCEPT !.status = "bounced"] \in Log
        BY <2>1, Entries
      <3>2. /\ log' \in [Call -> Log] /\ log'[c] = [log[c] EXCEPT !.status = "bounced"]
            /\ \A d \in Call \ {c} : log'[d] = log[d]
        BY <2>1, <2>3, <3>1, LogUpdate
      <3> QED BY <2>1, <2>3, <3>2 DEF Found, Log
    <2> QED BY <1>1, <2>2, <2>3
  <1>4. TypeOK'
    BY <1>1, <1>2, <1>3 DEF DeliveryInv, TypeOK
  <1>5. UntriedIsUnsent' /\ GotWasAccepted' /\ OncePerProvider'
    BY <1>2 DEF DeliveryInv, UntriedIsUnsent, GotWasAccepted, OncePerProvider
  <1>6. LogFollowsCall'
    <2>1. \A d \in Call : \/ log'[d] = log[d]
                          \/ /\ log'[d].status = "bounced" /\ log'[d].provider # None
                             /\ log[d].provider # None
      BY <1>3, DeliveryAssumption
    <2>2. \A d \in Call : log[d].provider # None =>
            pc[d] \notin {"idle", "log", "accepted", "fire", "waiting"} \cup Failure
      BY DEF DeliveryInv, LogFollowsCall, NoLog
    <2> QED BY <1>2, <2>1, <2>2 DEF DeliveryInv, LogFollowsCall
  <1>7. SentWasAccepted'
    BY <1>2, <1>3, DeliveryAssumption DEF DeliveryInv, TypeOK, SentWasAccepted, Mailed, LogFollowsCall
  <1>8. AnsweredBounceIsRecorded'
    BY <1>1, <1>3 DEF DeliveryInv, TypeOK, AnsweredBounceIsRecorded
  <1> QED BY <1>4, <1>5, <1>6, <1>7, <1>8 DEF DeliveryInv

\* What becomes of a mail is no part of the invariant, and the breaker's state
\* only of its type.
LEMMA MailEndsStep ==
  ASSUME DeliveryInv, NEW c \in Call, NEW p \in Provider, NEW f \in Fates,
         MailEnds(c, p, f)
  PROVE  DeliveryInv'
  <1>1. /\ fate' = [fate EXCEPT ![c][p] = f]
        /\ f \in {"delivered", "complained", "soft", "hard"}
        /\ UNCHANGED <<pc, pref, left, got, mails, breaker, known, log, reply>>
    BY DeliveryAssumption DEF MailEnds, call, logs
  <1>2. TypeOK'
    BY <1>1 DEF DeliveryInv, TypeOK
  <1> QED BY <1>1, <1>2 DEF DeliveryInv, UntriedIsUnsent, GotWasAccepted, LogFollowsCall,
             SentWasAccepted, Mailed, OncePerProvider, AnsweredBounceIsRecorded

LEMMA ResetStep == ASSUME DeliveryInv, Reset PROVE DeliveryInv'
  <1>1. breaker' = "halfOpen" /\ UNCHANGED <<pc, pref, left, got, mails, known, log, fate, reply>>
    BY DEF Reset, logs, hook
  <1> QED BY <1>1 DEF DeliveryInv, TypeOK, UntriedIsUnsent, GotWasAccepted, LogFollowsCall,
             SentWasAccepted, Mailed, OncePerProvider, AnsweredBounceIsRecorded

LEMMA StutterStep == ASSUME DeliveryInv, UNCHANGED vars PROVE DeliveryInv'
  BY DEF vars, call, logs, hook, DeliveryInv, TypeOK, UntriedIsUnsent, GotWasAccepted,
         LogFollowsCall, SentWasAccepted, Mailed, OncePerProvider, AnsweredBounceIsRecorded

\* Every step keeps the invariant.
LEMMA NextInv == ASSUME DeliveryInv, [Next]_vars PROVE DeliveryInv'
  <1>1. CASE UNCHANGED vars
    BY <1>1, StutterStep
  <1>2. CASE Reset
    BY <1>2, ResetStep
  <1>3. ASSUME NEW c \in Call, Caller(c) PROVE DeliveryInv'
    BY <1>3, CreateStep, FireStep, TimeoutStep, MarkSentStep, MarkFailedStep DEF Caller
  <1>4. ASSUME NEW c \in Call, NEW p \in Provider \cup {None}, Called(c, p)
        PROVE  DeliveryInv'
    BY <1>4, CalledStep
  <1>5. ASSUME NEW c \in Call, NEW p \in Provider, Loop(c, p) PROVE DeliveryInv'
    BY <1>5, AcceptStep, FailStep DEF Loop
  <1>6. ASSUME NEW c \in Call, NEW p \in Provider, Webhook(c, p) PROVE DeliveryInv'
    BY <1>6, WebhookStep
  <1>7. ASSUME NEW c \in Call, NEW p \in Provider, NEW f \in Fates, MailEnds(c, p, f)
        PROVE  DeliveryInv'
    BY <1>7, MailEndsStep
  <1> QED BY <1>1, <1>2, <1>3, <1>4, <1>5, <1>6, <1>7 DEF Next

-----------------------------------------------------------------------------
(* What holds of every behaviour *)

\* The inductive invariant holds throughout, for any number of calls and
\* providers in any order, whatever fails and whatever the webhooks report.
THEOREM DeliveryInvariant == Spec => []DeliveryInv
  <1>1. DeliveryInv /\ [Next]_vars => DeliveryInv'
    BY NextInv
  <1> QED BY InitInv, <1>1, PTL DEF Spec

\* The type invariant.
THEOREM DeliveryTypeCorrect == Spec => []TypeOK
  <1>1. DeliveryInv => TypeOK
    BY DEF DeliveryInv
  <1> QED BY <1>1, DeliveryInvariant, PTL

\* sendEmail resolves only for a mail that a provider accepted, and a log that
\* says sent or bounced names the provider that accepted it.
THEOREM SentMeansAccepted == Spec => []SentWasAccepted
  <1>1. DeliveryInv => SentWasAccepted
    BY DEF DeliveryInv
  <1> QED BY <1>1, DeliveryInvariant, PTL

\* One call gives its mail to each provider at most once, with any preferred
\* provider and however late a provider answers.
THEOREM EachProviderOnce == Spec => []OncePerProvider
  <1>1. DeliveryInv => OncePerProvider
    BY DEF DeliveryInv
  <1> QED BY <1>1, DeliveryInvariant, PTL

\* A bounce that was answered with an action is in the log for good.
THEOREM BouncesAreKept == Spec => []AnsweredBounceIsRecorded
  <1>1. DeliveryInv => AnsweredBounceIsRecorded
    BY DEF DeliveryInv
  <1> QED BY <1>1, DeliveryInvariant, PTL

\* No step changes the answer of a settled call, and only a webhook its log.
LEMMA SettledStays ==
  ASSUME DeliveryInv, [Next]_vars, NEW c \in Call, pc[c] \in Settled
  PROVE  /\ pc'[c] = pc[c]
         /\ log'[c] = log[c] \/ log'[c].status = "bounced"
  <1>1. /\ pc[c] \notin Failure \cup {"idle", "log", "fire", "waiting", "accepted"}
        /\ pc \in [Call -> Step] /\ log \in [Call -> Log]
    BY DEF Settled, Failure, DeliveryInv, TypeOK
  <1>2. CASE UNCHANGED vars \/ Reset
    BY <1>2 DEF vars, call, logs, Reset
  <1>3. ASSUME NEW d \in Call, Caller(d) PROVE d # c
    BY <1>1, <1>3 DEF Caller, CreateLog, Created, Fire, Timeout, TimesOut, MarkSent, MarkFailed
  <1>4. ASSUME NEW d \in Call, Caller(d), d # c PROVE pc'[c] = pc[c] /\ log'[c] = log[c]
    BY <1>1, <1>4 DEF Caller, CreateLog, Created, Fire, Timeout, MarkSent, MarkFailed, Goto, SetLog, logs
  <1>5. ASSUME NEW d \in Call, NEW p \in Provider \cup {None}, Called(d, p)
        PROVE  pc'[c] = pc[c] /\ log'[c] = log[c]
    BY <1>1, <1>5 DEF Called, Goto, logs
  <1>6. ASSUME NEW d \in Call, NEW p \in Provider, Loop(d, p)
        PROVE  pc'[c] = pc[c] /\ log'[c] = log[c]
    BY <1>1, <1>6 DEF Loop, ProviderAccepts, ProviderFails, Awaited, Goto, logs
  <1>7. ASSUME NEW d \in Call, NEW p \in Provider, Webhook(d, p)
        PROVE  pc'[c] = pc[c] /\ (log'[c] = log[c] \/ log'[c].status = "bounced")
    <2>1. UNCHANGED pc /\ (UNCHANGED log \/ SetLog(d, [log[d] EXCEPT !.status = "bounced"]))
      BY <1>7 DEF Webhook, call
    <2>2. CASE SetLog(d, [log[d] EXCEPT !.status = "bounced"])
      <3>1. TypeOK /\ [log[d] EXCEPT !.status = "bounced"] \in Log
        BY Entries DEF DeliveryInv
      <3>2. /\ log'[d] = [log[d] EXCEPT !.status = "bounced"]
            /\ \A e \in Call \ {d} : log'[e] = log[e]
        BY <2>2, <3>1, LogUpdate
      <3>3. [log[d] EXCEPT !.status = "bounced"].status = "bounced"
        BY <1>1 DEF Log
      <3> QED BY <2>1, <3>2, <3>3
    <2> QED BY <2>1, <2>2
  <1>8. ASSUME NEW d \in Call, NEW p \in Provider, NEW f \in Fates, MailEnds(d, p, f)
        PROVE  pc'[c] = pc[c] /\ log'[c] = log[c]
    BY <1>8 DEF MailEnds, call, logs
  <1> QED BY <1>2, <1>3, <1>4, <1>5, <1>6, <1>7, <1>8 DEF Next

\* A provider that answers after the breaker's timeout changes neither the
\* answer of the call nor its log.
THEOREM AnswersAreFinal == Spec => AnswerIsFinal
  <1>1. DeliveryInv /\ [Next]_vars =>
          [\A c \in Call : pc[c] \in Settled =>
             /\ pc'[c] = pc[c]
             /\ log'[c] = log[c] \/ log'[c].status = "bounced"]_vars
    BY SettledStays
  <1> QED BY <1>1, DeliveryInvariant, PTL DEF Spec, AnswerIsFinal

-----------------------------------------------------------------------------
(* A call implements an attempt *)

\* The stages a call may go through in one step.
Moves(c) ==
    \/ StageOf(c)' = StageOf(c)
    \/ StageOf(c) = "start" /\ StageOf(c)' = "sent"
    \/ StageOf(c) = "sent" /\ StageOf(c)' = "ok"
    \/ StageOf(c) \in {"start", "sent"} /\ StageOf(c)' = "error"

Stays(c) == pc'[c] = pc[c] /\ \A p \in Provider : mails'[c][p] = mails[c][p]

\* A call that is neither answered nor sent anything keeps its stage.
LEMMA StaysInStage == ASSUME NEW c \in Call, Stays(c) PROVE StageOf(c)' = StageOf(c)
  BY DEF Stays, StageOf, Mailed

\* A step that touches one call, within its stages, is a step of SendAttempt.
LEMMA OneMoves ==
  ASSUME NEW c \in Call, \A d \in Call \ {c} : Stays(d), Moves(c)
  PROVE  [Attempt!Next]_Stages
  <1>1. \A d \in Call \ {c} : StageOf(d)' = StageOf(d)
    BY StaysInStage
  <1>2. CASE StageOf(c)' = StageOf(c)
    <2>1. Stages' = Stages
      BY <1>1, <1>2 DEF Stages
    <2> QED BY <2>1
  <1>3. ASSUME NEW from, NEW to, StageOf(c) = from, StageOf(c)' = to
        PROVE  Attempt!Advance(c, from, to)
    BY <1>1, <1>3 DEF Attempt!Advance, Stages
  <1> QED BY <1>2, <1>3 DEF Moves, Attempt!Next, Attempt!Send, Attempt!Resolve, Attempt!Reject

\* A provider that accepts a mail moves its call to sent, unless it was sent or
\* answered before.
LEMMA DeliverMoves ==
  ASSUME DeliveryInv, NEW c \in Call, NEW p \in Provider, p \in left[c],
         Deliver(c, p) \/ UNCHANGED mails,
         pc' = pc \/ (pc[c] = "waiting" /\ \E s \in {"accepted", "undelivered"} : Goto(c, s))
  PROVE  Moves(c) /\ \A d \in Call \ {c} : Stays(d)
  <1>1. TypeOK /\ mails[c][p] = 0 /\ pc \in [Call -> Step]
    BY DEF DeliveryInv, TypeOK, UntriedIsUnsent
  <1>2. /\ \A q \in Provider : mails[c][q] > 0 => mails'[c][q] > 0
        /\ \A d \in Call \ {c}, q \in Provider : mails'[d][q] = mails[d][q]
    <2>1. CASE Deliver(c, p)
      BY <1>1, <2>1, DeliverOnce
    <2> QED BY <2>1
  <1>3. /\ \A d \in Call \ {c} : pc'[d] = pc[d]
        /\ pc'[c] = pc[c] \/ {pc[c], pc'[c]} \cap Settled = {}
    BY <1>1 DEF Goto, Settled
  <1>4. Moves(c)
    <2>1. Mailed(c) => Mailed(c)'
      BY <1>2 DEF Mailed
    <2> QED BY <1>3, <2>1 DEF Moves, StageOf, Settled
  <1> QED BY <1>2, <1>3, <1>4 DEF Stays

\* The caller's own steps deliver nothing, and resolve only an accepted call.
LEMMA CallerMoves ==
  ASSUME DeliveryInv, NEW c \in Call, Caller(c)
  PROVE  Moves(c) /\ \A d \in Call \ {c} : Stays(d)
  <1>1. TypeOK /\ pc \in [Call -> Step]
    BY DEF DeliveryInv, TypeOK
  <1>2. UNCHANGED mails
    BY DEF Caller, CreateLog, Created, Fire, Timeout, MarkSent, MarkFailed
  <1>3. Mailed(c)' = Mailed(c)
    BY <1>2 DEF Mailed
  <1>4. \/ pc[c] \notin Settled /\ \E s \in Step \ Settled : Goto(c, s)
        \/ pc[c] = "accepted" /\ Goto(c, "sent")
        \/ pc[c] \in Failure /\ Goto(c, "failed")
    BY DEF Caller, CreateLog, Created, Fire, Timeout, TimesOut, MarkSent, AfterUpdate, MarkFailed,
           Settled, Step, Failure
  <1>5. \A d \in Call \ {c} : Stays(d)
    BY <1>1, <1>2, <1>4 DEF Goto, Stays
  <1>6. pc[c] = "accepted" => Mailed(c)
    BY DEF DeliveryInv, GotWasAccepted, Mailed
  <1>7. Moves(c)
    <2>1. CASE pc[c] \notin Settled /\ \E s \in Step \ Settled : Goto(c, s)
      <3>1. pc[c] \notin Settled /\ pc'[c] \notin Settled
        BY <1>1, <2>1 DEF Goto
      <3> QED BY <1>3, <3>1 DEF Moves, StageOf, Settled
    <2>2. CASE pc[c] = "accepted" /\ Goto(c, "sent")
      BY <1>1, <1>6, <2>2 DEF Goto, Moves, StageOf
    <2>3. CASE pc[c] \in Failure /\ Goto(c, "failed")
      BY <1>1, <2>3 DEF Goto, Moves, StageOf, Failure
    <2> QED BY <1>4, <2>1, <2>2, <2>3
  <1> QED BY <1>5, <1>7

\* A step that leaves the answers and the mails alone is a stuttering step.
LEMMA Stutters ==
  ASSUME UNCHANGED <<pc, mails>> PROVE [Attempt!Next]_Stages
  <1>1. \A d \in Call : StageOf(d)' = StageOf(d)
    BY StaysInStage DEF Stays
  <1> QED BY <1>1 DEF Stages

LEMMA NextAttempt ==
  ASSUME DeliveryInv, [Next]_vars
  PROVE  [Attempt!Next]_Stages
  <1>1. CASE UNCHANGED vars \/ Reset
    <2>1. UNCHANGED <<pc, mails>>
      BY <1>1 DEF vars, call, Reset
    <2> QED BY <2>1, Stutters
  <1>2. ASSUME NEW c \in Call, Caller(c)
        PROVE  [Attempt!Next]_Stages
    BY <1>2, CallerMoves, OneMoves
  <1>3. ASSUME NEW c \in Call, NEW p \in Provider \cup {None}, Called(c, p)
        PROVE  [Attempt!Next]_Stages
    <2>1. pc \in [Call -> Step] /\ UNCHANGED mails /\ pc[c] = "idle" /\ Goto(c, "log")
      BY <1>3 DEF DeliveryInv, TypeOK, Called
    <2>2. \A d \in Call \ {c} : Stays(d)
      BY <2>1 DEF Goto, Stays
    <2>3. Moves(c)
      BY <2>1 DEF Goto, Moves, StageOf, Mailed
    <2> QED BY <2>2, <2>3, OneMoves
  <1>4. ASSUME NEW c \in Call, NEW p \in Provider, Loop(c, p)
        PROVE  [Attempt!Next]_Stages
    <2>1. /\ p \in left[c]
          /\ Deliver(c, p) \/ UNCHANGED mails
          /\ \/ pc' = pc
             \/ pc[c] = "waiting" /\ \E s \in {"accepted", "undelivered"} : Goto(c, s)
      BY <1>4 DEF Loop, ProviderAccepts, ProviderFails, Turn, Awaited, AllFailed
    <2>2. Moves(c) /\ \A d \in Call \ {c} : Stays(d)
      BY <2>1, DeliverMoves
    <2> QED BY <2>2, OneMoves
  <1>5. ASSUME NEW c \in Call, NEW p \in Provider,
               Webhook(c, p) \/ \E f \in Fates : MailEnds(c, p, f)
        PROVE  [Attempt!Next]_Stages
    <2>1. UNCHANGED <<pc, mails>>
      BY <1>5 DEF Webhook, MailEnds, call
    <2> QED BY <2>1, Stutters
  <1> QED BY <1>1, <1>2, <1>3, <1>4, <1>5 DEF Next

\* For its caller, the queue, a call is an attempt that may send the mail and
\* that resolves only if it did: EmailDelivery implements SendAttempt.
THEOREM SendAttemptImplemented == Spec => ImplementsSendAttempt
  <1>1. Init => Attempt!Init
    <2>1. ASSUME Init, NEW c \in Call PROVE StageOf(c) = "start"
      BY <2>1 DEF Init, StageOf, Mailed
    <2> QED BY <2>1 DEF Attempt!Init, Stages
  <1>2. DeliveryInv /\ [Next]_vars => [Attempt!Next]_Stages
    BY NextAttempt
  <1> QED BY <1>1, <1>2, DeliveryInvariant, PTL
          DEF Spec, ImplementsSendAttempt, Attempt!Spec

-----------------------------------------------------------------------------
(* The service around its sends *)

\* Every step of the service is one of the sends, or leaves them alone.
LEMMA ServiceStep == [ServiceNext]_serviceVars => [Next]_vars
  <1> SUFFICES ASSUME [ServiceNext]_serviceVars PROVE [Next]_vars
    OBVIOUS
  <1>1. CASE UNCHANGED serviceVars
    BY <1>1 DEF serviceVars, vars
  <1>2. CASE InitializeTemplates \/ InitializeProviders
    BY <1>2 DEF InitializeTemplates, InitializeProviders
  <1>3. ASSUME NEW c \in Call, Prepare(c) \/ Compile(c) PROVE UNCHANGED vars
    BY <1>3 DEF Prepare, Compile
  <1>4. ASSUME NEW c \in Call, Sends(c) PROVE Next
    BY <1>4 DEF Sends, Next
  <1>5. CASE Reset
    BY <1>5 DEF Next
  <1> QED BY <1>1, <1>2, <1>3, <1>4, <1>5 DEF ServiceNext

\* What is proved of the sends holds of them in the service.
THEOREM ServiceIsDelivery == ServiceSpec => Spec
  <1>1. InitService => Init
    BY DEF InitService
  <1> QED BY <1>1, ServiceStep, PTL DEF ServiceSpec, Spec

\* Before the service is up nothing is composed, and only what is composed is sent.
StartInv ==
    /\ service \in {"down", "templates", "up", "failed"} /\ template \in BOOLEAN
    /\ prep \in [Call -> {"none", "compiling", "ready", "refused"}]
    /\ service # "up" => breaker = "closed" /\ \A c \in Call : prep[c] = "none"
    /\ \A c \in Call : prep[c] # "ready" => pc[c] = "idle"
    /\ openSince = (breaker # "closed")

\* What a step of a call does to it, and to the breaker.
LEMMA SendsMove ==
  ASSUME DeliveryInv, NEW c \in Call, Sends(c)
  PROVE  /\ \/ UNCHANGED pc
            \/ \E to \in Step :
                 /\ pc' = [pc EXCEPT ![c] = to]
                 /\ \/ pc[c] = "idle" /\ to = "log" /\ prep[c] = "ready"
                    \/ pc[c] = "log" /\ to = "fire"
                    \/ pc[c] = "fire" /\ to \in {"waiting", "rejected"}
                    \/ pc[c] = "waiting" /\ to \in {"accepted", "undelivered", "timedOut"}
                    \/ pc[c] = "accepted" /\ to = "sent"
                    \/ pc[c] \in Failure /\ to = "failed"
         /\ breaker' = breaker \/ pc[c] \in {"fire", "waiting"}
         /\ breaker' \in {"halfOpen", "probing"} => breaker # "closed"
         /\ pc[c] # "idle" \/ prep[c] = "ready"
  <1>1. /\ pc \in [Call -> Step] /\ breaker \in {"closed", "open", "halfOpen", "probing"}
        /\ {"idle", "log", "fire", "waiting", "accepted", "sent", "failed", "rejected", "timedOut", "undelivered"}
              \subseteq Step
        /\ pc[c] = "idle" => left[c] = {}
    BY DEF DeliveryInv, TypeOK, UntriedIsUnsent, Step, Failure, Settled
  <1>2. CASE CreateLog(c)
    BY <1>1, <1>2 DEF CreateLog, Goto
  <1>3. CASE Fire(c)
    BY <1>1, <1>3 DEF Fire, Goto
  <1>4. CASE Timeout(c)
    BY <1>1, <1>4 DEF Timeout, TimesOut, Goto, BreakerFails
  <1>5. CASE MarkSent(c)
    BY <1>1, <1>5 DEF MarkSent, AfterUpdate, Goto
  <1>6. CASE MarkFailed(c)
    BY <1>1, <1>6 DEF MarkFailed, Goto, Failure
  <1>7. CASE prep[c] = "ready" /\ \E p \in Provider \cup {None} : Called(c, p)
    BY <1>1, <1>7 DEF Called, Goto
  <1>8. ASSUME NEW p \in Provider, ProviderAccepts(c, p)
        PROVE  /\ UNCHANGED pc \/ (pc[c] = "waiting" /\ pc' = [pc EXCEPT ![c] = "accepted"])
               /\ breaker' = breaker \/ pc[c] = "waiting"
               /\ breaker' \in {"halfOpen", "probing"} => breaker # "closed"
               /\ pc[c] # "idle"
    BY <1>1, <1>8 DEF ProviderAccepts, Turn, Awaited, Goto, BreakerSucceeds
  <1>9. ASSUME NEW p \in Provider, ProviderFails(c, p)
        PROVE  /\ UNCHANGED pc \/ (pc[c] = "waiting" /\ pc' = [pc EXCEPT ![c] = "undelivered"])
               /\ breaker' = breaker \/ pc[c] = "waiting"
               /\ breaker' \in {"halfOpen", "probing"} => breaker # "closed"
               /\ pc[c] # "idle"
    BY <1>1, <1>9 DEF ProviderFails, Turn, Awaited, AllFailed, Goto, BreakerFails
  <1> QED BY <1>1, <1>2, <1>3, <1>4, <1>5, <1>6, <1>7, <1>8, <1>9 DEF Sends, Caller, Loop

LEMMA StepStartInv ==
  ASSUME DeliveryInv, StartInv, [ServiceNext]_serviceVars
  PROVE  StartInv'
  <1>1. pc \in [Call -> Step] /\ breaker \in {"closed", "open", "halfOpen", "probing"}
    BY DEF DeliveryInv, TypeOK
  <1>2. CASE UNCHANGED serviceVars
    BY <1>2 DEF serviceVars, compose, counts, vars, call, StartInv
  <1>3. CASE InitializeTemplates \/ InitializeProviders
    BY <1>3 DEF InitializeTemplates, InitializeProviders, vars, call, counts, StartInv
  <1>4. ASSUME NEW c \in Call, Prepare(c) \/ Compile(c) PROVE StartInv'
    BY <1>4 DEF Prepare, Compile, Prepared, vars, call, counts, StartInv
  <1>5. ASSUME NEW c \in Call, Sends(c), Events(c), UNCHANGED compose PROVE StartInv'
    <2>1. prep[c] = "ready" /\ service = "up"
      BY <1>5, SendsMove DEF StartInv
    <2>2. \A d \in Call \ {c} : pc'[d] = pc[d]
      BY <1>1, <1>5, SendsMove
    <2>3. openSince' = (breaker' # "closed")
      <3>1. breaker' \in {"halfOpen", "probing"} => breaker # "closed"
        BY <1>5, SendsMove
      <3>2. breaker' \in {"closed", "open", "halfOpen", "probing"}
        BY <1>5, ServiceStep, NextInv DEF ServiceNext, DeliveryInv, TypeOK
      <3> QED BY <1>5, <3>1, <3>2 DEF Events, Turned, StartInv
    <2> QED BY <1>5, <2>1, <2>2, <2>3 DEF compose, StartInv
  <1>6. CASE Reset /\ UNCHANGED <<compose, counts>>
    BY <1>6 DEF Reset, compose, counts, StartInv
  <1> QED BY <1>2, <1>3, <1>4, <1>5, <1>6 DEF ServiceNext

LEMMA StartInvariant == ServiceSpec => []StartInv
  <1>1. InitService => StartInv
    BY DEF InitService, Init, StartInv
  <1>2. DeliveryInv /\ StartInv /\ [ServiceNext]_serviceVars => StartInv'
    BY StepStartInv
  <1> QED BY <1>1, <1>2, ServiceIsDelivery, DeliveryInvariant, PTL DEF ServiceSpec

\* A call that arrives among the steps that are counted counts once.
LEMMA CallsAtCounts ==
  ASSUME NEW steps
  PROVE  CallsAt(steps) \in Nat /\ CallsAt(steps) <= Cardinality(Call)
  <1>1. {c \in Call : pc[c] \in steps} \subseteq Call
    OBVIOUS
  <1> QED BY <1>1, ServiceAssumption, FS_Subset, FS_CardinalityType DEF CallsAt

LEMMA Arrives ==
  ASSUME pc \in [Call -> Step], NEW c \in Call, NEW to, pc' = [pc EXCEPT ![c] = to],
         NEW steps, pc[c] \in steps => to \in steps
  PROVE  CallsAt(steps)' = CallsAt(steps) + (IF to \in steps /\ pc[c] \notin steps THEN 1 ELSE 0)
  <1> DEFINE S == {d \in Call : pc[d] \in steps}
             T == {d \in Call : pc'[d] \in steps}
  <1>1. CASE to \in steps /\ pc[c] \notin steps
    <2>1. T = S \cup {c} /\ c \notin S
      BY <1>1
    <2>2. IsFiniteSet(S)
      BY ServiceAssumption, FS_Subset
    <2>3. Cardinality(T) = Cardinality(S) + 1
      BY <2>1, <2>2, FS_AddElement
    <2> QED BY <1>1, <2>3 DEF CallsAt
  <1>2. CASE ~(to \in steps /\ pc[c] \notin steps)
    <2>1. T = S
      BY <1>2
    <2>2. Cardinality(S) \in Nat
      BY ServiceAssumption, FS_Subset, FS_CardinalityType
    <2> QED BY <1>2, <2>1, <2>2 DEF CallsAt
  <1> QED BY <1>1, <1>2

StatsType == stats \in [DOMAIN NoStats -> Nat]

\* What the events of a step add.
LEMMA CountsAre ==
  ASSUME StatsType, NEW events, Counts(events)
  PROVE  /\ StatsType'
         /\ stats.fires \in Nat /\ stats.successes \in Nat /\ stats.failures \in Nat
         /\ stats.timeouts \in Nat /\ stats.rejects \in Nat
         /\ stats'.fires = stats.fires + (IF "fires" \in events THEN 1 ELSE 0)
         /\ stats'.successes = stats.successes + (IF "successes" \in events THEN 1 ELSE 0)
         /\ stats'.failures = stats.failures + (IF "failures" \in events THEN 1 ELSE 0)
         /\ stats'.timeouts = stats.timeouts + (IF "timeouts" \in events THEN 1 ELSE 0)
         /\ stats'.rejects = stats.rejects + (IF "rejects" \in events THEN 1 ELSE 0)
  <1>1. DOMAIN NoStats = {"fires", "successes", "failures", "timeouts", "rejects"}
    BY DEF NoStats
  <1>2. DOMAIN stats = DOMAIN NoStats /\ \A k \in DOMAIN NoStats : stats[k] \in Nat
    BY DEF StatsType
  <1>3. \A k \in DOMAIN NoStats : stats'[k] = stats[k] + (IF k \in events THEN 1 ELSE 0)
    BY <1>2 DEF Counts
  <1>4. StatsType'
    BY <1>2 DEF Counts, StatsType
  <1> QED BY <1>1, <1>2, <1>3, <1>4

StatsInv == StatsType /\ CountedOnce

Done == {"accepted", "sent"}
Undone == Failure \cup {"failed"}

\* A call is counted in the step in which the breaker decides it, as what it becomes.
LEMMA DecisionCounts ==
  ASSUME DeliveryInv, StatsInv, NEW c \in Call, Sends(c), Counts(Emitted(c))
  PROVE  StatsInv'
  <1>1. pc \in [Call -> Step] /\ StatsType /\ Failure = {"rejected", "timedOut", "undelivered"}
    BY DEF DeliveryInv, TypeOK, StatsInv, Failure
  <1>2. /\ CallsAt(Done) \in Nat /\ CallsAt(Undone) \in Nat
        /\ stats.successes = CallsAt(Done)
        /\ stats.failures + stats.rejects = CallsAt(Undone)
        /\ stats.fires = stats.successes + stats.failures /\ stats.timeouts <= stats.failures
    BY CallsAtCounts DEF StatsInv, CountedOnce, Done, Undone
  <1>3. ASSUME stats'.fires = stats'.successes + stats'.failures, stats'.timeouts <= stats'.failures,
               stats'.successes = CallsAt(Done)', stats'.failures + stats'.rejects = CallsAt(Undone)'
        PROVE  StatsInv'
    <2>1. StatsType'
      BY <1>1, CountsAre
    <2> QED BY <1>3, <2>1 DEF StatsInv, CountedOnce, Done, Undone
  <1>4. ASSUME \A k : k \notin Emitted(c),
               CallsAt(Done)' = CallsAt(Done), CallsAt(Undone)' = CallsAt(Undone)
        PROVE  StatsInv'
    <2>1. /\ stats'.fires = stats.fires + 0 /\ stats'.successes = stats.successes + 0
          /\ stats'.failures = stats.failures + 0 /\ stats'.timeouts = stats.timeouts + 0
          /\ stats'.rejects = stats.rejects + 0
          /\ stats.fires \in Nat /\ stats.successes \in Nat /\ stats.failures \in Nat
          /\ stats.timeouts \in Nat /\ stats.rejects \in Nat
      BY <1>1, <1>4, CountsAre
    <2> QED BY <1>2, <1>3, <1>4, <2>1
  <1>5. CASE UNCHANGED pc
    <2>1. Emitted(c) = {}
      BY <1>5 DEF Emitted, Decides
    <2>2. CallsAt(Done)' = CallsAt(Done) /\ CallsAt(Undone)' = CallsAt(Undone)
      BY <1>5 DEF CallsAt, Done, Undone
    <2> QED BY <1>4, <2>1, <2>2
  <1>6. ASSUME NEW to \in Step, pc' = [pc EXCEPT ![c] = to],
               \/ pc[c] = "idle" /\ to = "log"
               \/ pc[c] = "log" /\ to = "fire"
               \/ pc[c] = "fire" /\ to = "waiting"
               \/ pc[c] = "accepted" /\ to = "sent"
               \/ pc[c] \in Failure /\ to = "failed"
        PROVE  StatsInv'
    <2>1. pc'[c] = to
      BY <1>1, <1>6
    <2>2. Emitted(c) = {}
      BY <1>1, <1>6, <2>1 DEF Emitted, Decides
    <2>3. (pc[c] \in Done <=> to \in Done) /\ (pc[c] \in Undone <=> to \in Undone)
      BY <1>6 DEF Done, Undone, Failure
    <2>4. CallsAt(Done)' = CallsAt(Done) /\ CallsAt(Undone)' = CallsAt(Undone)
      <3>1. /\ CallsAt(Done)'
                 = CallsAt(Done) + (IF to \in Done /\ pc[c] \notin Done THEN 1 ELSE 0)
            /\ CallsAt(Undone)'
                 = CallsAt(Undone) + (IF to \in Undone /\ pc[c] \notin Undone THEN 1 ELSE 0)
        BY <1>1, <1>6, <2>3, Arrives
      <3> QED BY <1>2, <2>3, <3>1
    <2> QED BY <1>4, <2>2, <2>4
  <1>7. ASSUME NEW to \in Step, pc' = [pc EXCEPT ![c] = to], pc[c] \in {"fire", "waiting"},
               to \in {"accepted", "undelivered", "timedOut", "rejected"}
        PROVE  StatsInv'
    <2>1. pc'[c] = to /\ Decides(c)
      BY <1>1, <1>7 DEF Decides
    <2>2. /\ pc[c] \notin Done /\ (to \in Done <=> to = "accepted")
          /\ pc[c] \notin Undone /\ (to \in Undone <=> to # "accepted")
      BY <1>1, <1>7 DEF Done, Undone
    <2>3. /\ CallsAt(Done)' = CallsAt(Done) + (IF to = "accepted" THEN 1 ELSE 0)
          /\ CallsAt(Undone)' = CallsAt(Undone) + (IF to # "accepted" THEN 1 ELSE 0)
      BY <1>1, <1>7, <2>2, Arrives
    <2>4. Emitted(c) = CASE to = "accepted"    -> {"fires", "successes"}
                         [] to = "undelivered" -> {"fires", "failures"}
                         [] to = "timedOut"    -> {"fires", "failures", "timeouts"}
                         [] to = "rejected"    -> {"rejects"}
      BY <1>7, <2>1 DEF Emitted
    <2>5. /\ stats.fires \in Nat /\ stats.successes \in Nat /\ stats.failures \in Nat
          /\ stats.timeouts \in Nat /\ stats.rejects \in Nat
          /\ stats'.fires = stats.fires + (IF to # "rejected" THEN 1 ELSE 0)
          /\ stats'.successes = stats.successes + (IF to = "accepted" THEN 1 ELSE 0)
          /\ stats'.failures = stats.failures + (IF to \in {"undelivered", "timedOut"} THEN 1 ELSE 0)
          /\ stats'.timeouts = stats.timeouts + (IF to = "timedOut" THEN 1 ELSE 0)
          /\ stats'.rejects = stats.rejects + (IF to = "rejected" THEN 1 ELSE 0)
      <3>1. /\ "fires" \in Emitted(c) <=> to # "rejected"
            /\ "successes" \in Emitted(c) <=> to = "accepted"
            /\ "failures" \in Emitted(c) <=> to \in {"undelivered", "timedOut"}
            /\ "timeouts" \in Emitted(c) <=> to = "timedOut"
            /\ "rejects" \in Emitted(c) <=> to = "rejected"
        BY <1>7, <2>4
      <3>2. /\ stats.fires \in Nat /\ stats.successes \in Nat /\ stats.failures \in Nat
            /\ stats.timeouts \in Nat /\ stats.rejects \in Nat
            /\ stats'.fires = stats.fires + (IF "fires" \in Emitted(c) THEN 1 ELSE 0)
            /\ stats'.successes = stats.successes + (IF "successes" \in Emitted(c) THEN 1 ELSE 0)
            /\ stats'.failures = stats.failures + (IF "failures" \in Emitted(c) THEN 1 ELSE 0)
            /\ stats'.timeouts = stats.timeouts + (IF "timeouts" \in Emitted(c) THEN 1 ELSE 0)
            /\ stats'.rejects = stats.rejects + (IF "rejects" \in Emitted(c) THEN 1 ELSE 0)
        BY <1>1, CountsAre
      <3> QED BY <3>1, <3>2
    <2> QED BY <1>2, <1>3, <1>7, <2>3, <2>5
  <1>8. \/ UNCHANGED pc
        \/ \E to \in Step :
             /\ pc' = [pc EXCEPT ![c] = to]
             /\ \/ pc[c] = "idle" /\ to = "log"
                \/ pc[c] = "log" /\ to = "fire"
                \/ pc[c] = "fire" /\ to \in {"waiting", "rejected"}
                \/ pc[c] = "waiting" /\ to \in {"accepted", "undelivered", "timedOut"}
                \/ pc[c] = "accepted" /\ to = "sent"
                \/ pc[c] \in Failure /\ to = "failed"
    BY SendsMove
  <1> QED BY <1>5, <1>6, <1>7, <1>8

LEMMA StatsInvariant == ServiceSpec => []StatsInv
  <1>1. InitService => StatsInv
    <2> SUFFICES ASSUME InitService PROVE StatsInv
      OBVIOUS
    <2>1. \A steps : "idle" \notin steps => CallsAt(steps) = 0
      <3>1. \A steps : "idle" \notin steps => {c \in Call : pc[c] \in steps} = {}
        BY DEF InitService, Init
      <3> QED BY <3>1, FS_EmptySet DEF CallsAt
    <2>2. CallsAt({"accepted", "sent"}) = 0 /\ CallsAt(Failure \cup {"failed"}) = 0
      BY <2>1 DEF Failure
    <2>3. /\ stats \in [DOMAIN NoStats -> Nat] /\ stats.fires = 0 /\ stats.successes = 0
          /\ stats.failures = 0 /\ stats.timeouts = 0 /\ stats.rejects = 0
      BY DEF InitService, NoStats
    <2> QED BY <2>2, <2>3 DEF StatsInv, StatsType, CountedOnce
  <1>2. DeliveryInv /\ StatsInv /\ [ServiceNext]_serviceVars => StatsInv'
    <2> SUFFICES ASSUME DeliveryInv, StatsInv, [ServiceNext]_serviceVars PROVE StatsInv'
      OBVIOUS
    <2>1. CASE UNCHANGED pc /\ UNCHANGED stats
      BY <2>1 DEF StatsInv, StatsType, CountedOnce, CallsAt
    <2>2. ASSUME NEW c \in Call, Sends(c), Events(c) PROVE StatsInv'
      BY <2>2, DecisionCounts DEF Events
    <2>3. CASE InitializeTemplates \/ InitializeProviders \/ \E c \in Call : Prepare(c) \/ Compile(c)
      BY <2>1, <2>3 DEF InitializeTemplates, InitializeProviders, Prepare, Compile, vars, call, counts
    <2>4. CASE Reset /\ UNCHANGED <<compose, counts>>
      BY <2>1, <2>4 DEF Reset, counts
    <2>5. CASE UNCHANGED serviceVars
      BY <2>1, <2>5 DEF serviceVars, vars, call, counts
    <2> QED BY <2>2, <2>3, <2>4, <2>5 DEF ServiceNext
  <1> QED BY <1>1, <1>2, ServiceIsDelivery, DeliveryInvariant, PTL DEF ServiceSpec

\* ServiceInv: the statistics count every call that the breaker decided once, as what its
\* caller was told; a circuit that is reported open has a time; and a call that could not
\* be composed leaves nothing (EmailService, its breaker's events).
THEOREM ServiceInvariant == ServiceSpec => []ServiceInv
  <1>1. DeliveryInv /\ StartInv /\ StatsInv => ServiceInv
    <2> SUFFICES ASSUME DeliveryInv, StartInv, StatsInv PROVE ServiceInv
      OBVIOUS
    <2>1. CallsAt(Done) + CallsAt(Undone) <= Cardinality(Call)
      <3> DEFINE A == {c \in Call : pc[c] \in Done}
                 B == {c \in Call : pc[c] \in Undone}
      <3>1. A \cap B = {} /\ A \subseteq Call /\ B \subseteq Call /\ A \cup B \subseteq Call
        BY DEF Done, Undone, Failure
      <3>2. IsFiniteSet(A) /\ IsFiniteSet(B) /\ Cardinality(A \cup B) <= Cardinality(Call)
        BY <3>1, ServiceAssumption, FS_Subset
      <3>3. Cardinality(A \cup B) = Cardinality(A) + Cardinality(B) - Cardinality(A \cap B)
        BY <3>2, FS_Union
      <3>4. Cardinality(A \cap B) = 0
        BY <3>1, FS_EmptySet
      <3>5. Cardinality(A) \in Nat /\ Cardinality(B) \in Nat
        BY <3>2, FS_CardinalityType
      <3> QED BY <3>2, <3>3, <3>4, <3>5 DEF CallsAt
    <2>2. stats \in [DOMAIN NoStats -> 0..Cardinality(Call)]
      <3>1. DOMAIN NoStats = {"fires", "successes", "failures", "timeouts", "rejects"}
        BY DEF NoStats
      <3>2. \A k \in DOMAIN NoStats : stats[k] \in Nat
        BY DEF StatsInv, StatsType
      <3>3. Cardinality(Call) \in Nat
        BY ServiceAssumption, FS_CardinalityType
      <3>4. \A k \in DOMAIN NoStats : stats[k] <= Cardinality(Call)
        BY <2>1, <3>1, <3>2, <3>3, CallsAtCounts DEF StatsInv, CountedOnce, Done, Undone
      <3>5. \A k \in DOMAIN NoStats : stats[k] \in 0..Cardinality(Call)
        BY <3>2, <3>3, <3>4
      <3> QED BY <3>5 DEF StatsInv, StatsType
    <2>3. ServiceTypeOK /\ OpenHasTime
      BY <2>2 DEF StartInv, ServiceTypeOK, OpenHasTime, CircuitState, DeliveryInv, TypeOK
    <2>4. RefusedLeavesNothing
      BY DEF StartInv, RefusedLeavesNothing, Mailed, DeliveryInv, UntriedIsUnsent, LogFollowsCall
    <2> QED BY <2>3, <2>4 DEF ServiceInv, StatsInv, DeliveryInv
  <1> QED BY <1>1, ServiceIsDelivery, DeliveryInvariant, StartInvariant, StatsInvariant, PTL
=============================================================================
