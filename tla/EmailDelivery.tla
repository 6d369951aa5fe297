--------------------------- MODULE EmailDelivery ---------------------------
(***************************************************************************)
(* EmailService.sendEmail over ProviderService.sendWithFailover, the       *)
(* circuit breaker between them, the EmailLog of each call, and the        *)
(* webhooks by which a provider reports what became of a mail.  A call of  *)
(* sendEmail is one attempt of a queued job (EmailQueue).                  *)
(*                                                                         *)
(* The breaker gives the caller up after its timeout and does not cancel   *)
(* the provider call, so a call has two lives: the caller's, in pc, and    *)
(* that of its failover loop, which runs while left[c] is not empty.       *)
(* A provider's message id is unique: <<c, p>> stands for it.              *)
(***************************************************************************)
EXTENDS Naturals

CONSTANTS
    Call,       \* calls of sendEmail
    Provider,   \* configured providers
    Rank,       \* the order in which they were configured
    Resend,     \* the provider "resend-api"
    Faults,     \* what may fail: "provider", "slow", "mongo", "rotation"
    Fates,      \* what may become of an accepted mail
    RawBody,    \* the webhook handler gets the raw body of a request
    None

ASSUME DeliveryAssumption ==
    /\ Rank \in [Provider -> Nat]
    /\ \A p, q \in Provider : Rank[p] = Rank[q] => p = q
    /\ Fates \subseteq {"delivered", "complained", "soft", "hard"}
    /\ RawBody \in BOOLEAN
    /\ None \notin Provider

VARIABLES
    pc,       \* next step or result of each call, for its caller
    pref,     \* preferredProvider of each call
    left,     \* providers the failover loop of each call has yet to try
    got,      \* the provider that accepted the mail, for the caller
    mails,    \* how often each provider accepted the mail of each call
    known,    \* calls whose create returned a log to them
    log,      \* the EmailLog of each call
    breaker,  \* state of the circuit breaker
    fate,     \* what became of an accepted mail
    reply     \* how the last webhook about a mail was answered

call == <<pc, pref, left, got, mails, breaker>>
logs == <<known, log>>
hook == <<fate, reply>>
vars == <<call, logs, hook>>

Failure == {"rejected", "timedOut", "undelivered"}
Settled == {"sent", "failed"}
Step == {"idle", "log", "fire", "waiting", "accepted"} \cup Failure \cup Settled
Action == {"retry_alternate_provider", "marked_invalid", "unsubscribed"}

NoLog == [status |-> "absent", provider |-> None, error |-> None]
Log == [status : {"absent", "queued", "sent", "failed", "bounced"},
        provider : Provider \cup {None}, error : {"CB_OPEN", None}]

TypeOK ==
    /\ pc \in [Call -> Step]
    /\ pref \in [Call -> Provider \cup {None}]
    /\ left \in [Call -> SUBSET Provider]
    /\ got \in [Call -> Provider \cup {None}]
    /\ mails \in [Call -> [Provider -> Nat]]
    /\ known \subseteq Call
    /\ log \in [Call -> Log]
    /\ breaker \in {"closed", "open", "halfOpen", "probing"}
    /\ fate \in [Call -> [Provider -> {"pending", "delivered", "complained",
                                       "soft", "hard"}]]
    /\ reply \in [Call -> [Provider -> Action \cup
                     {"none", "refused", "ignored", "notFound", "500"}]]

Init ==
    /\ pc = [c \in Call |-> "idle"]
    /\ pref = [c \in Call |-> None]
    /\ left = [c \in Call |-> {}]
    /\ got = [c \in Call |-> None]
    /\ mails = [c \in Call |-> [p \in Provider |-> 0]]
    /\ known = {}
    /\ log = [c \in Call |-> NoLog]
    /\ breaker = "closed"
    /\ fate = [c \in Call |-> [p \in Provider |-> "pending"]]
    /\ reply = [c \in Call |-> [p \in Provider |-> "none"]]

Goto(c, step) == pc' = [pc EXCEPT ![c] = step]
SetLog(c, entry) == log' = [log EXCEPT ![c] = entry]
Fault(f) == f \in Faults

\* A write to MongoDB: done, done with its answer lost, or not done.
Write == {"ok"} \cup (IF Fault("mongo") THEN {"unknown", "failed"} ELSE {})
Written(o) == o \in {"ok", "unknown"}

-----------------------------------------------------------------------------
(* EmailService.sendEmail *)

\* A call with a template that compiles, and a subject.
Called(c, p) ==
    /\ pc[c] = "idle"
    /\ pref' = [pref EXCEPT ![c] = p]
    /\ Goto(c, "log")
    /\ UNCHANGED <<left, got, mails, breaker, logs, hook>>

\* BaseRepository.create of a log that names the mail and no message yet.
Created == [NoLog EXCEPT !.status = "queued"]

\* emailLogRepository.create; without a log the mail is sent all the same.
CreateLog(c) ==
    /\ pc[c] = "log"
    /\ \E o \in Write :
         /\ IF Written(o) THEN SetLog(c, Created)
                          ELSE UNCHANGED log
         /\ known' = IF o = "ok" THEN known \cup {c} ELSE known
    /\ Goto(c, "fire")
    /\ UNCHANGED <<pref, left, got, mails, breaker, hook>>

\* emailBreaker.fire: the failover loop starts, or the breaker rejects.
\* While half open it lets one call through.
Fire(c) ==
    /\ pc[c] = "fire"
    /\ IF breaker \in {"closed", "halfOpen"}
       THEN /\ Goto(c, "waiting")
            /\ left' = [left EXCEPT ![c] = Provider]
            /\ breaker' = IF breaker = "halfOpen" THEN "probing" ELSE breaker
       ELSE Goto(c, "rejected") /\ UNCHANGED <<left, breaker>>
    /\ UNCHANGED <<pref, got, mails, logs, hook>>

\* A failure may open a closed breaker and opens any other.
BreakerFails ==
    breaker' \in IF breaker = "closed" THEN {"closed", "open"} ELSE {"open"}
BreakerSucceeds ==
    breaker' = IF breaker \in {"halfOpen", "probing"} THEN "closed" ELSE breaker

\* Mutant: there is no timeout.
TimesOut_Never(c) == FALSE
\* The provider call takes longer than the breaker's timeout.
TimesOut(c) == Fault("slow") /\ pc[c] = "waiting"

Timeout(c) ==
    /\ TimesOut(c)
    /\ Goto(c, "timedOut")
    /\ BreakerFails
    /\ UNCHANGED <<pref, left, got, mails, logs, hook>>

\* Mutant: the update is repeated when its outcome is unknown.
AfterUpdate_Retried(o) == IF o = "unknown" THEN "accepted" ELSE "sent"
\* A failed update of the log is only logged.
AfterUpdate(o) == "sent"

\* updateStatus "sent", with the message id and the provider in one update.
MarkSent(c) ==
    /\ pc[c] = "accepted"
    /\ \E o \in IF c \in known THEN Write ELSE {"failed"} :
         /\ IF Written(o)
            THEN SetLog(c, [log[c] EXCEPT !.status = "sent", !.provider = got[c]])
            ELSE UNCHANGED log
         /\ Goto(c, AfterUpdate(o))
    /\ UNCHANGED <<pref, left, got, mails, breaker, known, hook>>

\* The fallback throws CB_OPEN in place of whatever the breaker failed with.
Fallback(why) == "CB_OPEN"

\* updateById "failed", and EmailDispatchError to the caller.
MarkFailed(c) ==
    /\ pc[c] \in Failure
    /\ \E o \in IF c \in known THEN Write ELSE {"failed"} :
         IF Written(o)
         THEN SetLog(c, [log[c] EXCEPT !.status = "failed", !.error = Fallback(pc[c])])
         ELSE UNCHANGED log
    /\ Goto(c, "failed")
    /\ UNCHANGED <<pref, left, got, mails, breaker, known, hook>>

-----------------------------------------------------------------------------
(* ProviderService.sendWithFailover *)

\* The preferred provider first, the others in the configured order.
Turn(c, p) ==
    /\ p \in left[c]
    /\ \/ p = pref[c]
       \/ pref[c] \notin left[c] /\ \A q \in left[c] : Rank[p] <= Rank[q]

\* Mutant: the preferred provider is not filtered from the others.
Rest_Unfiltered(c, p) == IF left[c] = Provider /\ p = pref[c]
                         THEN Provider ELSE left[c] \ {p}
Rest(c, p) == left[c] \ {p}

\* Mutant: a late result still resolves the call.
Awaited_Late(c) == pc[c] \in {"waiting", "failed"}
\* The breaker ignores a result that comes after its timeout.
Awaited(c) == pc[c] = "waiting"

Deliver(c, p) == mails' = [mails EXCEPT ![c][p] = @ + 1]

\* provider.send resolves, and so does the loop.
ProviderAccepts(c, p) ==
    /\ Turn(c, p)
    /\ Deliver(c, p)
    /\ left' = [left EXCEPT ![c] = {}]
    /\ IF Awaited(c)
       THEN Goto(c, "accepted") /\ got' = [got EXCEPT ![c] = p] /\ BreakerSucceeds
       ELSE UNCHANGED <<pc, got, breaker>>
    /\ UNCHANGED <<pref, logs, hook>>

\* Mutant: the loop returns as if the last provider had accepted the mail.
AllFailed_Swallowed == "accepted"
AllFailed == "undelivered"

\* provider.send rejects, whether or not the provider took the mail; the loop
\* goes on to the next provider or rejects after the last.
ProviderFails(c, p) ==
    /\ Fault("provider") /\ Turn(c, p)
    /\ Deliver(c, p) \/ UNCHANGED mails
    /\ left' = [left EXCEPT ![c] = Rest(c, p)]
    /\ IF Rest(c, p) = {} /\ Awaited(c)
       THEN Goto(c, AllFailed) /\ BreakerFails
       ELSE UNCHANGED <<pc, breaker>>
    /\ UNCHANGED <<pref, got, logs, hook>>

\* resetTimeout of an open breaker.
Reset ==
    /\ breaker = "open"
    /\ breaker' = "halfOpen"
    /\ UNCHANGED <<pc, pref, left, got, mails, logs, hook>>

-----------------------------------------------------------------------------
(* Webhooks *)

\* What becomes of an accepted mail: delivered and perhaps complained about,
\* or bounced.
MailEnds(c, p, f) ==
    /\ mails[c][p] > 0
    /\ \/ fate[c][p] = "pending" /\ f \in {"delivered", "soft", "hard"}
       \/ fate[c][p] = "delivered" /\ f = "complained"
    /\ fate' = [fate EXCEPT ![c][p] = f]
    /\ UNCHANGED <<call, logs, reply>>

\* parseWebhookEvent: the bounceType of an event, "none" when it sets none,
\* and "null" for an event that is ignored.  Resend calls every bounce hard.
ParseResend(f) == IF f \in {"soft", "hard"} THEN "hard" ELSE "none"
ParseMailersend(f) == CASE f \in {"soft", "hard"} -> f
                        [] f = "complained"       -> "none"
                        [] f = "delivered"        -> "null"
Parse(p, f) == IF p = Resend THEN ParseResend(f) ELSE ParseMailersend(f)

\* bounceData.bounceType ?? "soft"
BounceType(p, f) == IF Parse(p, f) = "none" THEN "soft" ELSE Parse(p, f)

ActionOf(p, type) ==
    CASE type = "hard" -> IF p = Resend THEN "retry_alternate_provider"
                                        ELSE "marked_invalid"
      [] type = "soft" -> "retry_alternate_provider"
      [] type = "complaint" -> "unsubscribed"

\* recordBounce looks a log up by its message id.
Found(c, p) == log[c].provider = p

\* verifyWebhookSignature of a genuine event.  The application parses JSON bodies
\* before it mounts the router, so the handler stringifies an object and nothing
\* matches.  Of svix-signature only the first entry is compared, which is that of the
\* other secret while one is being replaced.
VerifyResend == {RawBody} \cup (IF Fault("rotation") THEN {FALSE} ELSE {})
VerifyMailersend == {RawBody}
Verified(p) == IF p = Resend THEN VerifyResend ELSE VerifyMailersend

\* A genuine event of provider p about the mail of c, perhaps not for the first
\* time and at any time.  Refused: 401, or 500 where no secret is configured and the
\* parse of the body fails.
Webhook(c, p) ==
    /\ fate[c][p] # "pending"
    /\ \E verified \in Verified(p) :
         LET Answer(r) == reply' = [reply EXCEPT ![c][p] = r]
             type == BounceType(p, fate[c][p]) IN
         IF ~verified THEN Answer("refused") /\ UNCHANGED log
         ELSE IF type = "null" THEN Answer("ignored") /\ UNCHANGED log
         ELSE \E o \in Write :
                /\ IF Written(o) /\ Found(c, p)
                   THEN SetLog(c, [log[c] EXCEPT !.status = "bounced"])
                   ELSE UNCHANGED log
                /\ Answer(IF o # "ok" THEN "500"
                          ELSE IF Found(c, p) THEN ActionOf(p, type) ELSE "notFound")
    /\ UNCHANGED <<call, known, fate>>

-----------------------------------------------------------------------------
Caller(c) == CreateLog(c) \/ Fire(c) \/ Timeout(c) \/ MarkSent(c) \/ MarkFailed(c)
Loop(c, p) == ProviderAccepts(c, p) \/ ProviderFails(c, p)

Next ==
    \/ \E c \in Call :
         \/ Caller(c)
         \/ \E p \in Provider \cup {None} : Called(c, p)
         \/ \E p \in Provider : \/ Loop(c, p) \/ Webhook(c, p)
                                \/ \E f \in Fates : MailEnds(c, p, f)
    \/ Reset

Spec == Init /\ [][Next]_vars

\* The service's own awaits are bounded by the driver and by the breaker's
\* timeout; of the providers nothing is assumed.
FairSpec == Spec /\ \A c \in Call : WF_vars(Caller(c))

-----------------------------------------------------------------------------
(* Properties *)

Mailed(c) == \E p \in Provider : mails[c][p] > 0

\* sendEmail resolves only if a provider accepted the mail, and a log says sent
\* or bounced only of a message that the provider it names accepted.
SentWasAccepted == \A c \in Call :
    /\ pc[c] = "sent" => Mailed(c)
    /\ log[c].status \in {"sent", "bounced"} =>
         log[c].provider # None /\ mails[c][log[c].provider] > 0

\* Failover, preferred provider and late results included, one call gives its
\* mail to each provider at most once.
OncePerProvider == \A c \in Call, p \in Provider : mails[c][p] <= 1

\* A call that was answered stays answered: a provider that accepts the mail
\* after the breaker's timeout changes neither the answer nor the log, and only
\* a webhook touches the log then.
AnswerIsFinal ==
    [][\A c \in Call : pc[c] \in Settled =>
         /\ pc'[c] = pc[c]
         /\ log'[c] = log[c] \/ log'[c].status = "bounced"]_vars

\* A bounce that the webhook answered with an action is in the log and stays
\* there: the update that marks the mail as sent never comes after it.
AnsweredBounceIsRecorded == \A c \in Call, p \in Provider :
    reply[c][p] \in Action => log[c].status = "bounced"

\* Every call is answered, however slow the providers are.
CallsSettle == \A c \in Call : (pc[c] = "log") ~> (pc[c] \in Settled)

\* What makes the invariants inductive.
UntriedIsUnsent == \A c \in Call :
    /\ pc[c] \in {"idle", "log", "fire", "rejected"} =>
         left[c] = {} /\ \A p \in Provider : mails[c][p] = 0
    /\ \A p \in left[c] : mails[c][p] = 0
GotWasAccepted == \A c \in Call : pc[c] \in {"accepted", "sent"} =>
    got[c] \in Provider /\ mails[c][got[c]] > 0
LogFollowsCall == \A c \in Call :
    /\ pc[c] \in {"idle", "log"} => log[c] = NoLog
    /\ pc[c] \in {"accepted"} \cup Failure \cup {"fire", "waiting"} =>
         log[c].status \in {"absent", "queued"} /\ log[c].provider = None
    /\ log[c].provider # None <=> log[c].status \in {"sent", "bounced"}
DeliveryInv == TypeOK /\ UntriedIsUnsent /\ GotWasAccepted /\ LogFollowsCall
               /\ SentWasAccepted /\ OncePerProvider /\ AnsweredBounceIsRecorded

\* Refinement: a call is an attempt as the queue knows it.
StageOf(c) == IF pc[c] = "sent" THEN "ok"
              ELSE IF pc[c] = "failed" THEN "error"
              ELSE IF Mailed(c) THEN "sent" ELSE "start"
Stages == [c \in Call |-> StageOf(c)]
Attempt == INSTANCE SendAttempt WITH stage <- Stages
ImplementsSendAttempt == Attempt!Spec
=============================================================================
