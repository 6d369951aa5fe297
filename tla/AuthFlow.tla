------------------------------ MODULE AuthFlow ------------------------------
(***************************************************************************)
(* Registration and e-mail verification, as the API processes run them:    *)
(* RegistrationService.register, TokenService.createVerificationToken and  *)
(* VerificationService.verify, one action per awaited call, over the two   *)
(* stores they share: the users collection of MongoDB and the keys of      *)
(* Redis, reached through the circuit-breaker proxy that answers null to a *)
(* failed get, set, del or ttl.  The e-mail queue and its worker appear as *)
(* the set of accepted jobs and the set of delivered messages; EmailQueue  *)
(* models them.                                                            *)
(*                                                                         *)
(* A register request names its token, its job and, once it commits, its   *)
(* user document: each call draws one fresh random token and creates at    *)
(* most one user, so r \in Reg stands for all three.                       *)
(***************************************************************************)
EXTENDS Naturals

CONSTANTS
    Reg,        \* POST /auth/register requests
    Ver,        \* GET /auth/verify-email requests
    Address,    \* e-mail addresses as they are typed
    Mailbox,    \* normalised addresses
    Normalize,  \* normalizeEmail, as a function
    Faults,     \* which stores may fail: "redis" (keys and queue), "mongo"
    None

ASSUME AuthAssumption ==
    /\ Normalize \in [Address -> Mailbox]
    /\ None \notin Reg \cup Address

VARIABLES
    users,       \* unique index of the users collection: mailbox -> document
    isVerified,  \* documents whose isVerified field is true
    token,       \* the Redis key of each verification token
    limit,       \* the Redis rate-limit key of each mailbox
    late,        \* timed-out commands that may still reach Redis
    jobs,        \* verification jobs accepted by the queue
    mailed,      \* verification mails that reached their address
    regPc, regAddr,  \* per register request: next step or reply, its input
    verPc, verTok    \* per verify request: next step or reply, its input

vars == <<users, isVerified, token, limit, late, jobs, mailed,
          regPc, regAddr, verPc, verTok>>
stores == <<users, isVerified, token, limit, late, jobs, mailed>>

RegStep  == {"checkLimit", "createUser", "createToken", "queueEmail", "setLimit"}
RegReply == {"201", "409", "429", "500", "503"}
VerStep  == {"getToken", "findUser", "saveUser", "delVerified", "delAlready"}
VerReply == {"VERIFIED", "ALREADY_VERIFIED", "404", "500"}

\* A key is live until its TTL ends or a del removes it; every other state
\* reads as null and differs only in how the key went away.
KeyState == {"never", "live", "expired", "deleted"}

TypeOK ==
    /\ users \in [Mailbox -> Reg \cup {None}]
    /\ isVerified \subseteq Reg
    /\ token \in [Reg -> KeyState]
    /\ limit \in [Mailbox -> BOOLEAN]
    /\ late \in [setToken : SUBSET Reg, setAgain : SUBSET Reg,
                 addJob : SUBSET Reg, setLimit : SUBSET Reg, delToken : SUBSET Ver]
    /\ jobs \subseteq Reg
    /\ mailed \subseteq Reg
    /\ regPc \in [Reg -> {"idle"} \cup RegStep \cup RegReply]
    /\ regAddr \in [Reg -> Address \cup {None}]
    /\ verPc \in [Ver -> {"idle"} \cup VerStep \cup VerReply]
    /\ verTok \in [Ver -> Reg \cup {None}]

Init ==
    /\ users = [m \in Mailbox |-> None]
    /\ isVerified = {}
    /\ token = [r \in Reg |-> "never"]
    /\ limit = [m \in Mailbox |-> FALSE]
    /\ late = [setToken |-> {}, setAgain |-> {}, addJob |-> {}, setLimit |-> {}, delToken |-> {}]
    /\ jobs = {}
    /\ mailed = {}
    /\ regPc = [r \in Reg |-> "idle"]
    /\ regAddr = [r \in Reg |-> None]
    /\ verPc = [v \in Ver |-> "idle"]
    /\ verTok = [v \in Ver |-> None]

-----------------------------------------------------------------------------
(* Dependencies *)

\* What the proxied get answers for a key: null also when the command fails.
Read(present) ==
    {present} \cup (IF "redis" \in Faults THEN {FALSE} ELSE {})

\* Mutant: the keys are set without EX.
Present_NoExpiry(key) == key \in {"live", "expired"}
\* A key past its TTL reads as absent.
Present(key) == key = "live"

\* A write through a breaker: it is applied and acknowledged, or it fails
\* for the caller, and then was applied with its reply lost, never happens,
\* is still in flight (the breaker's timeout does not cancel it), or was
\* applied and is sent again after a reconnect.
Outcome ==
    {"ok"} \cup (IF "redis" \in Faults
                 THEN {"replyLost", "dropped", "inFlight", "resent"}
                 ELSE {})
Applied(o)  == o \in {"ok", "replyLost", "resent"}
InFlight(o) == o \in {"inFlight", "resent"}

\* A transaction or save that fails for the caller may still have committed.
Commit == {"ok"} \cup (IF "mongo" \in Faults THEN {"unknown", "aborted"} ELSE {})
Committed(o) == o \in {"ok", "unknown"}

Find == {"ok"} \cup (IF "mongo" \in Faults THEN {"failed"} ELSE {})

\* One connection per process carries both the cache commands and the queue:
\* a request's command is applied after its own earlier ones have been.
Settled_OwnConnection(r) == TRUE
Settled(r) == r \notin late.setToken \cup late.addJob

\* A token's SET that is sent again is kept apart from one that was never
\* applied: later commands of its connection may already have been.
Mark(cmd, x, o) ==
    late' = IF InFlight(o) THEN [late EXCEPT ![cmd] = @ \cup {x}] ELSE late
MarkSet(r, o) == Mark(IF o = "resent" THEN "setAgain" ELSE "setToken", r, o)

MailboxOf(r) == Normalize[regAddr[r]]

-----------------------------------------------------------------------------
(* POST /auth/register *)

Goto(r, step) == regPc' = [regPc EXCEPT ![r] = step]

\* A validated request reaches the handler.
RegisterArrives(r, a) ==
    /\ regPc[r] = "idle"
    /\ regAddr' = [regAddr EXCEPT ![r] = a]
    /\ Goto(r, "checkLimit")
    /\ UNCHANGED <<stores, verPc, verTok>>

\* redis.get(rateLimitKey): anything but null is a 429.
CheckRateLimit(r) ==
    /\ regPc[r] = "checkLimit"
    /\ \E limited \in Read(limit[MailboxOf(r)]) :
         Goto(r, IF limited THEN "429" ELSE "createUser")
    /\ UNCHANGED <<stores, regAddr, verPc, verTok>>

\* Mutant: no unique index on normalizedEmail.
Free_NoIndex(m) == TRUE
Free(m) == users[m] = None

Insert(m, r) ==
    /\ users' = [users EXCEPT ![m] = r]
    /\ UNCHANGED isVerified

\* User.create hashes the password and validates the document, which a request may
\* fail that passed its own schema: a name of spaces is trimmed first.
Create == Commit \cup {"invalid"}

AfterCreate(o) == IF o = "ok" THEN "createToken" ELSE "500"

\* withTransaction(User.create): 409 on a duplicate key; any other failure,
\* a commit whose outcome stays unknown included, is a 500.
CreateUser(r) ==
    /\ regPc[r] = "createUser"
    /\ \E o \in Create :
         /\ Goto(r, IF Committed(o) /\ ~Free(MailboxOf(r))
                    THEN "409" ELSE AfterCreate(o))
         /\ IF Committed(o) /\ Free(MailboxOf(r))
            THEN Insert(MailboxOf(r), r)
            ELSE UNCHANGED <<users, isVerified>>
    /\ UNCHANGED <<token, limit, late, jobs, mailed, regAddr, verPc, verTok>>

Store(r) == token' = [token EXCEPT ![r] = "live"]

\* What createVerificationToken throws is a 500, but a failed set answers null like
\* any other proxied failure: the handler goes on to queue the mail.
AfterCreateToken(o) == "queueEmail"

\* createVerificationToken: the set, then a ttl whose answer is only logged.
CreateToken(r) ==
    /\ regPc[r] = "createToken"
    /\ \E o \in Outcome :
         /\ IF Applied(o) THEN Store(r) ELSE UNCHANGED token
         /\ MarkSet(r, o)
         /\ Goto(r, AfterCreateToken(o))
    /\ UNCHANGED <<users, isVerified, limit, jobs, mailed,
                   regAddr, verPc, verTok>>

\* Mutant: the failure of addJob is logged and not rethrown.
AfterAddJob_Swallowed(o) == "setLimit"
AfterAddJob(o) == IF o = "ok" THEN "setLimit" ELSE "503"

\* emailProducer.addJob under the id verify-email-<user>: a second add of the
\* same id is ignored by the queue, so sending it again is like losing the reply.
\* A failure is a 503.
QueueEmail(r) ==
    /\ regPc[r] = "queueEmail"
    /\ \E o \in Outcome \ {"resent"} :
         /\ Applied(o) => Settled(r)
         /\ jobs' = IF Applied(o) THEN jobs \cup {r} ELSE jobs
         /\ Mark("addJob", r, o)
         /\ Goto(r, AfterAddJob(o))
    /\ UNCHANGED <<users, isVerified, token, limit, mailed,
                   regAddr, verPc, verTok>>

\* redis.set(rateLimitKey): its failure is a null the handler does not look
\* at, so the 201 is sent either way.
SetRateLimit(r) ==
    /\ regPc[r] = "setLimit"
    /\ \E o \in Outcome :
         /\ Applied(o) => Settled(r)
         /\ limit' = IF Applied(o) THEN [limit EXCEPT ![MailboxOf(r)] = TRUE]
                                   ELSE limit
         /\ Mark("setLimit", r, o)
    /\ Goto(r, "201")
    /\ UNCHANGED <<users, isVerified, token, jobs, mailed,
                   regAddr, verPc, verTok>>

-----------------------------------------------------------------------------
(* GET /auth/verify-email *)

VerGoto(v, step) == verPc' = [verPc EXCEPT ![v] = step]

\* Somebody follows the link of a delivered mail, or sends a token that no
\* request ever drew (None).
VerifyArrives(v, t) ==
    /\ verPc[v] = "idle"
    /\ verTok' = [verTok EXCEPT ![v] = t]
    /\ VerGoto(v, "getToken")
    /\ UNCHANGED <<stores, regPc, regAddr>>

\* redis.get(verifyKey): null is a 404.
GetToken(v) ==
    /\ verPc[v] = "getToken"
    /\ \E found \in Read(verTok[v] # None /\ Present(token[verTok[v]])) :
         VerGoto(v, IF found THEN "findUser" ELSE "404")
    /\ UNCHANGED <<stores, regPc, regAddr, verTok>>

Exists(t) == users[MailboxOf(t)] = t

\* Mutant: a database error is treated like a missing document.
AfterFind_ErrorIsNull(o, t) ==
    IF o # "ok" \/ ~Exists(t) THEN "404"
    ELSE IF t \in isVerified THEN "delAlready" ELSE "saveUser"
AfterFind(o, t) ==
    IF o # "ok" THEN "500"
    ELSE IF ~Exists(t) THEN "404"
    ELSE IF t \in isVerified THEN "delAlready" ELSE "saveUser"

\* User.findById, and the test of isVerified on the copy it returned.
FindUser(v) ==
    /\ verPc[v] = "findUser"
    /\ \E o \in Find : VerGoto(v, AfterFind(o, verTok[v]))
    /\ UNCHANGED <<stores, regPc, regAddr, verTok>>

\* Mutant: a failed save is answered like a successful one.
AfterSave_Swallowed(o) == "delVerified"
AfterSave(o) == IF o = "ok" THEN "delVerified" ELSE "500"

Consume(t) == token' = [token EXCEPT ![t] = IF Present(@) THEN "deleted" ELSE @]

\* Mutant: the token is removed before the save, whatever becomes of it.
SaveUser_TokenFirst(v) ==
    /\ verPc[v] = "saveUser"
    /\ \E o \in Commit :
         /\ isVerified' = IF Committed(o) THEN isVerified \cup {verTok[v]}
                                          ELSE isVerified
         /\ VerGoto(v, AfterSave(o))
    /\ Consume(verTok[v])
    /\ UNCHANGED <<users, limit, late, jobs, mailed, regPc, regAddr, verTok>>

\* user.isVerified = true; user.save().
SaveUser(v) ==
    /\ verPc[v] = "saveUser"
    /\ \E o \in Commit :
         /\ isVerified' = IF Committed(o) THEN isVerified \cup {verTok[v]}
                                          ELSE isVerified
         /\ VerGoto(v, AfterSave(o))
    /\ UNCHANGED <<users, token, limit, late, jobs, mailed,
                   regPc, regAddr, verTok>>

\* redis.del(verifyKey) on both paths; a failed del answers null and the
\* reply is sent as if it had worked.
DeleteToken(v) ==
    /\ verPc[v] \in {"delVerified", "delAlready"}
    /\ \E o \in Outcome :
         /\ IF Applied(o) THEN Consume(verTok[v]) ELSE UNCHANGED token
         /\ Mark("delToken", v, o)
    /\ VerGoto(v, IF verPc[v] = "delVerified" THEN "VERIFIED"
                                              ELSE "ALREADY_VERIFIED")
    /\ UNCHANGED <<users, isVerified, limit, jobs, mailed,
                   regPc, regAddr, verTok>>

-----------------------------------------------------------------------------
(* Environment *)

\* A command whose caller was answered long ago reaches Redis.  Commands that
\* never do are the "dropped" outcomes.
LateSetToken(r) ==
    /\ r \in late.setToken
    /\ late' = [late EXCEPT !.setToken = @ \ {r}]
    /\ Store(r)
    /\ UNCHANGED <<users, isVerified, limit, jobs, mailed,
                   regPc, regAddr, verPc, verTok>>

\* The connection was lost before the reply, and is lost again or not.
RepeatSetToken(r) ==
    /\ r \in late.setAgain
    /\ late' \in {late, [late EXCEPT !.setAgain = @ \ {r}]}
    /\ Store(r)
    /\ UNCHANGED <<users, isVerified, limit, jobs, mailed,
                   regPc, regAddr, verPc, verTok>>

LateAddJob(r) ==
    /\ r \in late.addJob \ late.setToken
    /\ late' = [late EXCEPT !.addJob = @ \ {r}]
    /\ jobs' = jobs \cup {r}
    /\ UNCHANGED <<users, isVerified, token, limit, mailed,
                   regPc, regAddr, verPc, verTok>>

LateSetRateLimit(r) ==
    /\ r \in late.setLimit /\ Settled(r)
    /\ late' = [late EXCEPT !.setLimit = @ \ {r}]
    /\ limit' = [limit EXCEPT ![MailboxOf(r)] = TRUE]
    /\ UNCHANGED <<users, isVerified, token, jobs, mailed,
                   regPc, regAddr, verPc, verTok>>

LateDelToken(v) ==
    /\ v \in late.delToken
    /\ late' = [late EXCEPT !.delToken = @ \ {v}]
    /\ Consume(verTok[v])
    /\ UNCHANGED <<users, isVerified, limit, jobs, mailed,
                   regPc, regAddr, verPc, verTok>>

\* EX on both keys: 300 s for a token, 180 s for the rate limit.
ExpireToken(r) ==
    /\ Present(token[r])
    /\ token' = [token EXCEPT ![r] = "expired"]
    /\ UNCHANGED <<users, isVerified, limit, late, jobs, mailed,
                   regPc, regAddr, verPc, verTok>>

ExpireRateLimit(m) ==
    /\ limit[m]
    /\ limit' = [limit EXCEPT ![m] = FALSE]
    /\ UNCHANGED <<users, isVerified, token, late, jobs, mailed,
                   regPc, regAddr, verPc, verTok>>

\* The worker sends the verification mail of an accepted job.
MailArrives(r) ==
    /\ r \in jobs \ mailed
    /\ mailed' = mailed \cup {r}
    /\ UNCHANGED <<users, isVerified, token, limit, late, jobs,
                   regPc, regAddr, verPc, verTok>>

-----------------------------------------------------------------------------
Register(r) == \/ CheckRateLimit(r) \/ CreateUser(r) \/ CreateToken(r)
               \/ QueueEmail(r) \/ SetRateLimit(r)
Verify(v) == GetToken(v) \/ FindUser(v) \/ SaveUser(v) \/ DeleteToken(v)

Next ==
    \/ \E r \in Reg : \/ \E a \in Address : RegisterArrives(r, a)
                      \/ Register(r)
                      \/ LateSetToken(r) \/ RepeatSetToken(r)
                      \/ LateAddJob(r) \/ LateSetRateLimit(r)
                      \/ ExpireToken(r) \/ MailArrives(r)
    \/ \E v \in Ver : \/ \E t \in mailed \cup {None} : VerifyArrives(v, t)
                      \/ Verify(v) \/ LateDelToken(v)
    \/ \E m \in Mailbox : ExpireRateLimit(m)

Spec == Init /\ [][Next]_vars

-----------------------------------------------------------------------------
(* Properties *)

Registered(r) == regPc[r] # "idle" /\ users[MailboxOf(r)] = r

\* Only the owner of the mailbox can verify it: an account is verified by
\* verify() only with the token of a mail that reached its address.
OnlyInvitedIsVerified == isVerified \subseteq mailed

\* Concurrent sign-ups, dot variants of one address included: register()
\* answers 201 to at most one request per mailbox.
OneSignUpPerMailbox ==
    \A r, q \in Reg :
        (regPc[r] = "201" /\ regPc[q] = "201" /\ r # q)
            => MailboxOf(r) # MailboxOf(q)

\* Whatever fails, a 201 is sent only for a user document that is committed
\* and a verification job that the queue holds.
SignUpIsDurable == \A r \in Reg : regPc[r] = "201" => Registered(r) /\ r \in jobs

\* A mailbox is rate-limited (429) only once it has an account: a sign-up that
\* failed before its commit can always be tried again.
LimitedMeansRegistered ==
    \A r \in Reg : regPc[r] = "429" => users[MailboxOf(r)] # None

\* Every live verification key names a committed user document, so verify()
\* never reaches its "user from token not found" branch.
LiveTokenHasUser == \A r \in Reg : Present(token[r]) => Registered(r)

\* A reply VERIFIED or ALREADY_VERIFIED is true when it is sent and ever after,
\* for concurrent verifications and failed saves too.
VerifiedReplyIsTrue ==
    \A v \in Ver : verPc[v] \in {"VERIFIED", "ALREADY_VERIFIED"}
                     => verTok[v] \in isVerified

\* A token that verify() removed is never live again by a command still in
\* flight.  Only a SET that ioredis sends again after the connection broke brings
\* it back, and then its account is verified already.
ConsumedStaysConsumed ==
    [][\A r \in Reg : token[r] = "deleted" =>
         token'[r] = "deleted" \/ r \in late.setAgain \cap isVerified]_vars

\* No way back: register() is the only source of tokens and answers 409 or 429
\* to an existing account.  Once its key has expired with none in flight and no
\* verification past its read, an unverified account stays so.
Stuck(r) == /\ token[r] = "expired" /\ r \notin late.setToken \cup late.setAgain
            /\ r \notin isVerified
            /\ \A v \in Ver : verTok[v] = r => verPc[v] \notin {"findUser", "saveUser"}
ExpiredMeansStuck == [][\A r \in Reg : Stuck(r) => Stuck(r)']_vars

\* With Redis up: a 201 means the mailed token verifies the account until it
\* expires, unless it already has.
SignUpIsVerifiable ==
    \A r \in Reg : regPc[r] = "201" =>
        \/ token[r] \in {"live", "expired"}
        \/ token[r] = "deleted" /\ r \in isVerified

\* With Redis up: verify() answers 404 only to a token that was never issued,
\* has expired or was used.
NotFoundIsTruthful ==
    \A v \in Ver : verPc[v] = "404" =>
        verTok[v] = None \/ token[verTok[v]] \in {"expired", "deleted"}

\* What makes the invariants inductive: how far a request must have come for
\* its traces in the stores to exist.
PastQueue == {"setLimit", "201", "503"}
RequestsKnown == \A r \in Reg : regPc[r] # "idle" => regAddr[r] \in Address
IndexSound ==
    \A m \in Mailbox : users[m] # None =>
        regPc[users[m]] # "idle" /\ MailboxOf(users[m]) = m
TracesHaveUser ==
    /\ \A r \in Reg : regPc[r] \in {"createToken", "queueEmail", "setLimit", "201"}
                        => Registered(r)
    /\ \A r \in Reg : (\/ token[r] # "never"
                       \/ r \in late.setToken \cup late.setAgain \cup late.setLimit
                       \/ r \in jobs \cup late.addJob) => Registered(r)
    /\ \A m \in Mailbox : limit[m] => users[m] # None
CommandsInOrder ==
    /\ \A r \in Reg : (r \in late.setToken \cup late.setAgain \/ token[r] # "never")
                        => regPc[r] \in {"queueEmail"} \cup PastQueue
    /\ \A r \in jobs \cup late.addJob : regPc[r] \in PastQueue
    /\ jobs \cap late.setToken = {}
    /\ \A r \in Reg : regPc[r] \in {"setLimit", "201"} => r \in jobs
    /\ \A r \in Reg : token[r] = "deleted" => r \in mailed \cap isVerified
MailHasJob == mailed \subseteq jobs
TokensWereMailed ==
    \A v \in Ver :
        /\ verTok[v] \in mailed \cup {None}
        /\ verTok[v] = None => verPc[v] \in {"idle", "getToken", "404"}
        /\ v \in late.delToken => verPc[v] \in {"VERIFIED", "ALREADY_VERIFIED"}
        /\ verPc[v] \in {"delVerified", "delAlready", "VERIFIED", "ALREADY_VERIFIED"}
             => verTok[v] \in isVerified

AuthInv ==
    /\ TypeOK /\ RequestsKnown /\ IndexSound /\ TracesHaveUser /\ CommandsInOrder
    /\ MailHasJob /\ TokensWereMailed
    /\ OnlyInvitedIsVerified /\ LimitedMeansRegistered

\* Refinement: the life of each mailbox is that of AccountLifecycle.
StageOf(m) == IF users[m] = None THEN "absent"
              ELSE IF users[m] \in isVerified THEN "verified"
              ELSE IF users[m] \in mailed THEN "invited"
              ELSE "unverified"
Account == INSTANCE AccountLifecycle
             WITH account <- [m \in Mailbox |-> StageOf(m)]
ImplementsLifecycle == Account!Spec
=============================================================================
