-------------------------- MODULE AuthFlow_proofs ---------------------------
(***************************************************************************)
(* The safety properties of AuthFlow for any number of requests, addresses *)
(* and mailboxes and any set of failing stores, and how it fits the        *)
(* abstract life of an account and the abstract queue.                     *)
(***************************************************************************)
EXTENDS AuthFlow, TLAPS

-----------------------------------------------------------------------------
(* Helpers *)

\* normalizeEmail maps every address to a mailbox.
LEMMA MailboxType ==
    ASSUME NEW r, regAddr[r] \in Address
    PROVE  MailboxOf(r) \in Mailbox
  BY AuthAssumption DEF MailboxOf

\* What a transaction, a write or a lookup may answer, whatever may fail.
LEMMA Outcomes ==
    /\ Commit \subseteq {"ok", "unknown", "aborted"}
    /\ Create \subseteq {"ok", "unknown", "aborted", "invalid"}
    /\ Outcome \subseteq {"ok", "replyLost", "dropped", "inFlight", "resent"}
    /\ Find \subseteq {"ok", "failed"}
  BY DEF Commit, Create, Outcome, Find

\* A proxied get never reports a key that is not there.
LEMMA NoFalseHit ==
    ASSUME NEW present \in BOOLEAN, NEW reply \in Read(present), reply
    PROVE  present
  BY DEF Read

LEMMA ReadType ==
    ASSUME NEW present \in BOOLEAN PROVE Read(present) \subseteq BOOLEAN
  BY DEF Read

-----------------------------------------------------------------------------
(* The invariant holds initially. *)

LEMMA InitAuthInv == Init => AuthInv
  BY AuthAssumption
  DEF Init, AuthInv, TypeOK, KeyState, RequestsKnown, IndexSound,
      TracesHaveUser, CommandsInOrder, MailHasJob, TokensWereMailed,
      OnlyInvitedIsVerified, LimitedMeansRegistered, Registered, PastQueue
-----------------------------------------------------------------------------
(* Every step preserves it. *)

LEMMA StepAuthInv == AuthInv /\ [Next]_vars => AuthInv'
<1> SUFFICES ASSUME AuthInv, [Next]_vars PROVE AuthInv'
  OBVIOUS
<1> USE AuthAssumption, Outcomes
    DEF AuthInv, TypeOK, KeyState, RegStep, RegReply, VerStep, VerReply,
        RequestsKnown, IndexSound, TracesHaveUser, CommandsInOrder, MailHasJob,
        TokensWereMailed, OnlyInvitedIsVerified, LimitedMeansRegistered,
        Registered, PastQueue, MailboxOf, stores
<1>1. ASSUME NEW r \in Reg, NEW a \in Address, RegisterArrives(r, a) PROVE AuthInv'
  BY <1>1 DEF RegisterArrives, Goto
<1>2. ASSUME NEW r \in Reg, CheckRateLimit(r) PROVE AuthInv'
  <2>1. limit[MailboxOf(r)] \in BOOLEAN /\ users[MailboxOf(r)] \in Reg \cup {None}
    BY <1>2, MailboxType DEF CheckRateLimit
  <2>2. \/ limit[MailboxOf(r)] /\ regPc' = [regPc EXCEPT ![r] = "429"]
        \/ regPc' = [regPc EXCEPT ![r] = "createUser"]
    BY <1>2, <2>1 DEF CheckRateLimit, Goto, Read
  <2> QED
    BY <1>2, <2>1, <2>2, MailboxType DEF CheckRateLimit
<1>3. ASSUME NEW r \in Reg, CreateUser(r) PROVE AuthInv'
  <2>1. MailboxOf(r) \in Mailbox
    BY <1>3 DEF CreateUser
  <2>2. CASE users[MailboxOf(r)] # None
    BY <1>3, <2>1, <2>2 DEF CreateUser, Goto, AfterCreate, Free, Committed
  <2>3. ASSUME users[MailboxOf(r)] = None, NEW o \in Create, Committed(o),
               Goto(r, AfterCreate(o)), Insert(MailboxOf(r), r)
        PROVE  AuthInv'
    BY <1>3, <2>1, <2>3 DEF CreateUser, Goto, AfterCreate, Insert, Committed
  <2>4. ASSUME users[MailboxOf(r)] = None, NEW o \in Create, ~Committed(o),
               Goto(r, AfterCreate(o)), UNCHANGED <<users, isVerified>>
        PROVE  AuthInv'
    BY <1>3, <2>1, <2>4 DEF CreateUser, Goto, AfterCreate, Committed
  <2> QED
    BY <1>3, <2>1, <2>2, <2>3, <2>4 DEF CreateUser, Free
<1>4. ASSUME NEW r \in Reg, CreateToken(r) PROVE AuthInv'
  BY <1>4 DEF CreateToken, AfterCreateToken, Goto, Store, MarkSet, Mark, Applied, InFlight
<1>5. ASSUME NEW r \in Reg, QueueEmail(r) PROVE AuthInv'
  BY <1>5 DEF QueueEmail, Goto, AfterAddJob, Mark, Applied, InFlight, Settled
<1>6. ASSUME NEW r \in Reg, SetRateLimit(r) PROVE AuthInv'
  BY <1>6 DEF SetRateLimit, Goto, Mark, Applied, InFlight, Settled
<1>7. ASSUME NEW r \in Reg, LateSetToken(r) PROVE AuthInv'
  BY <1>7 DEF LateSetToken, Store
<1>8. ASSUME NEW r \in Reg, LateAddJob(r) \/ RepeatSetToken(r) PROVE AuthInv'
  BY <1>8 DEF LateAddJob, RepeatSetToken, Store
<1>9. ASSUME NEW r \in Reg, LateSetRateLimit(r) PROVE AuthInv'
  BY <1>9 DEF LateSetRateLimit
<1>10. ASSUME NEW r \in Reg, ExpireToken(r) PROVE AuthInv'
  BY <1>10 DEF ExpireToken, Present
<1>11. ASSUME NEW r \in Reg, MailArrives(r) PROVE AuthInv'
  BY <1>11 DEF MailArrives
<1>12. ASSUME NEW v \in Ver, NEW t \in mailed \cup {None}, VerifyArrives(v, t) PROVE AuthInv'
  BY <1>12 DEF VerifyArrives, VerGoto
<1>13. ASSUME NEW v \in Ver, GetToken(v) PROVE AuthInv'
  <2> DEFINE here == verTok[v] # None /\ Present(token[verTok[v]])
  <2>1. here \in BOOLEAN
    OBVIOUS
  <2>2. here => verTok[v] # None
    OBVIOUS
  <2>3. PICK found \in Read(here) : VerGoto(v, IF found THEN "findUser" ELSE "404")
    BY <1>13 DEF GetToken
  <2> HIDE DEF here
  <2>4. found \in BOOLEAN /\ (found => here)
    BY <2>1, <2>3, NoFalseHit, ReadType
  <2>5. \/ verPc' = [verPc EXCEPT ![v] = "404"]
        \/ verTok[v] # None /\ verPc' = [verPc EXCEPT ![v] = "findUser"]
    BY <2>2, <2>3, <2>4 DEF VerGoto
  <2> QED
    BY <1>13, <2>5 DEF GetToken
<1>14. ASSUME NEW v \in Ver, FindUser(v) PROVE AuthInv'
  <2>1. \/ verPc' = [verPc EXCEPT ![v] = "500"]
        \/ verPc' = [verPc EXCEPT ![v] = "404"]
        \/ verPc' = [verPc EXCEPT ![v] = "saveUser"]
        \/ verTok[v] \in isVerified /\ verPc' = [verPc EXCEPT ![v] = "delAlready"]
    BY <1>14 DEF FindUser, VerGoto, AfterFind
  <2>2. verPc[v] = "findUser" /\ verTok[v] # None
    BY <1>14 DEF FindUser
  <2> QED
    BY <1>14, <2>1, <2>2 DEF FindUser
<1>15. ASSUME NEW v \in Ver, SaveUser(v) PROVE AuthInv'
  BY <1>15 DEF SaveUser, VerGoto, AfterSave, Committed
<1>16. ASSUME NEW v \in Ver, DeleteToken(v) PROVE AuthInv'
  BY <1>16 DEF DeleteToken, VerGoto, Consume, Present, Mark, Applied, InFlight
<1>17. ASSUME NEW v \in Ver, LateDelToken(v) PROVE AuthInv'
  BY <1>17 DEF LateDelToken, Consume, Present
<1>18. ASSUME NEW m \in Mailbox, ExpireRateLimit(m) PROVE AuthInv'
  BY <1>18 DEF ExpireRateLimit
<1>19. CASE UNCHANGED vars
  BY <1>19 DEF vars
<1> QED
  BY <1>1, <1>2, <1>3, <1>4, <1>5, <1>6, <1>7, <1>8, <1>9, <1>10, <1>11, <1>12, <1>13, <1>14, <1>15, <1>16, <1>17, <1>18, <1>19 DEF Next, Register, Verify

\* AuthInv is an invariant of every behaviour of the two flows.
THEOREM AuthInvariant == Spec => []AuthInv
  BY InitAuthInv, StepAuthInv, PTL DEF Spec

\* Every variable keeps its type.
THEOREM TypeCorrect == Spec => []TypeOK
<1>1. AuthInv => TypeOK
  BY DEF AuthInv
<1> QED
  BY <1>1, AuthInvariant, PTL

\* An account is verified only with the token that was mailed to its address.
THEOREM OnlyInvited == Spec => []OnlyInvitedIsVerified
<1>1. AuthInv => OnlyInvitedIsVerified
  BY DEF AuthInv
<1> QED
  BY <1>1, AuthInvariant, PTL

\* At most one register() call per mailbox is answered 201.
THEOREM OneSignUp == Spec => []OneSignUpPerMailbox
<1>1. AuthInv => OneSignUpPerMailbox
  BY DEF AuthInv, TracesHaveUser, Registered, OneSignUpPerMailbox
<1> QED
  BY <1>1, AuthInvariant, PTL

\* A 201 is sent only for a committed user and a queued verification job.
THEOREM SignUpDurable == Spec => []SignUpIsDurable
<1>1. AuthInv => SignUpIsDurable
  BY DEF AuthInv, TracesHaveUser, CommandsInOrder, SignUpIsDurable
<1> QED
  BY <1>1, AuthInvariant, PTL

\* A 429 is sent only for a mailbox that has an account.
THEOREM LimitedRegistered == Spec => []LimitedMeansRegistered
<1>1. AuthInv => LimitedMeansRegistered
  BY DEF AuthInv
<1> QED
  BY <1>1, AuthInvariant, PTL

\* Every live verification key belongs to a committed user.
THEOREM LiveToken == Spec => []LiveTokenHasUser
<1>1. AuthInv => LiveTokenHasUser
  BY DEF AuthInv, TracesHaveUser, LiveTokenHasUser, Present
<1> QED
  BY <1>1, AuthInvariant, PTL

\* VERIFIED and ALREADY_VERIFIED are never said of an unverified account.
THEOREM VerifiedReply == Spec => []VerifiedReplyIsTrue
<1>1. AuthInv => VerifiedReplyIsTrue
  BY DEF AuthInv, TokensWereMailed, VerifiedReplyIsTrue
<1> QED
  BY <1>1, AuthInvariant, PTL

-----------------------------------------------------------------------------
(* Steps *)

\* No step gives a consumed token back its key.
LEMMA StepConsumed ==
    AuthInv /\ [Next]_vars =>
        \A r \in Reg : token[r] = "deleted" =>
            token'[r] = "deleted" \/ r \in late.setAgain \cap isVerified
<1> SUFFICES ASSUME AuthInv, [Next]_vars,
                    NEW q \in Reg, token[q] = "deleted", q \notin late.setAgain
             PROVE  token'[q] = "deleted"
  BY DEF AuthInv, CommandsInOrder
<1>1. q \in mailed /\ q \in jobs /\ q \notin late.setToken
      /\ regPc[q] # "createToken" /\ token \in [Reg -> KeyState]
  BY DEF AuthInv, TypeOK, CommandsInOrder, MailHasJob, PastQueue
<1>2. ASSUME NEW r \in Reg, CreateToken(r) PROVE token'[q] = "deleted"
  BY <1>1, <1>2 DEF CreateToken, AfterCreateToken, Store
<1>3. ASSUME NEW r \in Reg, LateSetToken(r) \/ RepeatSetToken(r) PROVE token'[q] = "deleted"
  BY <1>1, <1>3 DEF LateSetToken, RepeatSetToken, Store
<1>4. ASSUME NEW r \in Reg, ExpireToken(r) PROVE token'[q] = "deleted"
  BY <1>1, <1>4 DEF ExpireToken, Present
<1>5. ASSUME NEW v \in Ver, DeleteToken(v) \/ LateDelToken(v)
      PROVE  token'[q] = "deleted"
  BY <1>1, <1>5 DEF DeleteToken, LateDelToken, Consume, Present
<1>6. CASE UNCHANGED token
  BY <1>6
<1> QED
  BY <1>2, <1>3, <1>4, <1>5, <1>6
  DEF Next, vars, stores, Register, Verify, RegisterArrives, CheckRateLimit,
      CreateUser, QueueEmail, SetRateLimit, LateAddJob, LateSetRateLimit,
      MailArrives, VerifyArrives, GetToken, FindUser, SaveUser, ExpireRateLimit

\* A token removed by verify() never works again, whatever is still in flight.
THEOREM ConsumedForever == Spec => ConsumedStaysConsumed
  BY AuthInvariant, StepConsumed, PTL DEF Spec, ConsumedStaysConsumed

\* An unverified account whose key has expired stays as it is.
LEMMA StepStuck ==
    AuthInv /\ [Next]_vars => \A r \in Reg : Stuck(r) => Stuck(r)'
<1> SUFFICES ASSUME AuthInv, [Next]_vars, NEW q \in Reg, Stuck(q)
             PROVE  Stuck(q)'
  OBVIOUS
<1> USE DEF Stuck
<1>1. regPc[q] # "createToken" /\ token \in [Reg -> KeyState]
      /\ verPc \in [Ver -> {"idle"} \cup VerStep \cup VerReply]
      /\ verTok \in [Ver -> Reg \cup {None}]
      /\ late \in [setToken : SUBSET Reg, setAgain : SUBSET Reg,
                   addJob : SUBSET Reg, setLimit : SUBSET Reg, delToken : SUBSET Ver]
  BY DEF AuthInv, TypeOK, CommandsInOrder, PastQueue
<1>2. ASSUME NEW r \in Reg,
             CheckRateLimit(r) \/ QueueEmail(r) \/ SetRateLimit(r)
               \/ LateAddJob(r) \/ LateSetRateLimit(r) \/ MailArrives(r)
      PROVE  Stuck(q)'
  BY <1>1, <1>2 DEF CheckRateLimit, QueueEmail, SetRateLimit, LateAddJob,
                    LateSetRateLimit, MailArrives, Mark, stores
<1>3. ASSUME NEW r \in Reg, CreateToken(r) PROVE Stuck(q)'
  BY <1>1, <1>3 DEF CreateToken, AfterCreateToken, Store, MarkSet, Mark
<1>4. ASSUME NEW r \in Reg, LateSetToken(r) \/ RepeatSetToken(r) PROVE Stuck(q)'
  BY <1>1, <1>4 DEF LateSetToken, RepeatSetToken, Store
<1>5. ASSUME NEW r \in Reg, ExpireToken(r) PROVE Stuck(q)'
  BY <1>1, <1>5 DEF ExpireToken, Present
<1>6. ASSUME NEW r \in Reg, CreateUser(r) PROVE Stuck(q)'
  BY <1>1, <1>6 DEF CreateUser, Insert
<1>7. ASSUME NEW v \in Ver, NEW t \in mailed \cup {None}, VerifyArrives(v, t)
      PROVE  Stuck(q)'
  BY <1>1, <1>7 DEF VerifyArrives, VerGoto, stores
<1>8. ASSUME NEW v \in Ver, GetToken(v) PROVE Stuck(q)'
  <2>1. CASE verTok[v] # q
    BY <1>1, <1>8, <2>1 DEF GetToken, VerGoto, stores
  <2>2. CASE verTok[v] = q
    <3>1. ~(verTok[v] # None /\ Present(token[verTok[v]]))
      BY <2>2 DEF Present
    <3>2. PICK found \in Read(FALSE) :
              VerGoto(v, IF found THEN "findUser" ELSE "404")
      BY <1>8, <3>1 DEF GetToken
    <3>3. found = FALSE
      BY <3>2, NoFalseHit, ReadType
    <3>4. verPc' = [verPc EXCEPT ![v] = "404"]
      BY <3>2, <3>3 DEF VerGoto
    <3> QED
      BY <1>1, <1>8, <3>4 DEF GetToken, stores
  <2> QED
    BY <2>1, <2>2
<1>9. ASSUME NEW v \in Ver, FindUser(v) \/ SaveUser(v) PROVE Stuck(q)'
  <2>1. verPc[v] \in {"findUser", "saveUser"} /\ verTok[v] # q
    BY <1>9 DEF FindUser, SaveUser
  <2>2. /\ \E step : verPc' = [verPc EXCEPT ![v] = step]
        /\ UNCHANGED <<token, late, verTok>>
        /\ q \in isVerified' => q \in isVerified
    BY <1>9, <2>1 DEF FindUser, SaveUser, VerGoto, stores
  <2> QED
    BY <1>1, <2>1, <2>2
<1>10. ASSUME NEW v \in Ver, DeleteToken(v) \/ LateDelToken(v) PROVE Stuck(q)'
  BY <1>1, <1>10 DEF DeleteToken, LateDelToken, VerGoto, Consume, Present, Mark
<1>11. ASSUME NEW r \in Reg, NEW a \in Address, RegisterArrives(r, a)
       PROVE  Stuck(q)'
  BY <1>11 DEF RegisterArrives, stores
<1>12. ASSUME NEW m \in Mailbox, ExpireRateLimit(m) PROVE Stuck(q)'
  BY <1>12 DEF ExpireRateLimit
<1>13. CASE UNCHANGED vars
  BY <1>13 DEF vars
<1> QED
  BY <1>2, <1>3, <1>4, <1>5, <1>6, <1>7, <1>8, <1>9, <1>10, <1>11, <1>12, <1>13
  DEF Next, Register, Verify

\* There is no way back from an expired token: the account can be neither
\* verified nor given another token.
THEOREM ExpiredStuck == Spec => ExpiredMeansStuck
  BY AuthInvariant, StepStuck, PTL DEF Spec, ExpiredMeansStuck

-----------------------------------------------------------------------------
(* While Redis stays up *)

\* No command is in flight, every request that went past createVerificationToken
\* has had its key, and a 404 was about no key.
RedisUpInv ==
    /\ \A cmd \in DOMAIN late : late[cmd] = {}
    /\ \A r \in Reg : regPc[r] \in {"queueEmail"} \cup PastQueue => token[r] # "never"
    /\ NotFoundIsTruthful

LEMMA RedisAnswers ==
    ASSUME "redis" \notin Faults
    PROVE  /\ Outcome = {"ok"}
           /\ \A present \in BOOLEAN : Read(present) = {present}
  BY DEF Outcome, Read

LEMMA InitRedisUp == Init => RedisUpInv
  BY AuthAssumption DEF Init, RedisUpInv, NotFoundIsTruthful, PastQueue

LEMMA StepRedisUp ==
    ASSUME "redis" \notin Faults, AuthInv, RedisUpInv, [Next]_vars
    PROVE  RedisUpInv'
<1> USE DEF RedisUpInv, NotFoundIsTruthful, PastQueue
<1>1. /\ regPc \in [Reg -> {"idle"} \cup RegStep \cup RegReply]
      /\ token \in [Reg -> KeyState]
      /\ verPc \in [Ver -> {"idle"} \cup VerStep \cup VerReply]
      /\ verTok \in [Ver -> Reg \cup {None}]
      /\ DOMAIN late = {"setToken", "setAgain", "addJob", "setLimit", "delToken"}
      /\ None \notin Reg
  BY AuthAssumption DEF AuthInv, TypeOK
\* Only createVerificationToken stores a key, and it stores each once.
<1>2. /\ \A r \in Reg : token[r] # "never" => regPc[r] \in {"queueEmail"} \cup PastQueue
      /\ \A v \in Ver : verTok[v] # None => token[verTok[v]] # "never"
  BY <1>1 DEF AuthInv, CommandsInOrder, MailHasJob, TokensWereMailed
<1>3. /\ Outcome = {"ok"}
      /\ \A present \in BOOLEAN : Read(present) = {present}
      /\ Applied("ok") /\ ~InFlight("ok")
  BY RedisAnswers DEF Applied, InFlight
<1>4. ASSUME NEW r \in Reg, CheckRateLimit(r) \/ CreateUser(r) PROVE RedisUpInv'
  <2>1. regPc[r] \in {"checkLimit", "createUser"}
        /\ UNCHANGED <<token, late, verPc, verTok>>
    BY <1>4 DEF CheckRateLimit, CreateUser, stores
  <2>2. \E step \in {"429", "createUser", "409", "createToken", "500"} :
            regPc' = [regPc EXCEPT ![r] = step]
    BY <1>4 DEF CheckRateLimit, CreateUser, AfterCreate, Goto
  <2> QED
    BY <1>1, <2>1, <2>2
<1>5. ASSUME NEW r \in Reg, CreateToken(r) PROVE RedisUpInv'
  <2>1. /\ token' = [token EXCEPT ![r] = "live"] /\ UNCHANGED <<late, verPc, verTok>>
        /\ regPc[r] = "createToken" /\ regPc' = [regPc EXCEPT ![r] = "queueEmail"]
    BY <1>3, <1>5 DEF CreateToken, AfterCreateToken, Goto, Store, MarkSet, Mark
  <2> QED
    BY <1>1, <1>2, <2>1
<1>6. ASSUME NEW r \in Reg, QueueEmail(r) \/ SetRateLimit(r) PROVE RedisUpInv'
  <2>1. /\ regPc[r] \in {"queueEmail", "setLimit"}
        /\ UNCHANGED <<token, late, verPc, verTok>>
    BY <1>3, <1>6 DEF QueueEmail, SetRateLimit, Mark
  <2>2. \E step \in PastQueue : regPc' = [regPc EXCEPT ![r] = step]
    BY <1>6 DEF QueueEmail, SetRateLimit, Goto, AfterAddJob
  <2> QED
    BY <1>1, <2>1, <2>2
<1>7. ASSUME NEW v \in Ver, GetToken(v) PROVE RedisUpInv'
  <2> DEFINE here == verTok[v] # None /\ Present(token[verTok[v]])
  <2>1. PICK found \in Read(here) : VerGoto(v, IF found THEN "findUser" ELSE "404")
    BY <1>7 DEF GetToken
  <2>2. here \in BOOLEAN
    OBVIOUS
  <2>3. ~here => verTok[v] = None \/ token[verTok[v]] \in {"expired", "deleted"}
    BY <1>1, <1>2 DEF Present, KeyState
  <2> HIDE DEF here
  <2>4. found = here
    BY <1>3, <2>1, <2>2
  <2>5. \/ verPc' = [verPc EXCEPT ![v] = "findUser"]
        \/ ~here /\ verPc' = [verPc EXCEPT ![v] = "404"]
    BY <2>1, <2>4 DEF VerGoto
  <2>6. UNCHANGED <<token, late, regPc, verTok>>
    BY <1>7 DEF GetToken, stores
  <2> QED
    BY <1>1, <2>3, <2>5, <2>6
<1>8. ASSUME NEW v \in Ver, FindUser(v) \/ SaveUser(v) PROVE RedisUpInv'
  <2>1. /\ verPc[v] \in {"findUser", "saveUser"} /\ verTok[v] # None
        /\ UNCHANGED <<token, late, regPc, verTok>>
    BY <1>8 DEF FindUser, SaveUser, stores, AuthInv, TokensWereMailed
  <2>2. verTok[v] \in Reg /\ Exists(verTok[v])
    BY <1>1, <2>1 DEF AuthInv, TokensWereMailed, MailHasJob, TracesHaveUser,
                      Registered, Exists
  <2>3. \E step \in {"500", "delAlready", "saveUser", "delVerified"} :
            verPc' = [verPc EXCEPT ![v] = step]
    BY <1>8, <2>2 DEF FindUser, SaveUser, VerGoto, AfterFind, AfterSave
  <2> QED
    BY <1>1, <2>1, <2>3
<1>9. ASSUME NEW v \in Ver, DeleteToken(v) PROVE RedisUpInv'
  <2>1. /\ verPc[v] \in {"delVerified", "delAlready"}
        /\ UNCHANGED <<late, regPc, verTok>>
        /\ token' = [token EXCEPT ![verTok[v]] = IF Present(@) THEN "deleted" ELSE @]
    BY <1>3, <1>9 DEF DeleteToken, Consume, Mark
  <2>2. \E step \in {"VERIFIED", "ALREADY_VERIFIED"} : verPc' = [verPc EXCEPT ![v] = step]
    BY <1>9 DEF DeleteToken, VerGoto
  <2> QED
    BY <1>1, <2>1, <2>2 DEF Present
<1>10. ASSUME NEW v \in Ver, NEW t \in mailed \cup {None}, VerifyArrives(v, t)
       PROVE  RedisUpInv'
  BY <1>1, <1>10 DEF VerifyArrives, VerGoto, stores
<1>11. ASSUME NEW r \in Reg, NEW a \in Address, RegisterArrives(r, a) PROVE RedisUpInv'
  BY <1>1, <1>11 DEF RegisterArrives, Goto, stores
<1>12. ASSUME NEW r \in Reg, ExpireToken(r) PROVE RedisUpInv'
  BY <1>1, <1>12 DEF ExpireToken
<1>13. /\ \A r \in Reg : ~ (\/ LateSetToken(r) \/ RepeatSetToken(r)
                            \/ LateAddJob(r) \/ LateSetRateLimit(r))
       /\ \A v \in Ver : ~LateDelToken(v)
  BY <1>1 DEF LateSetToken, RepeatSetToken, LateAddJob, LateSetRateLimit, LateDelToken
<1>14. CASE UNCHANGED <<token, late, regPc, verPc, verTok>>
  BY <1>14
<1> QED
  BY <1>4, <1>5, <1>6, <1>7, <1>8, <1>9, <1>10, <1>11, <1>12, <1>13, <1>14
  DEF Next, vars, Register, Verify, MailArrives, ExpireRateLimit

LEMMA RedisUp ==
    ASSUME "redis" \notin Faults PROVE Spec => [](AuthInv /\ RedisUpInv)
<1>1. RedisUpInv /\ AuthInv /\ [Next]_vars => RedisUpInv'
  BY StepRedisUp
<1> QED
  BY <1>1, InitRedisUp, AuthInvariant, PTL DEF Spec

\* With Redis up, a 201 promises a link that works: its key is live until it
\* expires or has verified the account.
THEOREM SignUpVerifiable ==
    ASSUME "redis" \notin Faults PROVE Spec => []SignUpIsVerifiable
<1>1. AuthInv /\ RedisUpInv => SignUpIsVerifiable
  BY DEF AuthInv, TypeOK, KeyState, CommandsInOrder, RedisUpInv, PastQueue,
         SignUpIsVerifiable
<1> QED
  BY <1>1, RedisUp, PTL

\* With Redis up, verify() answers 404 to no link that still works.
THEOREM NotFoundTruthful ==
    ASSUME "redis" \notin Faults PROVE Spec => []NotFoundIsTruthful
<1>1. RedisUpInv => NotFoundIsTruthful
  BY DEF RedisUpInv
<1> QED
  BY <1>1, RedisUp, PTL

-----------------------------------------------------------------------------
(* Refinement *)

\* The steps that touch no account leave every stage as it is.
LEMMA StageUnchanged ==
    ASSUME UNCHANGED <<users, isVerified, mailed>>
    PROVE  [m \in Mailbox |-> StageOf(m)]' = [m \in Mailbox |-> StageOf(m)]
  BY DEF StageOf

\* Every step of the two flows is a step of AccountLifecycle or changes no stage.
LEMMA StepLifecycle ==
    AuthInv /\ [Next]_vars => [Account!Next]_([m \in Mailbox |-> StageOf(m)])
<1> SUFFICES ASSUME AuthInv, [Next]_vars
             PROVE  [Account!Next]_([m \in Mailbox |-> StageOf(m)])
  OBVIOUS
<1> DEFINE account == [m \in Mailbox |-> StageOf(m)]
<1>1. ASSUME NEW r \in Reg, CreateUser(r) PROVE Account!Next \/ account' = account
  <2>1. MailboxOf(r) \in Mailbox /\ r \notin isVerified /\ r \notin mailed
        /\ r # None /\ users \in [Mailbox -> Reg \cup {None}]
    BY <1>1, AuthAssumption
    DEF CreateUser, AuthInv, TypeOK, RequestsKnown, CommandsInOrder, MailHasJob,
        OnlyInvitedIsVerified, PastQueue, MailboxOf
  <2>2. CASE UNCHANGED <<users, isVerified>>
    BY <1>1, <2>2, StageUnchanged DEF CreateUser
  <2>3. CASE Free(MailboxOf(r)) /\ Insert(MailboxOf(r), r)
    <3>1. \A m \in Mailbox : m # MailboxOf(r) => StageOf(m)' = StageOf(m)
      BY <1>1, <2>1, <2>3 DEF StageOf, Insert, CreateUser
    <3>2. StageOf(MailboxOf(r)) = "absent"
      BY <2>3 DEF StageOf, Free
    <3>3. account' = [account EXCEPT ![MailboxOf(r)] = "unverified"]
      BY <1>1, <2>1, <2>3, <3>1 DEF StageOf, Insert, CreateUser
    <3>4. Account!SignUp(MailboxOf(r))
      BY <2>1, <3>2, <3>3 DEF Account!SignUp, Account!Advance
    <3> QED
      BY <2>1, <3>4 DEF Account!Next
  <2> QED
    BY <1>1, <2>2, <2>3 DEF CreateUser
<1>2. ASSUME NEW r \in Reg, MailArrives(r) PROVE Account!Next \/ account' = account
  <2> DEFINE b == MailboxOf(r)
  <2>1. /\ b \in Mailbox /\ users[b] = r /\ r # None
        /\ r \notin mailed /\ r \notin isVerified
        /\ \A m \in Mailbox : users[m] = r => m = b
    BY <1>2, AuthAssumption
    DEF MailArrives, AuthInv, TypeOK, RequestsKnown, TracesHaveUser, Registered,
        IndexSound, OnlyInvitedIsVerified, MailboxOf
  <2> HIDE DEF b
  <2>2. \A m \in Mailbox : m # b => StageOf(m)' = StageOf(m)
    BY <1>2, <2>1 DEF StageOf, MailArrives
  <2>3. account' = [account EXCEPT ![b] = "invited"]
    BY <1>2, <2>1, <2>2 DEF StageOf, MailArrives
  <2>4. Account!Invite(b)
    BY <2>1, <2>3 DEF Account!Invite, Account!Advance, StageOf
  <2> QED
    BY <2>1, <2>4 DEF Account!Next
<1>3. ASSUME NEW v \in Ver, SaveUser(v) PROVE Account!Next \/ account' = account
  <2> DEFINE r == verTok[v]
             b == MailboxOf(r)
  <2>1. r \in Reg /\ r \in mailed /\ r \in jobs
    BY <1>3 DEF SaveUser, AuthInv, TypeOK, TokensWereMailed, MailHasJob
  <2>2. /\ b \in Mailbox /\ users[b] = r /\ r # None
        /\ \A m \in Mailbox : users[m] = r => m = b
    BY <2>1, AuthAssumption
    DEF AuthInv, TypeOK, RequestsKnown, TracesHaveUser, Registered, IndexSound,
        MailboxOf
  <2>3. /\ isVerified' = isVerified \/ isVerified' = isVerified \cup {r}
        /\ UNCHANGED <<users, mailed>>
    BY <1>3 DEF SaveUser
  <2> HIDE DEF b, r
  <2>4. CASE isVerified' = isVerified
    BY <2>3, <2>4, StageUnchanged
  <2>5. CASE isVerified' = isVerified \cup {r} /\ r \notin isVerified
    <3>1. \A m \in Mailbox : m # b => StageOf(m)' = StageOf(m)
      BY <2>2, <2>3, <2>5 DEF StageOf
    <3>2. account' = [account EXCEPT ![b] = "verified"]
      BY <2>2, <2>3, <2>5, <3>1 DEF StageOf
    <3>3. Account!Verify(b)
      BY <2>1, <2>2, <2>5, <3>2 DEF Account!Verify, Account!Advance, StageOf
    <3> QED
      BY <2>2, <3>3 DEF Account!Next
  <2> QED
    BY <2>3, <2>4, <2>5
<1>4. CASE UNCHANGED <<users, isVerified, mailed>>
  BY <1>4, StageUnchanged
<1> QED
  BY <1>1, <1>2, <1>3, <1>4
  DEF Next, vars, stores, Register, Verify, RegisterArrives, CheckRateLimit,
      CreateToken, AfterCreateToken, QueueEmail, SetRateLimit, LateSetToken, RepeatSetToken, LateAddJob,
      LateSetRateLimit, ExpireToken, VerifyArrives, GetToken, FindUser,
      DeleteToken, LateDelToken, ExpireRateLimit

\* register() and verify() implement the life cycle of an account: no account is
\* verified before its owner was written to, and none is ever undone.
THEOREM LifecycleImplemented == Spec => ImplementsLifecycle
<1>1. Init => Account!Init
  BY DEF Init, Account!Init, StageOf
<1> QED
  BY <1>1, AuthInvariant, StepLifecycle, PTL
  DEF Spec, ImplementsLifecycle, Account!Spec

\* The queue as sign-up sees it: nothing of it is ever reported complete.
Queue == INSTANCE MailQueue WITH Job <- Reg, accepted <- jobs, completed <- {}

\* register() and the mails use the queue as MailQueue allows, whatever is lost
\* or late: with MailQueueImplemented of EmailQueue, the two models fit together.
THEOREM QueueAsPromised == Spec => Queue!Spec
<1>1. Init => Queue!Init
  BY DEF Init, Queue!Init
<1>2. [Next]_vars => [Queue!Next]_Queue!vars
  <2> SUFFICES ASSUME [Next]_vars PROVE [Queue!Next]_Queue!vars
    OBVIOUS
  <2> USE DEF Queue!Next, Queue!vars
  <2>1. ASSUME NEW r \in Reg, QueueEmail(r) \/ LateAddJob(r)
        PROVE  Queue!Accept(r) \/ UNCHANGED Queue!vars
    BY <2>1 DEF QueueEmail, LateAddJob, Queue!Accept
  <2>2. ASSUME NEW r \in Reg, MailArrives(r) PROVE Queue!Deliver(r)
    BY <2>2 DEF MailArrives, Queue!Deliver
  <2>3. CASE UNCHANGED <<jobs, mailed>>
    BY <2>3
  <2> QED
    BY <2>1, <2>2, <2>3
    DEF Next, vars, stores, Register, Verify, RegisterArrives, CheckRateLimit,
        CreateUser, CreateToken, SetRateLimit, LateSetToken, RepeatSetToken,
        LateSetRateLimit, ExpireToken, VerifyArrives, GetToken, FindUser,
        SaveUser, DeleteToken, LateDelToken, ExpireRateLimit
<1> QED
  BY <1>1, <1>2, PTL DEF Spec, Queue!Spec

\* And sign-up is ready for every mail that the queue may deliver, at any time and
\* as often as it likes.
THEOREM EveryMailIsExpected ==
    ASSUME NEW r \in Reg, Queue!Deliver(r),
           UNCHANGED <<users, isVerified, token, limit, late, regPc, regAddr, verPc, verTok>>
    PROVE  [Next]_vars
<1>1. CASE r \in mailed
  BY <1>1 DEF Queue!Deliver, vars
<1>2. CASE r \notin mailed
  <2>1. MailArrives(r)
    BY <1>2 DEF Queue!Deliver, MailArrives
  <2> QED
    BY <2>1 DEF Next
<1> QED
  BY <1>1, <1>2
=============================================================================
