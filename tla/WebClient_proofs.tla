-------------------------- MODULE WebClient_proofs --------------------------
(***************************************************************************)
(* The safety properties of WebClient for any number of calls.             *)
(***************************************************************************)
EXTENDS WebClient, TLAPS

LEMMA InitWeb == Init => WebInv
<1> SUFFICES ASSUME Init PROVE WebInv
  OBVIOUS
<1> USE DEF Init
<1>1. call \in [Call -> CallState] /\ \A c \in Call : call[c] = NoCall
  BY DEF NoCall, CallState, Tokens
<1>2. /\ page \in {"login", "register", "dashboard"} /\ access \in Tokens /\ refresh \in BOOLEAN
      /\ form \in {"idle", "pending", "fields", "silent", "general"}
      /\ session \in {"live", "over"} /\ leaving \in BOOLEAN
  BY DEF Tokens
<1>3. typed \subseteq {"name", "email", "password"} /\ awaited \in Call \cup {none}
  OBVIOUS
<1>4. FormWaits /\ RegistrationKept
  BY DEF FormWaits, RegistrationKept
<1>5. SubmittedOnce /\ MarkedByRefresh
  BY <1>1 DEF SubmittedOnce, MarkedByRefresh, NoCall
<1> QED
  BY <1>1, <1>2, <1>3, <1>4, <1>5 DEF WebInv, TypeOK

-----------------------------------------------------------------------------
(* How a call ends *)

\* What the action of a form may leave when it returns.
Results == {"fields", "silent", "general"}

\* A call that fails frees the form if the form waited for it, and no other.
LEMMA EndKeeps ==
  ASSUME WebInv, NEW c \in Call, ~Idle(c), Ends(c),
         NEW results \in SUBSET Results, Shows(c, results), page' = page
  PROVE  /\ call' \in [Call -> CallState]
         /\ form' \in {"idle", "pending", "fields", "silent", "general"}
         /\ typed' \subseteq {"name", "email", "password"}
         /\ awaited' \in Call \cup {none}
         /\ FormWaits' /\ SubmittedOnce' /\ RegistrationKept' /\ MarkedByRefresh'
<1>1. call' = [call EXCEPT ![c] = NoCall]
  BY DEF Ends
<1>2. call' \in [Call -> CallState]
  BY <1>1 DEF NoCall, WebInv, TypeOK, CallState, Tokens
<1>3. MarkedByRefresh'
  BY <1>1 DEF WebInv, TypeOK, MarkedByRefresh, NoCall
<1>4. CASE c = awaited
  <2>1. /\ form' \in results /\ awaited' = none
        /\ typed' = IF page = "register" THEN {"name", "email"} ELSE {}
    BY <1>4 DEF Shows, Returned
  <2>2. form' \in Results
    BY <2>1
  <2>3. FormWaits' /\ RegistrationKept'
    BY <2>1, <2>2 DEF FormWaits, RegistrationKept, Results
  <2>4. SubmittedOnce'
    BY <1>1, <1>4, <2>1 DEF WebInv, TypeOK, SubmittedOnce, NoCall
  <2> QED
    BY <1>2, <1>3, <2>1, <2>2, <2>3, <2>4 DEF Results
<1>5. CASE c # awaited
  <2>1. UNCHANGED <<form, typed, awaited>>
    BY <1>5 DEF Shows
  <2>2. FormWaits'
    BY <1>1, <1>5, <2>1, WebAssumption DEF WebInv, TypeOK, FormWaits, Idle
  <2>3. SubmittedOnce'
    BY <1>1, <2>1 DEF WebInv, TypeOK, SubmittedOnce, NoCall
  <2>4. RegistrationKept'
    BY <2>1 DEF WebInv, RegistrationKept
  <2> QED
    BY <1>2, <1>3, <2>1, <2>2, <2>3, <2>4 DEF WebInv, TypeOK
<1> QED
  BY <1>4, <1>5

\* The rejection of a promise changes the tokens only for logout.
LEMMA RejectKeeps ==
  ASSUME WebInv, NEW c \in Call, ~Idle(c), Reject(c, FormErrors)
  PROVE  WebInv'
<1>1. FormErrors \in SUBSET Results
  BY DEF FormErrors, Results
<1>2. access' \in Tokens /\ refresh' \in BOOLEAN
  BY DEF Reject, RemoveTokens, tokens, WebInv, TypeOK, Tokens
<1>3. Ends(c) /\ Shows(c, FormErrors) /\ UNCHANGED <<page, session, leaving>>
  BY DEF Reject
<1> QED
  BY <1>1, <1>2, <1>3, EndKeeps DEF WebInv, TypeOK

\* A change of the page marks the call the form waited for, and forgets it; the form
\* of a page that stays waits for a call that has not ended.
LEMMA NavigatesKeeps ==
  ASSUME WebInv, NEW p \in {"login", "register", "dashboard"}, NEW ended \in SUBSET Call,
         Navigates(p, ended), p = page => awaited \notin ended
  PROVE  /\ page' \in {"login", "register", "dashboard"}
         /\ call' \in [Call -> CallState]
         /\ form' \in {"idle", "pending", "fields", "silent", "general"}
         /\ typed' \subseteq {"name", "email", "password"}
         /\ awaited' \in Call \cup {none}
         /\ FormWaits' /\ SubmittedOnce' /\ RegistrationKept' /\ MarkedByRefresh'
<1>1. /\ page' = p
      /\ call' = [c \in Call |-> IF c \in ended THEN NoCall
                                 ELSE [call[c] EXCEPT !.left = @ \/ (c = awaited /\ p # page)]]
      /\ IF p = page THEN UNCHANGED <<form, typed, awaited>>
                     ELSE form' = "idle" /\ typed' = {} /\ awaited' = none
  BY DEF Navigates
<1>2. call' \in [Call -> CallState]
  <2>1. ASSUME NEW c \in Call
        PROVE  [call[c] EXCEPT !.left = @ \/ (c = awaited /\ p # page)] \in CallState
    <3>1. call[c] \in CallState /\ (call[c].left \/ (c = awaited /\ p # page)) \in BOOLEAN
      BY DEF WebInv, TypeOK
    <3> QED
      BY <3>1 DEF CallState
  <2>2. NoCall \in CallState
    BY DEF NoCall, CallState, Tokens
  <2> QED
    BY <1>1, <2>1, <2>2
<1>3. \A c \in ended : call'[c] = NoCall
  BY <1>1
<1>4. \A c \in Call \ ended :
         /\ call'[c].at = call[c].at /\ call'[c].kind = call[c].kind
         /\ call'[c].retry = call[c].retry /\ call'[c].again = call[c].again
         /\ call'[c].left = (call[c].left \/ (c = awaited /\ p # page))
  BY <1>1 DEF WebInv, TypeOK, CallState
<1>5. MarkedByRefresh'
  BY <1>3, <1>4 DEF WebInv, MarkedByRefresh, NoCall
<1>6. ASSUME NEW c \in Call, call'[c].kind \in {"login", "register"}
      PROVE  (c = awaited \/ call[c].left = TRUE)
             /\ call'[c].left = (call[c].left \/ (c = awaited /\ p # page))
  <2>1. c \notin ended
    BY <1>3, <1>6 DEF NoCall
  <2>2. call'[c].kind = call[c].kind
    BY <1>4, <2>1
  <2>3. c = awaited \/ call[c].left = TRUE
    BY <1>6, <2>2 DEF WebInv, TypeOK, CallState, SubmittedOnce
  <2> QED
    BY <1>4, <2>1, <2>3
<1>7. CASE p = page
  <2>1. UNCHANGED <<page, form, typed, awaited>>
    BY <1>1, <1>7
  <2>2. FormWaits'
    <3>1. CASE awaited = none
      BY <2>1, <3>1 DEF WebInv, FormWaits
    <3>2. CASE awaited # none
      <4>1. awaited \in Call \ ended
        BY <1>7, <3>2 DEF WebInv, TypeOK
      <4>2. call'[awaited].at = call[awaited].at /\ call'[awaited].kind = call[awaited].kind
        BY <1>4, <4>1
      <4> QED
        BY <2>1, <3>2, <4>2 DEF WebInv, FormWaits, Idle
    <3> QED
      BY <3>1, <3>2
  <2>3. SubmittedOnce'
    BY <1>6, <1>7, <2>1 DEF SubmittedOnce
  <2>4. RegistrationKept'
    BY <2>1 DEF WebInv, RegistrationKept
  <2> QED
    BY <1>1, <1>2, <1>5, <2>1, <2>2, <2>3, <2>4 DEF WebInv, TypeOK
<1>8. CASE p # page
  <2>1. form' = "idle" /\ typed' = {} /\ awaited' = none
    BY <1>1, <1>8
  <2>2. FormWaits' /\ RegistrationKept'
    BY <2>1 DEF FormWaits, RegistrationKept
  <2>3. SubmittedOnce'
    BY <1>6, <1>8 DEF SubmittedOnce
  <2> QED
    BY <1>1, <1>2, <1>5, <2>1, <2>2, <2>3
<1> QED
  BY <1>7, <1>8

\* The call a form waits for leads to another page.
LEMMA ResolveKeeps ==
  ASSUME WebInv, NEW c \in Call, ~Idle(c), Resolve(c)
  PROVE  WebInv'
<1>1. Navigates(Destination(c), {c}) /\ UNCHANGED leaving
  BY DEF Resolve
<1>2. Destination(c) \in {"login", "register", "dashboard"}
  BY DEF Destination, WebInv, TypeOK
<1>3. Destination(c) = page => awaited # c
  <2> SUFFICES ASSUME awaited = c PROVE Destination(c) # page
    OBVIOUS
  <2>1. call[c].kind = page /\ call[c].kind \in {"none", "login", "register"} \cup NeedsToken
    BY WebAssumption DEF WebInv, TypeOK, FormWaits, CallState
  <2>2. page \in {"login", "register"}
    BY <2>1 DEF WebInv, TypeOK, NeedsToken
  <2> QED
    BY <2>1, <2>2 DEF Destination
<1>4. access' \in Tokens /\ refresh' \in BOOLEAN /\ session' \in {"live", "over"}
  BY DEF Resolve, LogIn, RemoveTokens, tokens, WebInv, TypeOK, Tokens
<1> QED
  BY <1>1, <1>2, <1>3, <1>4, NavigatesKeeps DEF WebInv, TypeOK

\* The answers to a call, and to its refresh.
LEMMA AnswerKeeps ==
  ASSUME WebInv, NEW c \in Call, Answer(c)
  PROVE  WebInv'
<1>1. ~Idle(c)
  BY DEF Answer, Succeeds, Unauthorized, Fails, Idle
<1>2. CASE Succeeds(c)
  BY <1>1, <1>2, ResolveKeeps DEF Succeeds
<1>3. CASE Unauthorized(c) /\ ~call[c].retry /\ refresh
  <2>1. /\ call' = [call EXCEPT ![c].at = "refreshing", ![c].retry = TRUE]
        /\ UNCHANGED <<page, form, typed, tokens, session, leaving, awaited>>
    BY <1>3 DEF Unauthorized, Marked
  <2>2. call' \in [Call -> CallState]
    <3>1. [call[c] EXCEPT !.at = "refreshing", !.retry = TRUE] \in CallState
      BY DEF WebInv, TypeOK, CallState
    <3>2. call' = [call EXCEPT ![c] = [call[c] EXCEPT !.at = "refreshing", !.retry = TRUE]]
      BY <2>1 DEF WebInv, TypeOK
    <3> QED
      BY <3>1, <3>2 DEF WebInv, TypeOK
  <2>3. FormWaits' /\ SubmittedOnce' /\ MarkedByRefresh' /\ RegistrationKept'
    BY <2>1 DEF WebInv, TypeOK, CallState, FormWaits, SubmittedOnce, MarkedByRefresh, RegistrationKept, Idle
  <2> QED
    BY <2>1, <2>2, <2>3 DEF WebInv, TypeOK, tokens
<1>4. CASE Unauthorized(c) /\ ~(~call[c].retry /\ refresh)
  BY <1>1, <1>4, RejectKeeps DEF Unauthorized
<1>5. CASE Fails(c)
  BY <1>1, <1>5, RejectKeeps DEF Fails, AfterFailure
<1> QED
  BY <1>2, <1>3, <1>4, <1>5 DEF Answer

LEMMA AnswerRefreshKeeps ==
  ASSUME WebInv, NEW c \in Call, AnswerRefresh(c)
  PROVE  WebInv'
<1>1. CASE Refreshed(c)
  <2>1. /\ call' = [call EXCEPT ![c].at = "sent", ![c].auth = "fresh", ![c].again = TRUE]
        /\ access' = "fresh" /\ call[c].at = "refreshing"
        /\ UNCHANGED <<page, form, typed, refresh, session, leaving, awaited>>
    BY <1>1 DEF Refreshed
  <2>2. call' \in [Call -> CallState] /\ access' \in Tokens
    <3>1. [call[c] EXCEPT !.at = "sent", !.auth = "fresh", !.again = TRUE] \in CallState
      BY DEF WebInv, TypeOK, CallState, Tokens
    <3>2. call' = [call EXCEPT ![c] = [call[c] EXCEPT !.at = "sent", !.auth = "fresh", !.again = TRUE]]
      BY <2>1 DEF WebInv, TypeOK
    <3> QED
      BY <2>1, <3>1, <3>2 DEF WebInv, TypeOK, Tokens
  <2>3. FormWaits' /\ SubmittedOnce' /\ MarkedByRefresh' /\ RegistrationKept'
    BY <2>1 DEF WebInv, TypeOK, CallState, FormWaits, SubmittedOnce, MarkedByRefresh, RegistrationKept, Idle
  <2> QED
    BY <2>1, <2>2, <2>3 DEF WebInv, TypeOK
<1>2. CASE RefreshFails(c)
  <2>1. ~Idle(c) /\ Ends(c) /\ Shows(c, {"general"}) /\ {"general"} \in SUBSET Results
    BY <1>2 DEF RefreshFails, Idle, Results
  <2>2. /\ access' \in Tokens /\ refresh' \in BOOLEAN /\ leaving' \in BOOLEAN
        /\ UNCHANGED <<page, session>>
    BY <1>2 DEF RefreshFails, RemoveTokens, Tokens
  <2> QED
    BY <2>1, <2>2, EndKeeps DEF WebInv, TypeOK
<1> QED
  BY <1>1, <1>2 DEF AnswerRefresh

-----------------------------------------------------------------------------
(* What the user and the server do *)

\* A call that is sent has the form it was sent by waiting for it, if it had one.
LEMMA SendTypes ==
  ASSUME WebInv, NEW c \in Call, NEW kind \in {"login", "register"} \cup NeedsToken, Send(c, kind)
  PROVE  /\ call' \in [Call -> CallState]
         /\ \A d \in Call \ {c} : call'[d] = call[d]
         /\ call'[c].at = "sent" /\ call'[c].kind = kind /\ call'[c].retry = FALSE
         /\ call'[c].again = FALSE
<1>1. [at |-> "sent", kind |-> kind, retry |-> FALSE, auth |-> access, again |-> FALSE, left |-> FALSE]
        \in CallState
  BY DEF WebInv, TypeOK, CallState, Tokens
<1> QED
  BY <1>1 DEF Send, WebInv, TypeOK

LEMMA SubmitKeeps ==
  ASSUME WebInv, Submit
  PROVE  WebInv'
<1>1. CASE Returned({"fields"}) /\ UNCHANGED <<call, awaited>>
  <2>1. /\ form' = "fields" /\ typed' \subseteq {"name", "email", "password"}
        /\ page = "register" => {"name", "email"} \subseteq typed'
    BY <1>1 DEF Returned
  <2>2. form # "pending" /\ UNCHANGED <<page, tokens, session, leaving, call, awaited>>
    BY <1>1 DEF Submit, Enabled
  <2> QED
    BY <2>1, <2>2 DEF WebInv, TypeOK, FormWaits, SubmittedOnce, RegistrationKept, MarkedByRefresh,
                      Idle, tokens
<1>2. ASSUME NEW c \in Call, Idle(c), Send(c, page), form' = "pending", awaited' = c, UNCHANGED typed
      PROVE  WebInv'
  <2>1. /\ page \in {"login", "register"} /\ form # "pending"
        /\ UNCHANGED <<page, tokens, session, leaving>>
    BY DEF Submit, Enabled
  <2>2. /\ call' \in [Call -> CallState]
        /\ \A d \in Call \ {c} : call'[d] = call[d]
        /\ call'[c].at = "sent" /\ call'[c].retry = FALSE /\ call'[c].again = FALSE
        /\ call'[c].kind = page
    BY <1>2, <2>1, SendTypes
  <2>3. awaited = none
    BY <2>1 DEF WebInv, FormWaits
  <2>4. FormWaits' /\ RegistrationKept'
    BY <1>2, <2>1, <2>2, WebAssumption DEF FormWaits, RegistrationKept, Idle
  <2>5. SubmittedOnce' /\ MarkedByRefresh'
    BY <1>2, <2>2, <2>3, WebAssumption DEF WebInv, SubmittedOnce, MarkedByRefresh
  <2> QED
    BY <1>2, <2>1, <2>2, <2>4, <2>5 DEF WebInv, TypeOK, tokens
<1> QED
  BY <1>1, <1>2 DEF Submit

LEMMA CallsKeep ==
  ASSUME WebInv, NEW c \in Call, GetProfile(c) \/ Logout(c)
  PROVE  WebInv'
<1>1. PICK kind \in NeedsToken : Send(c, kind)
  BY DEF GetProfile, Logout, NeedsToken
<1>2. Idle(c) /\ UNCHANGED <<page, form, typed, tokens, session, leaving, awaited>>
  BY DEF GetProfile, Logout
<1>3. /\ call' \in [Call -> CallState]
      /\ \A d \in Call \ {c} : call'[d] = call[d]
      /\ call'[c].at = "sent" /\ call'[c].kind = kind /\ call'[c].retry = FALSE
      /\ call'[c].again = FALSE
  BY <1>1, SendTypes
<1>4. FormWaits' /\ RegistrationKept'
  BY <1>2, <1>3 DEF WebInv, TypeOK, FormWaits, RegistrationKept, Idle
<1>5. SubmittedOnce' /\ MarkedByRefresh'
  BY <1>2, <1>3 DEF WebInv, SubmittedOnce, MarkedByRefresh, NeedsToken
<1> QED
  BY <1>2, <1>3, <1>4, <1>5 DEF WebInv, TypeOK, tokens

LEMMA VisitKeeps ==
  ASSUME WebInv, Visit
  PROVE  WebInv'
<1>1. PICK p \in {"login", "register", "dashboard"} : p # page /\ Navigates(p, {})
  BY DEF Visit
<1>2. UNCHANGED <<tokens, session, leaving>>
  BY DEF Visit
<1> QED
  BY <1>1, <1>2, NavigatesKeeps DEF WebInv, TypeOK, tokens

LEMMA LoadKeeps ==
  ASSUME WebInv, NEW p \in {"login", "register"}, Load(p)
  PROVE  WebInv'
<1>1. /\ page' = p /\ form' = "idle" /\ typed' = {} /\ awaited' = none /\ leaving' = FALSE
      /\ call' = [c \in Call |-> NoCall] /\ UNCHANGED <<tokens, session>>
  BY DEF Load
<1>2. call' \in [Call -> CallState] /\ \A c \in Call : call'[c] = NoCall
  BY <1>1 DEF NoCall, CallState, Tokens
<1>3. FormWaits' /\ RegistrationKept'
  BY <1>1 DEF FormWaits, RegistrationKept
<1>4. SubmittedOnce' /\ MarkedByRefresh'
  BY <1>2 DEF SubmittedOnce, MarkedByRefresh, NoCall
<1> QED
  BY <1>1, <1>2, <1>3, <1>4 DEF WebInv, TypeOK, tokens

LEMMA AccessExpiresKeeps ==
  ASSUME WebInv, AccessExpires
  PROVE  WebInv'
<1>1. /\ access' = Stale(access) /\ call' = [c \in Call |-> [call[c] EXCEPT !.auth = Stale(@)]]
      /\ UNCHANGED <<page, form, typed, refresh, session, leaving, awaited>>
  BY DEF AccessExpires
<1>2. access' \in Tokens
  BY <1>1 DEF Stale, WebInv, TypeOK, Tokens
<1>3. call' \in [Call -> CallState]
  <2>1. ASSUME NEW c \in Call PROVE [call[c] EXCEPT !.auth = Stale(@)] \in CallState
    <3>1. call[c] \in CallState /\ Stale(call[c].auth) \in Tokens
      BY DEF WebInv, TypeOK, CallState, Stale, Tokens
    <3> QED
      BY <3>1 DEF CallState
  <2> QED
    BY <1>1, <2>1
<1>4. \A c \in Call : /\ call'[c].at = call[c].at /\ call'[c].kind = call[c].kind
                      /\ call'[c].retry = call[c].retry /\ call'[c].again = call[c].again
                      /\ call'[c].left = call[c].left
  BY <1>1 DEF WebInv, TypeOK, CallState
<1>5. FormWaits'
  BY <1>1, <1>4 DEF WebInv, TypeOK, FormWaits, Idle
<1>6. RegistrationKept' /\ MarkedByRefresh' /\ SubmittedOnce'
  BY <1>1, <1>4 DEF WebInv, RegistrationKept, MarkedByRefresh, SubmittedOnce
<1> QED
  BY <1>1, <1>2, <1>3, <1>5, <1>6 DEF WebInv, TypeOK

\* The user types, presses the button of the Navbar, or the session ends.
LEMMA OthersKeep ==
  ASSUME WebInv, Type \/ NavbarLogout \/ SessionEnds
  PROVE  WebInv'
<1>1. call' = call /\ awaited' = awaited /\ form' = form /\ page' = page
  BY DEF Type, NavbarLogout, SessionEnds
<1>2. /\ typed' \subseteq {"name", "email", "password"} /\ (typed' = typed \/ typed' = Fields)
      /\ access' \in Tokens /\ refresh' \in BOOLEAN /\ leaving' \in BOOLEAN
      /\ session' \in {"live", "over"}
  BY DEF Type, NavbarLogout, SessionEnds, Fields, RemoveTokens, tokens, WebInv, TypeOK, Tokens
<1>3. FormWaits' /\ SubmittedOnce' /\ MarkedByRefresh'
  BY <1>1 DEF WebInv, FormWaits, SubmittedOnce, MarkedByRefresh, Idle
<1>4. RegistrationKept'
  BY <1>1, <1>2 DEF WebInv, RegistrationKept, Fields
<1> QED
  BY <1>1, <1>2, <1>3, <1>4 DEF WebInv, TypeOK

-----------------------------------------------------------------------------
(* The properties *)

\* WebInv: whatever the user does while calls are under way, a form waits exactly for
\* its own call, no second click submits it twice, a failed registration keeps the name
\* and the address, and the interceptor's mark says that a refresh was tried
\* (apps/web/src/shared/services/api/client.ts and the pages).
THEOREM WebInvariant == Spec => []WebInv
<1>1. WebInv /\ [Next]_vars => WebInv'
  <2> SUFFICES ASSUME WebInv, [Next]_vars PROVE WebInv'
    OBVIOUS
  <2>1. CASE UNCHANGED vars
    BY <2>1 DEF vars, tokens, WebInv, TypeOK, FormWaits, SubmittedOnce, RegistrationKept,
                MarkedByRefresh, Idle
  <2>2. CASE Leave \/ FollowAnchor
    BY <2>2, LoadKeeps DEF Leave, FollowAnchor
  <2> QED
    BY <2>1, <2>2, AnswerKeeps, AnswerRefreshKeeps, CallsKeep, SubmitKeeps, VisitKeeps,
       AccessExpiresKeeps, OthersKeep DEF Next
<1> QED
  BY InitWeb, <1>1, PTL DEF Spec

\* SignedOutByRefresh: a failed call takes nobody's tokens; only logout, the Navbar and a
\* refresh that failed do.
THEOREM OnlyLogoutSignsOut == Spec => SignedOutByRefresh
<1>1. WebInv /\ [Next]_vars => [SignsOut]_vars
  <2> USE DEF SignsOut
  <2> SUFFICES ASSUME WebInv, Next PROVE SignsOut
    BY DEF vars
  <2>1. ASSUME NEW c \in Call, Ends(c) PROVE call'[c].at = "idle"
    BY <2>1 DEF Ends, NoCall, WebInv, TypeOK
  <2>2. ASSUME NEW c \in Call, Answer(c) PROVE SignsOut
    <3> SUFFICES ASSUME access # "none", access' = "none"
                 PROVE  call[c].kind = "logout" /\ call'[c].at = "idle"
      OBVIOUS
    <3>1. CASE Succeeds(c)
      <4>1. call[c].kind = "logout"
        BY <3>1 DEF Succeeds, Resolve, LogIn, tokens
      <4>2. call'[c].at = "idle"
        BY <3>1 DEF Succeeds, Resolve, Navigates, NoCall
      <4> QED
        BY <4>1, <4>2
    <3>2. CASE Unauthorized(c)
      BY <2>1, <3>2 DEF Unauthorized, Reject, tokens
    <3>3. CASE Fails(c)
      BY <2>1, <3>3 DEF Fails, AfterFailure, Reject, tokens
    <3> QED
      BY <2>2, <3>1, <3>2, <3>3 DEF Answer
  <2>3. ASSUME NEW c \in Call, AnswerRefresh(c) PROVE SignsOut
    BY <2>1, <2>3 DEF AnswerRefresh, Refreshed, RefreshFails
  <2>4. ASSUME NEW c \in Call, GetProfile(c) \/ Logout(c) PROVE SignsOut
    BY <2>4 DEF GetProfile, Logout, tokens
  <2>5. CASE Type \/ Submit \/ NavbarLogout \/ SessionEnds \/ Visit
    BY <2>5 DEF Type, Submit, NavbarLogout, SessionEnds, Visit, tokens
  <2>6. CASE Leave \/ FollowAnchor
    BY <2>6 DEF Leave, FollowAnchor, Load, tokens
  <2>7. CASE AccessExpires
    BY <2>7 DEF AccessExpires, Stale
  <2> QED
    BY <2>2, <2>3, <2>4, <2>5, <2>6, <2>7 DEF Next
<1> QED
  BY WebInvariant, <1>1, PTL DEF Spec, SignedOutByRefresh
=============================================================================
