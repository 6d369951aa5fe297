------------------------------ MODULE WebClient -----------------------------
(***************************************************************************)
(* The session of the web client in one browser tab: the tokens in local   *)
(* storage, the forms, and API calls through the axios instance, whose     *)
(* interceptor refreshes the access token after a 401 and repeats the call.*)
(* The endpoints of login, logout, refresh and profile are not in this     *)
(* API; they are modelled from how the client uses them.                   *)
(***************************************************************************)
EXTENDS Naturals

CONSTANTS
    Call,  \* bound on the calls that are under way at once
    none

ASSUME WebAssumption == none \notin Call

VARIABLES
    page,     \* login, register or dashboard
    form,     \* idle, pending, or what the last submission left: fields (messages
              \* at the fields), general, silent (no message at all)
    typed,    \* the fields of the form that are filled in
    access,   \* the access token in storage: none, fresh or stale
    refresh,  \* the refresh token in storage
    call,     \* the calls: where they are, what for, marked, repeated, with which token
    session,  \* at the server: live or over
    leaving,  \* location.href was set, and the page has not been left
    awaited   \* the call the form on the page waits for, or none

tokens == <<access, refresh>>
vars == <<page, form, typed, access, refresh, call, session, leaving, awaited>>

NoCall ==
    [at |-> "idle", kind |-> "none", retry |-> FALSE, auth |-> "none", again |-> FALSE, left |-> FALSE]

Init ==
    /\ page = "login" /\ form = "idle" /\ typed = {}
    /\ access = "none" /\ refresh = FALSE
    /\ call = [c \in Call |-> NoCall]
    /\ session = "over" /\ leaving = FALSE /\ awaited = none

-----------------------------------------------------------------------------
(* Calls *)

Idle(c) == call[c].at = "idle"

\* The request interceptor takes the token from storage.
Send(c, kind) ==
    call' = [call EXCEPT ![c] = [at |-> "sent", kind |-> kind, retry |-> FALSE,
                                 auth |-> access, again |-> FALSE, left |-> FALSE]]

RemoveTokens == access' = "none" /\ refresh' = FALSE

Ends(c) == call' = [call EXCEPT ![c] = NoCall]

\* The forms show what the interceptor rejects with: messages at the fields if the
\* API named some.  Its errors are always an array, so that without any the forms
\* show nothing; they show a general message only for the error of a refresh.
FormErrors == {"fields", "silent"}

\* When its action has returned React empties the form; the register form then
\* starts again from the name and the e-mail address.
Returned(results) ==
    /\ form' \in results
    /\ typed' = IF page = "register" THEN {"name", "email"} ELSE {}

\* The action of the form returns an error; that of a form that was left has no effect.
Shows(c, results) ==
    IF c = awaited THEN Returned(results) /\ awaited' = none
                   ELSE UNCHANGED <<form, typed, awaited>>

\* The router shows page p.  Another page than before unmounts the form, which forgets
\* its action; the action goes on, unless its call is the one that ended.
Navigates(p, ended) ==
    /\ page' = p
    /\ call' = [c \in Call |-> IF c \in ended THEN NoCall
                               ELSE [call[c] EXCEPT !.left = @ \/ (c = awaited /\ p # page)]]
    /\ IF p = page THEN UNCHANGED <<form, typed, awaited>>
                   ELSE form' = "idle" /\ typed' = {} /\ awaited' = none

\* The promise of a call is rejected.  logout() removes the tokens all the same.
Reject(c, messages) ==
    /\ Ends(c)
    /\ Shows(c, messages)
    /\ IF call[c].kind = "logout" THEN RemoveTokens ELSE UNCHANGED tokens
    /\ UNCHANGED <<page, session, leaving>>

LogIn == access' = "fresh" /\ refresh' = TRUE /\ session' = "live"

\* Where the action of a form goes after it succeeded, also when the form was left.
Destination(c) ==
    CASE call[c].kind = "login"    -> "dashboard"
      [] call[c].kind = "register" -> "login"
      [] OTHER                     -> page

\* What a call does with a successful answer.
Resolve(c) ==
    /\ Navigates(Destination(c), {c}) /\ UNCHANGED leaving
    /\ CASE call[c].kind = "login"  -> LogIn
         [] call[c].kind = "logout" -> RemoveTokens /\ session' = "over"
         [] OTHER                   -> UNCHANGED <<tokens, session>>

NeedsToken == {"profile", "logout"}
Authorized(c) == call[c].kind \in NeedsToken => call[c].auth = "fresh" /\ session = "live"

Succeeds(c) == call[c].at = "sent" /\ Authorized(c) /\ Resolve(c)

\* Mutant: the call is not marked as repeated.
Marked_Never(c) == FALSE
Marked(c) == TRUE

\* A 401, for a missing or expired token or a wrong password: the first one is
\* followed by a refresh if there is a refresh token.
Unauthorized(c) ==
    /\ call[c].at = "sent" /\ (~Authorized(c) \/ call[c].kind = "login")
    /\ IF ~call[c].retry /\ refresh
       THEN /\ call' = [call EXCEPT ![c].at = "refreshing", ![c].retry = Marked(c)]
            /\ UNCHANGED <<page, form, typed, tokens, session, leaving, awaited>>
       ELSE Reject(c, FormErrors)

\* Mutant: the repeated call is awaited inside try, and its error logs out as well.
AfterFailure_Awaited(c) ==
    IF call[c].again
    THEN /\ RemoveTokens /\ leaving' = TRUE /\ Ends(c) /\ Shows(c, {"general"})
         /\ UNCHANGED <<page, session>>
    ELSE Reject(c, FormErrors)
AfterFailure(c) == Reject(c, FormErrors)

\* Any other status, or none: the API answers every call or closes its connection.
Fails(c) == call[c].at = "sent" /\ AfterFailure(c)

\* The refreshed token is stored, and the call repeated with what is in storage.
Refreshed(c) ==
    /\ call[c].at = "refreshing" /\ session = "live"
    /\ access' = "fresh"
    /\ call' = [call EXCEPT ![c].at = "sent", ![c].auth = "fresh", ![c].again = TRUE]
    /\ UNCHANGED <<page, form, typed, refresh, session, leaving, awaited>>

\* Refused, or not answered: the user is logged out.
RefreshFails(c) ==
    /\ call[c].at = "refreshing"
    /\ RemoveTokens /\ leaving' = TRUE /\ Ends(c) /\ Shows(c, {"general"})
    /\ UNCHANGED <<page, session>>

-----------------------------------------------------------------------------
(* The user *)

\* Mutant: the form can be submitted again.
Enabled_Always == TRUE
\* The submit button is disabled while the action is pending.
Enabled == form # "pending"

Fields == IF page = "login" THEN {"email", "password"} ELSE {"name", "email", "password"}

\* The inputs are disabled as well.
Type ==
    /\ page \in {"login", "register"} /\ Enabled /\ typed # Fields
    /\ typed' = Fields
    /\ UNCHANGED <<page, form, tokens, call, session, leaving, awaited>>

\* The form's action, once the required fields are filled in: the shared schema
\* rejects the input, or the call is made.
Submit ==
    /\ page \in {"login", "register"} /\ Enabled /\ typed = Fields
    /\ \/ Returned({"fields"}) /\ UNCHANGED <<call, awaited>>
       \/ \E c \in Call : /\ Idle(c) /\ Send(c, page)
                        /\ form' = "pending" /\ awaited' = c /\ UNCHANGED typed
    /\ UNCHANGED <<page, tokens, session, leaving>>

GetProfile(c) ==
    /\ Idle(c) /\ Send(c, "profile")
    /\ UNCHANGED <<page, form, typed, tokens, session, leaving, awaited>>

Logout(c) ==
    /\ Idle(c) /\ Send(c, "logout")
    /\ UNCHANGED <<page, form, typed, tokens, session, leaving, awaited>>

\* The logout button of the Navbar asks no server.
NavbarLogout ==
    /\ access # "none" /\ RemoveTokens /\ leaving' = TRUE
    /\ UNCHANGED <<page, form, typed, call, session, awaited>>

\* A link; ProtectedRoute shows the dashboard to whoever has an access token.
Visit ==
    /\ \E p \in {"login", "register", IF access = "none" THEN "login" ELSE "dashboard"} :
         p # page /\ Navigates(p, {})
    /\ UNCHANGED <<tokens, session, leaving>>

\* A page is loaded: the calls of the one before are gone.
Load(p) ==
    /\ page' = p /\ form' = "idle" /\ typed' = {} /\ awaited' = none /\ leaving' = FALSE
    /\ call' = [c \in Call |-> NoCall]
    /\ UNCHANGED <<tokens, session>>

\* What location.href asked for.
Leave == leaving /\ Load("login")

\* Each form points to the other with an anchor, not with a link of the router.
FollowAnchor ==
    /\ page \in {"login", "register"}
    /\ Load(IF page = "login" THEN "register" ELSE "login")

-----------------------------------------------------------------------------
(* The server *)

Stale(token) == IF token = "fresh" THEN "stale" ELSE token

AccessExpires ==
    /\ access' = Stale(access)
    /\ call' = [c \in Call |-> [call[c] EXCEPT !.auth = Stale(@)]]
    /\ UNCHANGED <<page, form, typed, refresh, session, leaving, awaited>>

SessionEnds ==
    /\ session = "live" /\ session' = "over"
    /\ UNCHANGED <<page, form, typed, tokens, call, leaving, awaited>>

Answer(c) == Succeeds(c) \/ Unauthorized(c) \/ Fails(c)
AnswerRefresh(c) == Refreshed(c) \/ RefreshFails(c)

Next ==
    \/ \E c \in Call : Answer(c) \/ AnswerRefresh(c)
    \/ \E c \in Call : GetProfile(c) \/ Logout(c)
    \/ Type \/ Submit \/ NavbarLogout \/ Visit \/ Leave \/ FollowAnchor
    \/ AccessExpires \/ SessionEnds

\* The API answers or closes the connection (RequestPipeline, EveryRequestEnds).
Spec ==
    Init /\ [][Next]_vars
         /\ \A c \in Call : WF_vars(Answer(c)) /\ WF_vars(AnswerRefresh(c))

-----------------------------------------------------------------------------
(* Properties *)

Tokens == {"none", "fresh", "stale"}
CallState ==
    [at : {"idle", "sent", "refreshing"}, kind : {"none", "login", "register"} \cup NeedsToken,
     retry : BOOLEAN, auth : Tokens, again : BOOLEAN, left : BOOLEAN]

TypeOK ==
    /\ page \in {"login", "register", "dashboard"}
    /\ access \in Tokens /\ refresh \in BOOLEAN
    /\ form \in {"idle", "pending", "fields", "silent", "general"}
    /\ typed \subseteq {"name", "email", "password"}
    /\ call \in [Call -> CallState]
    /\ session \in {"live", "over"} /\ leaving \in BOOLEAN
    /\ awaited \in Call \cup {none}

\* A form waits exactly as long as its call is under way, and for no call but its own.
FormWaits ==
    /\ form = "pending" <=> awaited # none
    /\ awaited # none => ~Idle(awaited) /\ call[awaited].kind = page

\* Of the calls that log in or register, all but the one that is awaited are those of
\* a form that was left, so that no second click submits a form twice.
SubmittedOnce ==
    \A c \in Call : call[c].kind \in {"login", "register"} => c = awaited \/ call[c].left

\* A registration that failed costs the user no more than the password.
RegistrationKept ==
    page = "register" /\ form \in {"fields", "silent", "general"} => {"name", "email"} \subseteq typed

\* The mark of the interceptor says that a refresh was tried for this call.
MarkedByRefresh ==
    \A c \in Call : call[c].retry <=> call[c].at = "refreshing" \/ call[c].again

\* The forms and the calls agree, whatever the user does while calls are under way and
\* wherever the calls of forms that were left lead.
WebInv == TypeOK /\ FormWaits /\ SubmittedOnce /\ RegistrationKept /\ MarkedByRefresh

\* Who has no token any more after a step pressed the button of the Navbar, or a call
\* that logs out or refreshes came to its end.
SignsOut ==
    access # "none" /\ access' = "none" =>
        \/ call' = call
        \/ \E c \in Call : /\ call[c].at = "refreshing" \/ call[c].kind = "logout"
                           /\ call'[c].at = "idle"

\* Nobody is logged out by a failed call: the tokens are removed by logout(), by the
\* Navbar or by a refresh that failed, not by the failure of the call that was
\* repeated with the refreshed token.
SignedOutByRefresh == [][SignsOut]_vars

\* Every call ends: no 401 leads to a second refresh of the same call.
CallsEnd == \A c \in Call : call[c].at # "idle" ~> call[c].at = "idle"
=============================================================================
