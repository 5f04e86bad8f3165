------------------------------ MODULE ApiClient ------------------------------
(***************************************************************************)
(* The session of the frontend: the API clients of its hooks, the provider *)
(* that watches the OIDC library, the gate in front of the protected       *)
(* routes, and the pages of the sign-in dance.                             *)
(*                                                                         *)
(* Every hook has a client of its own (useApiClient), with its own flight  *)
(* of signinSilent and its own notion of a dead session; all of them read  *)
(* the token and the terminal flag as of the latest render.  The OIDC      *)
(* library, the identity provider and the API are external: a renewal may  *)
(* bring a token, bring none, or fail, and a token may expire at any time. *)
(***************************************************************************)
EXTENDS Naturals

CONSTANTS
    Clients,        \* the hooks that hold an API client
    Calls,          \* calls that are under way at the same time
    ClientOf,       \* call -> the client that makes it
    MaxToken        \* bound on the access tokens the provider issues

NoToken == 0
Tokens == 1..MaxToken

CONSTANT Gate       \* ProtectedRoute, as one who calls signinRedirect

ASSUME ApiClientAssumption ==
    /\ MaxToken \in Nat
    /\ ClientOf \in [Calls -> Clients]
    /\ Gate \notin Clients

VARIABLES
    page,       \* what the browser shows: a protected route, the callback or
                \* logout route, the callback's error, or the provider's pages
    accepted,   \* tokens the API accepts
    issued,     \* number of tokens issued so far
    user,       \* state of the OIDC library and of DiVoidAuthEventWatcher
    shown,      \* the same as of the latest render: what the refs hold
    signingOut, \* signoutRedirect was called
    redirects,  \* how often a client or the gate called signinRedirect
    dead,       \* client -> sessionDead
    fired,      \* client -> redirectFired
    inFlight,   \* client -> silentRefreshInFlight is a promise
    renewals,   \* client -> calls of signinSilent that have not settled
    call        \* call -> where its _fetch stands

auth == <<accepted, issued, user>>
clients == <<redirects, dead, fired, inFlight, renewals>>
vars == <<page, accepted, issued, user, shown, signingOut, redirects,
          dead, fired, inFlight, renewals, call>>

-----------------------------------------------------------------------------

UserState == [token : {NoToken} \cup Tokens, terminal : BOOLEAN, loading : BOOLEAN]

\* The user object is kept in memory only: a page starts without one.
Fresh == [token |-> NoToken, terminal |-> FALSE, loading |-> TRUE]

Call == [token : {NoToken} \cup Tokens,
         step : {"free", "sent", "waiting", "again", "done"},
         result : {"none", "ok", "failed", "denied"}]

Unused == [token |-> NoToken, step |-> "free", result |-> "none"]

Underway(r) == call[r].step \in {"sent", "waiting", "again"}

Leaving == signingOut \/ \E x \in Clients \cup {Gate} : redirects[x] > 0

\* What a page load starts with, the memory of the page before it gone.
Load ==
    /\ signingOut' = FALSE
    /\ redirects' = [x \in Clients \cup {Gate} |-> 0]
    /\ dead' = [c \in Clients |-> FALSE]
    /\ fired' = [c \in Clients |-> FALSE]
    /\ inFlight' = [c \in Clients |-> FALSE]
    /\ renewals' = [c \in Clients |-> 0]
    /\ call' = [r \in Calls |-> Unused]

Init ==
    /\ page = "app"
    /\ accepted = {}
    /\ issued = 0
    /\ user = Fresh
    /\ shown = Fresh
    /\ signingOut = FALSE
    /\ redirects = [x \in Clients \cup {Gate} |-> 0]
    /\ dead = [c \in Clients |-> FALSE]
    /\ fired = [c \in Clients |-> FALSE]
    /\ inFlight = [c \in Clients |-> FALSE]
    /\ renewals = [c \in Clients |-> 0]
    /\ call = [r \in Calls |-> Unused]

-----------------------------------------------------------------------------
(* The client                                                              *)

\* Mutant: does not remember that it asked.
GiveUpEachTime(c) ==
    /\ dead' = [dead EXCEPT ![c] = TRUE]
    /\ fired' = fired
    /\ redirects' = IF fired[c] \/ shown.terminal THEN redirects
                    ELSE [redirects EXCEPT ![c] = @ + 1]

\* Mutant: leaves the redirect to ProtectedRoute alone.
GiveUpSilently(c) ==
    /\ dead' = [dead EXCEPT ![c] = TRUE]
    /\ fired' = [fired EXCEPT ![c] = TRUE]
    /\ redirects' = redirects

\* Client c gives the session up: every call finds it dead from now on, and
\* the login redirect is asked for once.  useApiClient's closure does nothing
\* when the rendered session has already failed for good.
GiveUp(c) ==
    /\ dead' = [dead EXCEPT ![c] = TRUE]
    /\ fired' = [fired EXCEPT ![c] = TRUE]
    /\ redirects' = IF fired[c] \/ shown.terminal THEN redirects
                    ELSE [redirects EXCEPT ![c] = @ + 1]

\* A hook calls the API: with a user, or again for a query it already ran.
\* A dead client answers 401 by itself.
StartCall(r) ==
    LET c == ClientOf[r] IN
    /\ page = "app"
    /\ ~Underway(r)
    /\ shown.token # NoToken \/ call[r].step = "done"
    /\ \/ /\ dead[c]
          /\ call' = [call EXCEPT ![r] = [Unused EXCEPT !.step = "done", !.result = "denied"]]
          /\ GiveUp(c)
       \/ /\ ~dead[c]
          /\ call' = [call EXCEPT ![r].token = shown.token, ![r].step = "sent",
                                  ![r].result = "none"]
          /\ UNCHANGED <<dead, fired, redirects>>
    /\ UNCHANGED <<page, auth, shown, signingOut, inFlight, renewals>>

\* The API answers anything but 401, or the request is aborted or times out.
Answered(r) ==
    /\ call[r].step \in {"sent", "again"}
    /\ \E result \in {"ok", "failed"} :
         /\ result = "ok" => call[r].token \in accepted
         /\ call' = [call EXCEPT ![r] = [Unused EXCEPT !.step = "done", !.result = result]]
    /\ UNCHANGED <<page, auth, shown, signingOut, clients>>

\* Mutant: every call that is denied refreshes, as before bug #403.
DeniedAlone(r) ==
    LET c == ClientOf[r] IN
    /\ call[r].step = "sent"
    /\ call[r].token \notin accepted
    /\ call' = [call EXCEPT ![r].step = "waiting"]
    /\ inFlight' = [inFlight EXCEPT ![c] = TRUE]
    /\ renewals' = [renewals EXCEPT ![c] = @ + 1]
    /\ UNCHANGED <<page, auth, shown, signingOut, redirects, dead, fired>>

\* The first 401: wait for the refresh in flight, starting one if there is none.
Denied(r) ==
    LET c == ClientOf[r] IN
    /\ call[r].step = "sent"
    /\ call[r].token \notin accepted
    /\ call' = [call EXCEPT ![r].step = "waiting"]
    /\ inFlight' = [inFlight EXCEPT ![c] = TRUE]
    /\ renewals' = IF inFlight[c] THEN renewals ELSE [renewals EXCEPT ![c] = @ + 1]
    /\ UNCHANGED <<page, auth, shown, signingOut, redirects, dead, fired>>

\* The retry is answered 401 as well.
DeniedAgain(r) ==
    /\ call[r].step = "again"
    /\ call[r].token \notin accepted
    /\ call' = [call EXCEPT ![r] = [Unused EXCEPT !.step = "done", !.result = "denied"]]
    /\ GiveUp(ClientOf[r])
    /\ UNCHANGED <<page, auth, shown, signingOut, inFlight, renewals>>

Waiters(c) == {r \in Calls : ClientOf[r] = c /\ call[r].step = "waiting"}

\* Mutant: only the call that started the refresh goes on.
ResumeFirst(c, rest) ==
    \E r \in Calls :
        \/ Waiters(c) = {} /\ call' = call
        \/ r \in Waiters(c) /\ call' = [call EXCEPT ![r] = rest]

\* The calls that waited go on within the turn that settled their promise.
Resume(c, rest) ==
    call' = [r \in Calls |-> IF r \in Waiters(c) THEN rest ELSE call[r]]

\* The provider issues a token; userLoaded clears the terminal flag.
NewToken ==
    /\ issued < MaxToken
    /\ issued' = issued + 1
    /\ accepted' = accepted \cup {issued + 1}
    /\ user' = [user EXCEPT !.token = issued + 1, !.terminal = FALSE]

\* Mutant: settles again a refresh whose calls are being retried.
RefreshEndsTwice(c) ==
    /\ inFlight[c] \/ \E r \in Calls : ClientOf[r] = c /\ call[r].step = "again"
    /\ renewals' = [renewals EXCEPT ![c] = @ - 1]
    /\ inFlight' = [inFlight EXCEPT ![c] = FALSE]
    /\ UNCHANGED <<page, shown, signingOut>>

RefreshEnds(c) ==
    /\ renewals[c] > 0
    /\ renewals' = [renewals EXCEPT ![c] = @ - 1]
    /\ inFlight' = [inFlight EXCEPT ![c] = FALSE]
    /\ UNCHANGED <<page, shown, signingOut>>

\* signinSilent resolves, with a new user or without one: all waiters retry,
\* with the token of the latest render, which the refresh may have come before.
Refreshed(c) ==
    /\ RefreshEnds(c)
    /\ NewToken \/ UNCHANGED auth
    /\ \E token \in {shown.token, user'.token} :
         Resume(c, [token |-> token, step |-> "again", result |-> "none"])
    /\ UNCHANGED <<redirects, dead, fired>>

\* Mutant: the 401 is handed back and nothing is remembered.
RefreshRejectedForgotten(c) ==
    /\ RefreshEnds(c)
    /\ Resume(c, [Unused EXCEPT !.step = "done", !.result = "denied"])
    /\ UNCHANGED <<auth, redirects, dead, fired>>

\* signinSilent rejects: all waiters return their 401.
RefreshRejected(c) ==
    /\ RefreshEnds(c)
    /\ Resume(c, [Unused EXCEPT !.step = "done", !.result = "denied"])
    /\ IF Waiters(c) = {} THEN UNCHANGED <<redirects, dead, fired>> ELSE GiveUp(c)
    /\ UNCHANGED auth

-----------------------------------------------------------------------------
(* The session                                                             *)

\* silentRenewError or userSignedOut: the failure is marked as final, renewing
\* is stopped and the user removed.
SessionLost ==
    /\ page = "app"
    /\ user.token # NoToken
    /\ user' = [user EXCEPT !.token = NoToken, !.terminal = TRUE]
    /\ UNCHANGED <<page, accepted, issued, shown, signingOut, clients, call>>

\* The library renews the token by itself, shortly before it expires.
RenewedInTime ==
    /\ page = "app"
    /\ user.token # NoToken
    /\ NewToken
    /\ UNCHANGED <<page, shown, signingOut, clients, call>>

Expire(t) ==
    /\ t \in accepted
    /\ accepted' = accepted \ {t}
    /\ UNCHANGED <<page, issued, user, shown, signingOut, clients, call>>

\* The library has found no user for the page.
NoUserFound ==
    /\ page = "app"
    /\ user.loading
    /\ user' = [user EXCEPT !.loading = FALSE]
    /\ UNCHANGED <<page, accepted, issued, shown, signingOut, clients, call>>

\* React renders.  ProtectedRoute's effect asks for the login once per mount
\* when there is no user.
Render ==
    /\ page = "app"
    /\ shown # user
    /\ shown' = user
    /\ redirects' = IF ~user.loading /\ user.token = NoToken /\ redirects[Gate] = 0
                    THEN [redirects EXCEPT ![Gate] = @ + 1] ELSE redirects
    /\ UNCHANGED <<page, auth, signingOut, dead, fired, inFlight, renewals, call>>

\* The user menu's "Sign out".
SignOut ==
    /\ page = "app"
    /\ shown.token # NoToken
    /\ signingOut' = TRUE
    /\ UNCHANGED <<page, auth, shown, clients, call>>

\* The browser leaves for the provider, which sends it to /logout after a
\* sign-out.
Leave ==
    /\ page = "app"
    /\ Leaving
    /\ \/ signingOut /\ page' = "logout"
       \/ ~signingOut /\ page' = "provider"
    /\ user' = Fresh
    /\ shown' = Fresh
    /\ Load
    /\ UNCHANGED <<accepted, issued>>

\* "Sign in" on /logout, or "Try again" on /callback.
AskToSignIn ==
    /\ page \in {"logout", "failed"}
    /\ page' = "provider"
    /\ UNCHANGED <<auth, shown, signingOut, clients, call>>

\* The provider sends the browser back to /callback.
Return ==
    /\ page = "provider"
    /\ page' = "callback"
    /\ UNCHANGED <<auth, shown, signingOut, clients, call>>

\* The code is exchanged and Callback navigates home, or shows the error.
Exchange ==
    /\ page = "callback"
    /\ \/ /\ issued < MaxToken
          /\ page' = "app"
          /\ issued' = issued + 1
          /\ accepted' = accepted \cup {issued + 1}
          /\ user' = [token |-> issued + 1, terminal |-> FALSE, loading |-> FALSE]
          /\ shown' = user'
       \/ /\ page' = "failed"
          /\ UNCHANGED <<auth, shown>>
    /\ UNCHANGED <<signingOut, clients, call>>

-----------------------------------------------------------------------------

\* A call the API owes an answer gets one, or is aborted after 30 seconds.
Responds(r) == Answered(r) \/ Denied(r) \/ DeniedAgain(r)

RefreshSettles(c) == Refreshed(c) \/ RefreshRejected(c)

Next ==
    \/ \E r \in Calls : StartCall(r) \/ Responds(r)
    \/ \E c \in Clients : RefreshSettles(c)
    \/ \E t \in Tokens : Expire(t)
    \/ SessionLost \/ RenewedInTime \/ NoUserFound
    \/ Render \/ SignOut \/ Leave \/ AskToSignIn \/ Return \/ Exchange

\* Requests end because of their timeout, token requests because the library
\* has one; the browser renders.  Nobody is obliged to sign in or to expire.
Fairness ==
    /\ \A r \in Calls : WF_vars(Responds(r))
    /\ \A c \in Clients : WF_vars(RefreshSettles(c))
    /\ WF_vars(Render)

Spec == Init /\ [][Next]_vars /\ Fairness

-----------------------------------------------------------------------------
(* Properties                                                              *)

\* The types of the variables.
TypeOK ==
    /\ page \in {"app", "callback", "failed", "logout", "provider"}
    /\ accepted \in SUBSET Tokens
    /\ issued \in 0..MaxToken
    /\ user \in UserState
    /\ shown \in UserState
    /\ signingOut \in BOOLEAN
    /\ redirects \in [Clients \cup {Gate} -> Nat]
    /\ dead \in [Clients -> BOOLEAN]
    /\ fired \in [Clients -> BOOLEAN]
    /\ inFlight \in [Clients -> BOOLEAN]
    /\ renewals \in [Clients -> Nat]
    /\ call \in [Calls -> Call]

\* However many calls are answered 401 at once, a client has one signinSilent
\* under way at most, and a call waits only while there is one (api.ts: the
\* burst of parallel token requests of bug #403).
SingleFlight ==
    /\ \A c \in Clients : renewals[c] = IF inFlight[c] THEN 1 ELSE 0
    /\ \A r \in Calls : call[r].step = "waiting" => inFlight[ClientOf[r]]

\* No client and no gate asks for the login page more than once per page load,
\* however many of its calls find the session dead (fireRedirectOnce,
\* hasRedirectedRef).
OneRedirect == \A x \in Clients \cup {Gate} : redirects[x] <= 1

\* A hook is told "unauthorized" only by a client that has given the session
\* up for good: a 401 that a refresh or a retry could still heal is not shown.
DeniedMeansDead ==
    \A r \in Calls : call[r].result = "denied" => dead[ClientOf[r]]

\* A client that has given up never leaves the user on a page whose calls all
\* fail: somebody has asked for the login page, the client itself or, where it
\* kept still because the session was marked as failed, ProtectedRoute.
DeadIsLeaving == \A c \in Clients : dead[c] => Leaving

\* Every call comes back to its hook, whatever happens to the refresh it waits
\* for and to the calls it waits with.
CallsSettle == \A r \in Calls : Underway(r) ~> ~Underway(r)
=============================================================================
