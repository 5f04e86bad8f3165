---------------------------- MODULE ApiClient_proofs ----------------------------
(***************************************************************************)
(* Proofs about ApiClient, for every number of clients, calls and tokens:  *)
(* its type invariant and its safety invariants.                           *)
(***************************************************************************)
EXTENDS ApiClient, TLAPS

-----------------------------------------------------------------------------
(* The inductive invariant                                                 *)

\* A client asks for the login page only when it gives up, and remembers it.
FiredOnce == \A c \in Clients : ~fired[c] => redirects[c] = 0

\* A client that has given up has asked, or had no need to.
DeadIsFired == \A c \in Clients : dead[c] => fired[c]
FiredIsLeaving == \A c \in Clients : fired[c] => Leaving

\* A session that is drawn as failed for good has had the gate ask.
TerminalIsAsked == shown.terminal => redirects[Gate] > 0

\* Until the library has looked for a user, no hook has called the API.
Starting ==
    /\ user.loading => /\ user = Fresh /\ shown = Fresh
                       /\ \A c \in Clients : renewals[c] = 0
                       /\ \A r \in Calls : call[r] = Unused
    /\ user.terminal => user.token = NoToken

-----------------------------------------------------------------------------
(* What the steps share                                                    *)

\* A client that gives up is dead and has asked; others keep what they have.
LEMMA GivingUp ==
    ASSUME TypeOK, NEW c \in Clients, GiveUp(c)
    PROVE  /\ dead' \in [Clients -> BOOLEAN] /\ fired' \in [Clients -> BOOLEAN]
           /\ redirects' \in [Clients \cup {Gate} -> Nat]
           /\ dead'[c] /\ fired'[c]
           /\ \A d \in Clients \ {c} : dead'[d] = dead[d] /\ fired'[d] = fired[d]
           /\ \A x \in (Clients \cup {Gate}) \ {c} : redirects'[x] = redirects[x]
           /\ redirects'[c] = IF fired[c] \/ shown.terminal THEN redirects[c]
                              ELSE redirects[c] + 1
  BY DEF GiveUp, TypeOK

\* Calls that resume keep their type; the others are left alone.
LEMMA Resuming ==
    ASSUME TypeOK, NEW c \in Clients, NEW rest \in Call, Resume(c, rest)
    PROVE  /\ call' \in [Calls -> Call]
           /\ \A r \in Calls : call'[r] = IF r \in Waiters(c) THEN rest ELSE call[r]
  BY DEF Resume, TypeOK

\* A new token, and the user that holds it.
LEMMA Issuing ==
    ASSUME TypeOK, NewToken
    PROVE  /\ issued' \in 0..MaxToken /\ accepted' \in SUBSET Tokens /\ user' \in UserState
           /\ ~user'.terminal /\ user'.loading = user.loading /\ user'.token # NoToken
<1>1. issued + 1 \in Tokens /\ issued + 1 # NoToken /\ issued + 1 \in 0..MaxToken
  BY ApiClientAssumption DEF NewToken, TypeOK, Tokens, NoToken
<1>2. user' \in UserState /\ ~user'.terminal /\ user'.loading = user.loading
      /\ user'.token = issued + 1
  BY <1>1 DEF NewToken, TypeOK, UserState
<1> QED
  BY <1>1, <1>2 DEF NewToken, TypeOK

LEMMA FreshTypes == Fresh \in UserState /\ Unused \in Call
  BY DEF Fresh, UserState, Unused, Call

-----------------------------------------------------------------------------
(* Type correctness                                                        *)

LEMMA InitType == Init => TypeOK
<1> SUFFICES ASSUME Init PROVE TypeOK
  OBVIOUS
<1>1. issued \in 0..MaxToken /\ accepted \in SUBSET Tokens
  BY ApiClientAssumption DEF Init
<1>2. /\ redirects \in [Clients \cup {Gate} -> Nat] /\ renewals \in [Clients -> Nat]
      /\ dead \in [Clients -> BOOLEAN] /\ fired \in [Clients -> BOOLEAN]
      /\ inFlight \in [Clients -> BOOLEAN] /\ call \in [Calls -> Call]
  BY FreshTypes DEF Init
<1> QED
  BY <1>1, <1>2, FreshTypes DEF Init, TypeOK

LEMMA NextType == TypeOK /\ [Next]_vars => TypeOK'
<1> SUFFICES ASSUME TypeOK, [Next]_vars PROVE TypeOK'
  OBVIOUS
<1> USE ApiClientAssumption DEF NoToken
<1>1. ASSUME NEW r \in Calls, StartCall(r) PROVE TypeOK'
  <2>1. ClientOf[r] \in Clients
    OBVIOUS
  <2>2. call' \in [Calls -> Call]
    <3>1. shown.token \in {NoToken} \cup Tokens
      BY DEF TypeOK, UserState
    <3>2. [Unused EXCEPT !.step = "done", !.result = "denied"] \in Call
      BY DEF Unused, Call
    <3>3. \A q \in Call, t \in {NoToken} \cup Tokens :
             [q EXCEPT !.token = t, !.step = "sent", !.result = "none"] \in Call
      BY DEF Call
    <3>4. CASE call' = [call EXCEPT ![r] = [Unused EXCEPT !.step = "done", !.result = "denied"]]
      BY <3>2, <3>4 DEF TypeOK
    <3>5. CASE call' = [call EXCEPT ![r].token = shown.token, ![r].step = "sent",
                                    ![r].result = "none"]
      <4>1. call' = [call EXCEPT ![r] =
                       [call[r] EXCEPT !.token = shown.token, !.step = "sent", !.result = "none"]]
        BY <3>5 DEF TypeOK
      <4> QED
        BY <3>1, <3>3, <4>1 DEF TypeOK
    <3> QED
      BY <1>1, <3>4, <3>5 DEF StartCall
  <2>3. dead' \in [Clients -> BOOLEAN] /\ fired' \in [Clients -> BOOLEAN]
        /\ redirects' \in [Clients \cup {Gate} -> Nat]
    BY <1>1, <2>1, GivingUp DEF StartCall, TypeOK
  <2> QED
    BY <1>1, <2>2, <2>3 DEF StartCall, TypeOK, auth
<1>2. ASSUME NEW r \in Calls, Answered(r) PROVE TypeOK'
  <2>1. call' \in [Calls -> Call]
    <3>1. \A x \in {"ok", "failed"} : [Unused EXCEPT !.step = "done", !.result = x] \in Call
      BY DEF Unused, Call
    <3> QED
      BY <1>2, <3>1 DEF Answered, TypeOK
  <2> QED
    BY <1>2, <2>1 DEF Answered, TypeOK, auth, clients
<1>3. ASSUME NEW r \in Calls, Denied(r) PROVE TypeOK'
  <2>1. call' \in [Calls -> Call]
    BY <1>3 DEF Denied, TypeOK, Call
  <2>2. renewals' \in [Clients -> Nat] /\ inFlight' \in [Clients -> BOOLEAN]
    BY <1>3 DEF Denied, TypeOK
  <2> QED
    BY <1>3, <2>1, <2>2 DEF Denied, TypeOK, auth
<1>4. ASSUME NEW r \in Calls, DeniedAgain(r) PROVE TypeOK'
  <2>1. call' \in [Calls -> Call]
    BY <1>4 DEF DeniedAgain, TypeOK, Call, Unused
  <2>2. dead' \in [Clients -> BOOLEAN] /\ fired' \in [Clients -> BOOLEAN]
        /\ redirects' \in [Clients \cup {Gate} -> Nat]
    BY <1>4, GivingUp DEF DeniedAgain
  <2> QED
    BY <1>4, <2>1, <2>2 DEF DeniedAgain, TypeOK, auth
<1>5. ASSUME NEW c \in Clients, RefreshSettles(c) PROVE TypeOK'
  <2>1. RefreshEnds(c)
    BY <1>5 DEF RefreshSettles, Refreshed, RefreshRejected
  <2>2. renewals' \in [Clients -> Nat] /\ inFlight' \in [Clients -> BOOLEAN]
    BY <2>1 DEF RefreshEnds, TypeOK
  <2>3. issued' \in 0..MaxToken /\ accepted' \in SUBSET Tokens /\ user' \in UserState
    BY <1>5, Issuing DEF RefreshSettles, Refreshed, RefreshRejected, TypeOK, auth
  <2>4. CASE Refreshed(c)
    <3>1. PICK token \in {shown.token, user'.token} :
             Resume(c, [token |-> token, step |-> "again", result |-> "none"])
      BY <2>4 DEF Refreshed
    <3>2. [token |-> token, step |-> "again", result |-> "none"] \in Call
      BY <2>3 DEF TypeOK, UserState, Call
    <3>3. call' \in [Calls -> Call]
      BY <3>1, <3>2, Resuming
    <3> QED
      BY <2>1, <2>2, <2>3, <2>4, <3>3 DEF Refreshed, RefreshEnds, TypeOK
  <2>5. CASE RefreshRejected(c)
    <3>1. [Unused EXCEPT !.step = "done", !.result = "denied"] \in Call
      BY DEF Unused, Call
    <3>2. call' \in [Calls -> Call]
      BY <2>5, <3>1, Resuming DEF RefreshRejected
    <3>3. dead' \in [Clients -> BOOLEAN] /\ fired' \in [Clients -> BOOLEAN]
          /\ redirects' \in [Clients \cup {Gate} -> Nat]
      BY <2>5, GivingUp DEF RefreshRejected, TypeOK
    <3> QED
      BY <2>1, <2>2, <2>3, <3>2, <3>3 DEF RefreshEnds, TypeOK
  <2> QED
    BY <1>5, <2>4, <2>5 DEF RefreshSettles
<1>6. ASSUME NEW t \in Tokens, Expire(t) PROVE TypeOK'
  BY <1>6 DEF Expire, TypeOK, clients
<1>7. CASE SessionLost
  BY <1>7 DEF SessionLost, TypeOK, clients, UserState
<1>8. CASE RenewedInTime
  BY <1>8, Issuing DEF RenewedInTime, TypeOK, clients
<1>9. CASE NoUserFound
  BY <1>9 DEF NoUserFound, TypeOK, clients, UserState
<1>10. CASE Render
  <2>1. redirects' \in [Clients \cup {Gate} -> Nat]
    BY <1>10 DEF Render, TypeOK
  <2> QED
    BY <1>10, <2>1 DEF Render, TypeOK, auth
<1>11. CASE SignOut
  BY <1>11 DEF SignOut, TypeOK, auth, clients
<1>12. CASE Leave
  BY <1>12, FreshTypes DEF Leave, Load, TypeOK
<1>13. CASE AskToSignIn \/ Return
  BY <1>13 DEF AskToSignIn, Return, TypeOK, auth, clients
<1>14. CASE Exchange
  <2>1. issued' \in 0..MaxToken /\ accepted' \in SUBSET Tokens
        /\ user' \in UserState /\ shown' \in UserState
    <3>1. issued < MaxToken => issued + 1 \in Tokens /\ issued + 1 \in 0..MaxToken
      BY DEF TypeOK, Tokens
    <3>2. \A t \in Tokens : [token |-> t, terminal |-> FALSE, loading |-> FALSE] \in UserState
      BY DEF UserState
    <3> QED
      BY <1>14, <3>1, <3>2 DEF Exchange, TypeOK, auth
  <2> QED
    BY <1>14, <2>1 DEF Exchange, TypeOK, clients
<1>15. CASE UNCHANGED vars
  BY <1>15 DEF vars, TypeOK
<1> QED
  BY <1>1, <1>2, <1>3, <1>4, <1>5, <1>6, <1>7, <1>8, <1>9, <1>10, <1>11, <1>12, <1>13,
     <1>14, <1>15 DEF Next, Responds

\* The types of the variables, in every behavior.
THEOREM TypeCorrect == Spec => []TypeOK
<1> QED
  BY InitType, NextType, PTL DEF Spec

-----------------------------------------------------------------------------
(* One refresh at a time                                                   *)

\* Steps after which no call waits that did not, and every refresh goes on.
LEMMA QuietSteps ==
    ASSUME TypeOK, SingleFlight, UNCHANGED <<renewals, inFlight>>,
           \A r \in Calls : call'[r].step = "waiting" => call[r].step = "waiting"
    PROVE  SingleFlight'
  BY DEF SingleFlight

LEMMA NextFlight == TypeOK /\ SingleFlight /\ [Next]_vars => SingleFlight'
<1> SUFFICES ASSUME TypeOK, SingleFlight, [Next]_vars PROVE SingleFlight'
  OBVIOUS
<1> USE ApiClientAssumption
<1>1. ASSUME NEW r \in Calls, StartCall(r) \/ Answered(r) \/ DeniedAgain(r)
      PROVE  SingleFlight'
  <2>1. UNCHANGED <<renewals, inFlight>>
    BY <1>1 DEF StartCall, Answered, DeniedAgain, clients
  <2>2. call \in [Calls -> Call]
    BY DEF TypeOK
  <2>3. \A q \in Calls \ {r} : call'[q] = call[q]
    BY <1>1, <2>2 DEF StartCall, Answered, DeniedAgain
  <2>4. call'[r].step \in {"sent", "done"}
    <3>1. CASE StartCall(r)
      <4>1. call[r] \in Call
        BY <2>2
      <4>2. CASE dead[ClientOf[r]]
        <5>1. call' = [call EXCEPT ![r] = [Unused EXCEPT !.step = "done", !.result = "denied"]]
          BY <3>1, <4>2 DEF StartCall
        <5> QED
          BY <2>2, <5>1 DEF Unused
      <4>3. CASE ~dead[ClientOf[r]]
        <5>1. call' = [call EXCEPT ![r].token = shown.token, ![r].step = "sent",
                                   ![r].result = "none"]
          BY <3>1, <4>3 DEF StartCall
        <5>2. call'[r] = [[[call[r] EXCEPT !.token = shown.token] EXCEPT !.step = "sent"]
                             EXCEPT !.result = "none"]
          BY <2>2, <5>1
        <5> QED
          BY <4>1, <5>2 DEF Call
      <4> QED
        BY <4>2, <4>3
    <3>2. CASE Answered(r)
      BY <2>2, <3>2 DEF Answered, Call, Unused
    <3>3. CASE DeniedAgain(r)
      BY <2>2, <3>3 DEF DeniedAgain, Call, Unused
    <3> QED
      BY <1>1, <3>1, <3>2, <3>3
  <2> QED
    BY <2>1, <2>3, <2>4, QuietSteps
<1>2. ASSUME NEW r \in Calls, Denied(r) PROVE SingleFlight'
  <2>1. \A c \in Clients \ {ClientOf[r]} : renewals'[c] = renewals[c] /\ inFlight'[c] = inFlight[c]
    BY <1>2 DEF Denied, TypeOK
  <2>2. inFlight'[ClientOf[r]] /\ renewals'[ClientOf[r]] = 1
    BY <1>2 DEF Denied, TypeOK, SingleFlight
  <2>3. \A q \in Calls \ {r} : call'[q] = call[q]
    BY <1>2 DEF Denied, TypeOK
  <2> QED
    BY <2>1, <2>2, <2>3 DEF SingleFlight, TypeOK
<1>3. ASSUME NEW c \in Clients, RefreshSettles(c) PROVE SingleFlight'
  <2>1. PICK rest : Resume(c, rest) /\ rest.step # "waiting"
    <3>1. CASE Refreshed(c)
      <4>1. PICK token : Resume(c, [token |-> token, step |-> "again", result |-> "none"])
        BY <3>1 DEF Refreshed
      <4>2. [token |-> token, step |-> "again", result |-> "none"].step # "waiting"
        OBVIOUS
      <4> QED
        BY <4>1, <4>2
    <3>2. CASE RefreshRejected(c)
      <4>1. [Unused EXCEPT !.step = "done", !.result = "denied"].step # "waiting"
        BY DEF Unused
      <4> QED
        BY <3>2, <4>1 DEF RefreshRejected
    <3> QED
      BY <1>3, <3>1, <3>2 DEF RefreshSettles
  <2>2. renewals'[c] = 0 /\ ~inFlight'[c]
    BY <1>3 DEF RefreshSettles, Refreshed, RefreshRejected, RefreshEnds, SingleFlight, TypeOK
  <2>3. \A d \in Clients \ {c} : renewals'[d] = renewals[d] /\ inFlight'[d] = inFlight[d]
    BY <1>3 DEF RefreshSettles, Refreshed, RefreshRejected, RefreshEnds, TypeOK
  <2>4. \A r \in Calls : call'[r].step = "waiting" => ClientOf[r] # c /\ call[r].step = "waiting"
    BY <2>1 DEF Resume, Waiters
  <2> QED
    BY <2>2, <2>3, <2>4 DEF SingleFlight, TypeOK
<1>4. CASE Leave
  BY <1>4 DEF Leave, Load, SingleFlight, Unused
<1>5. ASSUME UNCHANGED <<renewals, inFlight, call>> PROVE SingleFlight'
  BY <1>5 DEF SingleFlight
<1>6. ASSUME NEW t \in Tokens, Expire(t) PROVE SingleFlight'
  BY <1>5, <1>6 DEF Expire, clients
<1> QED
  BY <1>1, <1>2, <1>3, <1>4, <1>5, <1>6
  DEF Next, Responds, SessionLost, RenewedInTime, NoUserFound, Render, SignOut, AskToSignIn,
      Return, Exchange, vars, clients

\* At most one signinSilent of a client is under way, and calls wait only then.
THEOREM OneRefresh == Spec => []SingleFlight
<1>1. Init => SingleFlight
  BY DEF Init, SingleFlight, Unused
<1> QED
  BY <1>1, TypeCorrect, NextFlight, PTL DEF Spec

-----------------------------------------------------------------------------
(* One redirect, asked for by whoever finds the session dead               *)

Asking == OneRedirect /\ FiredOnce

\* Steps that give no client up and let no one ask.
LEMMA SilentSteps ==
    ASSUME Asking, UNCHANGED <<redirects, fired>>
    PROVE  Asking'
  BY DEF Asking, OneRedirect, FiredOnce

LEMMA NextAsking == TypeOK /\ Asking /\ [Next]_vars => Asking'
<1> SUFFICES ASSUME TypeOK, Asking, [Next]_vars PROVE Asking'
  OBVIOUS
<1> USE ApiClientAssumption
<1>1. ASSUME NEW c \in Clients, GiveUp(c) PROVE Asking'
  <2>1. \A x \in Clients \cup {Gate} : redirects[x] \in Nat
    BY DEF TypeOK
  <2> QED
    BY <1>1, <2>1, GivingUp DEF Asking, OneRedirect, FiredOnce
<1>2. ASSUME NEW r \in Calls, StartCall(r) \/ Responds(r) PROVE Asking'
  BY <1>1, <1>2, SilentSteps
  DEF StartCall, Responds, Answered, Denied, DeniedAgain, clients
<1>3. ASSUME NEW c \in Clients, RefreshSettles(c) PROVE Asking'
  BY <1>1, <1>3, SilentSteps DEF RefreshSettles, Refreshed, RefreshRejected
<1>4. CASE Render
  <2>1. \A c \in Clients : redirects'[c] = redirects[c] /\ fired'[c] = fired[c]
    BY <1>4 DEF Render, TypeOK
  <2>2. redirects'[Gate] <= 1
    BY <1>4 DEF Render, TypeOK, Asking, OneRedirect
  <2> QED
    BY <2>1, <2>2 DEF Asking, OneRedirect, FiredOnce
<1>5. CASE Leave
  BY <1>5 DEF Leave, Load, Asking, OneRedirect, FiredOnce
<1>6. ASSUME NEW t \in Tokens, Expire(t) PROVE Asking'
  BY <1>6, SilentSteps DEF Expire, clients
<1> QED
  BY <1>2, <1>3, <1>4, <1>5, <1>6, SilentSteps
  DEF Next, SessionLost, RenewedInTime, NoUserFound, SignOut, AskToSignIn, Return, Exchange,
      vars, clients

\* Nobody asks for the login page twice on one page load.
THEOREM OneRedirectHolds == Spec => []OneRedirect
<1>1. Init => Asking
  BY DEF Init, Asking, OneRedirect, FiredOnce
<1>2. Asking => OneRedirect
  BY DEF Asking
<1> QED
  BY <1>1, <1>2, TypeCorrect, NextAsking, PTL DEF Spec

-----------------------------------------------------------------------------
(* "Unauthorized" is final                                                 *)

LEMMA NextDenied == TypeOK /\ DeniedMeansDead /\ [Next]_vars => DeniedMeansDead'
<1> SUFFICES ASSUME TypeOK, DeniedMeansDead, [Next]_vars PROVE DeniedMeansDead'
  OBVIOUS
<1> USE ApiClientAssumption
<1>1. ASSUME UNCHANGED <<dead, call>> PROVE DeniedMeansDead'
  BY <1>1 DEF DeniedMeansDead
<1>2. ASSUME NEW r \in Calls, NEW rest,
             rest.result = "denied" => dead'[ClientOf[r]] \/ call[r].result = "denied",
             \A c \in Clients : dead[c] => dead'[c],
             call' = [call EXCEPT ![r] = rest]
      PROVE  DeniedMeansDead'
  <2>1. call'[r] = rest /\ \A q \in Calls \ {r} : call'[q] = call[q]
    BY <1>2 DEF TypeOK
  <2> QED
    BY <1>2, <2>1 DEF DeniedMeansDead, TypeOK
<1>3. ASSUME NEW c \in Clients, GiveUp(c) PROVE dead'[c] /\ \A d \in Clients : dead[d] => dead'[d]
  BY <1>3, GivingUp
<1>4. ASSUME NEW r \in Calls, StartCall(r) PROVE DeniedMeansDead'
  <2>1. CASE dead[ClientOf[r]]
    BY <1>2, <1>3, <1>4, <2>1 DEF StartCall
  <2>2. CASE ~dead[ClientOf[r]]
    <3>1. call' = [call EXCEPT ![r] =
                     [call[r] EXCEPT !.token = shown.token, !.step = "sent", !.result = "none"]]
      BY <1>4, <2>2 DEF StartCall, TypeOK
    <3>2. [call[r] EXCEPT !.token = shown.token, !.step = "sent", !.result = "none"].result # "denied"
      BY DEF TypeOK, Call
    <3> QED
      BY <1>2, <1>4, <2>2, <3>1, <3>2 DEF StartCall
  <2> QED
    BY <2>1, <2>2
<1>5. ASSUME NEW r \in Calls, Answered(r) PROVE DeniedMeansDead'
  <2>1. PICK result \in {"ok", "failed"} :
           call' = [call EXCEPT ![r] = [Unused EXCEPT !.step = "done", !.result = result]]
    BY <1>5 DEF Answered
  <2>2. [Unused EXCEPT !.step = "done", !.result = result].result # "denied"
    BY DEF Unused
  <2> QED
    BY <1>2, <1>5, <2>1, <2>2 DEF Answered, clients
<1>6. ASSUME NEW r \in Calls, Denied(r) PROVE DeniedMeansDead'
  <2>1. call' = [call EXCEPT ![r] = [call[r] EXCEPT !.step = "waiting"]]
    BY <1>6 DEF Denied, TypeOK
  <2>2. [call[r] EXCEPT !.step = "waiting"].result = call[r].result
    BY DEF TypeOK, Call
  <2> QED
    BY <1>2, <1>6, <2>1, <2>2 DEF Denied
<1>7. ASSUME NEW r \in Calls, DeniedAgain(r) PROVE DeniedMeansDead'
  BY <1>2, <1>3, <1>7 DEF DeniedAgain
<1>8. ASSUME NEW c \in Clients, RefreshSettles(c) PROVE DeniedMeansDead'
  <2>1. CASE Refreshed(c)
    <3>1. PICK token : Resume(c, [token |-> token, step |-> "again", result |-> "none"])
      BY <2>1 DEF Refreshed
    <3> QED
      BY <2>1, <3>1 DEF Refreshed, Resume, DeniedMeansDead
  <2>2. CASE RefreshRejected(c)
    <3>1. \A d \in Clients : dead[d] => dead'[d]
      BY <1>3, <2>2 DEF RefreshRejected
    <3>2. Waiters(c) # {} => dead'[c]
      BY <1>3, <2>2 DEF RefreshRejected
    <3>3. \A r \in Calls : IF r \in Waiters(c) THEN ClientOf[r] = c ELSE call'[r] = call[r]
      BY <2>2 DEF RefreshRejected, Resume, Waiters
    <3> QED
      BY <3>1, <3>2, <3>3 DEF DeniedMeansDead
  <2> QED
    BY <1>8, <2>1, <2>2 DEF RefreshSettles
<1>9. CASE Leave
  BY <1>9 DEF Leave, Load, DeniedMeansDead, Unused
<1>10. ASSUME NEW t \in Tokens, Expire(t) PROVE DeniedMeansDead'
  BY <1>1, <1>10 DEF Expire, clients
<1> QED
  BY <1>1, <1>4, <1>5, <1>6, <1>7, <1>8, <1>9, <1>10
  DEF Next, Responds, SessionLost, RenewedInTime, NoUserFound, Render, SignOut, AskToSignIn,
      Return, Exchange, vars, clients

\* A hook is told "unauthorized" only by a client that has given up for good.
THEOREM DeniedIsFinal == Spec => []DeniedMeansDead
<1>1. Init => DeniedMeansDead
  BY DEF Init, DeniedMeansDead, Unused
<1> QED
  BY <1>1, TypeCorrect, NextDenied, PTL DEF Spec

-----------------------------------------------------------------------------
(* The dead leave                                                          *)

LEMMA NextStarting == TypeOK /\ Starting /\ [Next]_vars => Starting'
<1> SUFFICES ASSUME TypeOK, Starting, [Next]_vars PROVE Starting'
  OBVIOUS
<1>1. ASSUME UNCHANGED <<user, shown, renewals, call>> PROVE Starting'
  BY <1>1 DEF Starting
<1>2. ASSUME ~user.loading, UNCHANGED user PROVE Starting'
  BY <1>2 DEF Starting
<1>3. user.token # NoToken => ~user.loading
  BY DEF Starting, Fresh
<1>4. ASSUME NEW r \in Calls, StartCall(r) \/ Responds(r) PROVE Starting'
  <2>1. shown.token # NoToken \/ call[r].step # "free"
    BY <1>4 DEF StartCall, Responds, Answered, Denied, DeniedAgain
  <2>2. ~user.loading
    BY <2>1 DEF Starting, Fresh, Unused
  <2> QED
    BY <1>2, <1>4, <2>2 DEF StartCall, Responds, Answered, Denied, DeniedAgain, auth
<1>5. ASSUME NEW c \in Clients, RefreshSettles(c) PROVE Starting'
  <2>1. renewals[c] > 0
    BY <1>5 DEF RefreshSettles, Refreshed, RefreshRejected, RefreshEnds
  <2>2. ~user.loading
    BY <2>1 DEF Starting
  <2>3. NewToken \/ UNCHANGED user
    BY <1>5 DEF RefreshSettles, Refreshed, RefreshRejected, auth
  <2> QED
    BY <1>2, <2>2, <2>3, Issuing DEF Starting
<1>6. CASE SessionLost
  BY <1>3, <1>6 DEF SessionLost, Starting, TypeOK, UserState
<1>7. CASE RenewedInTime
  BY <1>3, <1>7, Issuing DEF RenewedInTime, Starting
<1>8. CASE NoUserFound
  BY <1>8 DEF NoUserFound, Starting, TypeOK, UserState
<1>9. CASE Render
  <2>1. ~user.loading
    BY <1>9 DEF Render, Starting
  <2> QED
    BY <1>2, <1>9, <2>1 DEF Render, auth
<1>10. CASE Leave
  BY <1>10 DEF Leave, Load, Starting, Fresh
<1>11. CASE Exchange
  <2>1. CASE UNCHANGED <<auth, shown>>
    BY <1>1, <1>11, <2>1 DEF Exchange, auth, clients
  <2>2. CASE ~UNCHANGED <<auth, shown>>
    <3>1. user' = [token |-> issued + 1, terminal |-> FALSE, loading |-> FALSE]
      BY <1>11, <2>2 DEF Exchange
    <3> QED
      BY <3>1 DEF Starting
  <2> QED
    BY <2>1, <2>2
<1>12. ASSUME NEW t \in Tokens, Expire(t) PROVE Starting'
  BY <1>1, <1>12 DEF Expire, clients
<1> QED
  BY <1>1, <1>4, <1>5, <1>6, <1>7, <1>8, <1>9, <1>10, <1>11, <1>12
  DEF Next, SignOut, AskToSignIn, Return, vars, auth, clients

\* The client that has given up has asked, or the gate has.
Telling == DeadIsFired /\ FiredIsLeaving /\ TerminalIsAsked

LEMMA LeavingOn ==
    ASSUME TypeOK, signingOut => signingOut', Leaving,
           \A x \in Clients \cup {Gate} : redirects'[x] \in Nat /\ redirects'[x] >= redirects[x]
    PROVE  Leaving'
<1>1. CASE signingOut
  BY <1>1 DEF Leaving
<1>2. CASE \E x \in Clients \cup {Gate} : redirects[x] > 0
  <2>1. PICK x \in Clients \cup {Gate} : redirects[x] > 0
    BY <1>2
  <2>2. redirects[x] \in Nat /\ redirects'[x] \in Nat /\ redirects'[x] >= redirects[x]
    BY DEF TypeOK
  <2>3. redirects'[x] > 0
    BY <2>1, <2>2
  <2> QED
    BY <2>3 DEF Leaving
<1> QED
  BY <1>1, <1>2 DEF Leaving

LEMMA GivingUpTells ==
    ASSUME TypeOK, Telling, NEW c \in Clients, GiveUp(c), UNCHANGED <<signingOut, shown>>
    PROVE  Telling'
<1>1. \A x \in Clients \cup {Gate} : redirects[x] \in Nat
  BY DEF TypeOK
<1>2. \A x \in Clients \cup {Gate} : redirects'[x] \in Nat /\ redirects'[x] >= redirects[x]
  BY <1>1, GivingUp
<1>3. Leaving'
  <2>1. CASE fired[c]
    BY <1>2, <2>1, LeavingOn DEF Telling, FiredIsLeaving
  <2>2. CASE shown.terminal
    BY <1>2, <2>2, LeavingOn DEF Telling, TerminalIsAsked, Leaving
  <2>3. CASE ~(fired[c] \/ shown.terminal)
    <3>1. redirects'[c] > 0
      BY <1>1, <2>3, GivingUp
    <3> QED
      BY <3>1 DEF Leaving
  <2> QED
    BY <2>1, <2>2, <2>3
<1>4. DeadIsFired'
  BY GivingUp DEF Telling, DeadIsFired
<1>5. FiredIsLeaving'
  BY <1>3 DEF FiredIsLeaving
<1>6. TerminalIsAsked'
  <2>1. redirects[Gate] \in Nat /\ redirects'[Gate] \in Nat /\ redirects'[Gate] >= redirects[Gate]
    BY <1>1, <1>2
  <2> QED
    BY <2>1 DEF Telling, TerminalIsAsked
<1> QED
  BY <1>4, <1>5, <1>6 DEF Telling

LEMMA NextTelling == TypeOK /\ Starting /\ Telling /\ [Next]_vars => Telling'
<1> SUFFICES ASSUME TypeOK, Starting, Telling, [Next]_vars PROVE Telling'
  OBVIOUS
<1> USE ApiClientAssumption
<1>1. ASSUME UNCHANGED <<shown, signingOut, redirects, dead, fired>> PROVE Telling'
  BY <1>1 DEF Telling, DeadIsFired, FiredIsLeaving, TerminalIsAsked, Leaving
<1>2. ASSUME NEW r \in Calls, StartCall(r) \/ Responds(r) PROVE Telling'
  BY <1>1, <1>2, GivingUpTells
  DEF StartCall, Responds, Answered, Denied, DeniedAgain, clients
<1>3. ASSUME NEW c \in Clients, RefreshSettles(c) PROVE Telling'
  BY <1>1, <1>3, GivingUpTells DEF RefreshSettles, Refreshed, RefreshRejected, RefreshEnds
<1>4. CASE Render
  <2>1. \A x \in Clients \cup {Gate} : redirects[x] \in Nat
    BY DEF TypeOK
  <2>2. user.terminal => user.token = NoToken /\ ~user.loading
    BY DEF Starting, Fresh
  <2>3. \A x \in Clients \cup {Gate} : redirects'[x] \in Nat /\ redirects'[x] >= redirects[x]
    BY <1>4, <2>1 DEF Render, TypeOK
  <2>4. user.terminal => redirects'[Gate] > 0
    <3>1. redirects[Gate] = 0 => redirects' = [redirects EXCEPT ![Gate] = @ + 1]
          \/ ~(user.terminal)
      BY <1>4, <2>2 DEF Render
    <3> QED
      BY <2>1, <2>3, <3>1 DEF TypeOK
  <2>5. Leaving => Leaving'
    BY <1>4, <2>3, LeavingOn DEF Render
  <2> QED
    BY <1>4, <2>4, <2>5 DEF Render, Telling, DeadIsFired, FiredIsLeaving, TerminalIsAsked
<1>5. CASE SignOut
  <2>1. Leaving'
    BY <1>5 DEF SignOut, Leaving
  <2> QED
    BY <1>5, <2>1 DEF SignOut, clients, Telling, DeadIsFired, FiredIsLeaving, TerminalIsAsked
<1>6. CASE Leave
  BY <1>6 DEF Leave, Load, Fresh, Telling, DeadIsFired, FiredIsLeaving, TerminalIsAsked
<1>7. CASE Exchange
  <2>1. shown' = shown \/ ~shown'.terminal
    <3>1. user' = [token |-> issued + 1, terminal |-> FALSE, loading |-> FALSE] => ~user'.terminal
      OBVIOUS
    <3> QED
      BY <1>7, <3>1 DEF Exchange
  <2> QED
    BY <1>7, <2>1
    DEF Exchange, clients, Telling, DeadIsFired, FiredIsLeaving, TerminalIsAsked, Leaving
<1>8. ASSUME NEW t \in Tokens, Expire(t) PROVE Telling'
  BY <1>1, <1>8 DEF Expire, clients
<1> QED
  BY <1>1, <1>2, <1>3, <1>4, <1>5, <1>6, <1>7, <1>8
  DEF Next, SessionLost, RenewedInTime, NoUserFound, AskToSignIn, Return, vars, clients

\* A client that has given up never leaves its user on a dead page: somebody
\* has asked for the login page.
THEOREM DeadLeaves == Spec => []DeadIsLeaving
<1>1. Init => Starting /\ Telling
  BY DEF Init, Starting, Telling, DeadIsFired, FiredIsLeaving, TerminalIsAsked, Fresh
<1>2. Telling => DeadIsLeaving
  BY DEF Telling, DeadIsFired, FiredIsLeaving, DeadIsLeaving
<1> QED
  BY <1>1, <1>2, TypeCorrect, NextStarting, NextTelling, PTL DEF Spec

=============================================================================
