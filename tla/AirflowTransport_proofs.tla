------------------------ MODULE AirflowTransport_proofs ------------------------
(***************************************************************************)
(* Proofs about AirflowTransport, for every MaxRetries and MaxCalls.  None *)
(* of the properties is inductive by itself: what a call may still send    *)
(* depends on which auth attempt it is in, and what it may carry on where  *)
(* its token came from.  IInv says both, phase by phase.                   *)
(***************************************************************************)
EXTENDS AirflowTransport, TLAPS

\* The budget earlier auth attempts of the call have used up.
Allowance == IF authAttempt = 0 THEN 0 ELSE Budget

\* The requests sent and the logins posted so far, counted against the budgets
\* of the loops the call is in.
Counting ==
  /\ phase = "authorize" => sent <= Allowance /\ logins <= Allowance
  /\ phase = "login" => /\ sent <= Allowance
                        /\ logins <= Allowance + attempt
  /\ phase = "request" => /\ sent <= Allowance + attempt
                          /\ logins <= Allowance + Budget
  /\ AttemptsBounded
  /\ phase # "idle" => result = "none"

\* Where the token and the carried credential come from.  In the second auth
\* attempt of a call the cache was emptied, so the credential is a new token.
Provenance ==
  /\ token \in {NoToken} \cup 0..issued
  /\ phase = "request" => carried \in 0..issued /\ carried \notin rejected
  /\ phase = "login" => token = NoToken
  /\ phase # "idle" /\ authAttempt = 0 => rejected = {}
  /\ phase = "authorize" /\ authAttempt = 1 => mode = "login" /\ token = NoToken
  /\ phase = "request" /\ authAttempt = 1 => carried > issuedBefore
  /\ UnauthorizedIsGenuine

\* Every token issued beyond the cached one was refused.
Earned == issued <= IF token = NoToken THEN rejections ELSE rejections + 1

IInv == TypeOK /\ Counting /\ Provenance /\ Earned

\* The bounds of the loops are those of Python's range(): a budget is positive.
LEMMA BudgetPositive == Budget \in Nat /\ Budget = MaxRetries + 1 /\ Budget > 0
  BY MaxRetriesAssumption DEF Budget

\* A new client satisfies the invariant.
LEMMA InitIInv == Init => IInv
  <1> SUFFICES ASSUME Init PROVE IInv
    OBVIOUS
  <1> USE BudgetPositive, MaxRetriesAssumption, MaxCallsAssumption DEF Init, Modes, NoToken, Configured
  <1>1. TypeOK
    BY DEF TypeOK, Errors, Transient
  <1>2. Counting
    BY DEF Counting, Allowance, AttemptsBounded, Transient
  <1>3. Provenance /\ Earned
    BY DEF Provenance, Earned, UnauthorizedIsGenuine
  <1> QED
    BY <1>1, <1>2, <1>3 DEF IInv

\* Every step of the client or of the server preserves the invariant.
LEMMA StepIInv == IInv /\ [Next]_vars => IInv'
  <1> SUFFICES ASSUME IInv, [Next]_vars PROVE IInv'
    OBVIOUS
  <1> USE BudgetPositive, MaxRetriesAssumption, MaxCallsAssumption
      DEF IInv, Modes, NoToken, Configured
  <1>1. CASE StartCall
    <2>1. TypeOK'
      BY <1>1 DEF Counting, Provenance, TypeOK, Errors, Transient, StartCall, serverVars
    <2>2. Counting'
      BY <1>1 DEF Counting, Allowance, AttemptsBounded, Errors, Transient, TypeOK, StartCall, serverVars
    <2>3. Provenance' /\ Earned'
      BY <1>1 DEF Provenance, UnauthorizedIsGenuine, Earned, TypeOK, Counting, Errors, Transient, StartCall, serverVars
    <2> QED
      BY <2>1, <2>2, <2>3
  <1>2. CASE UseCredential
    <2>1. TypeOK'
      BY <1>2 DEF Counting, Provenance, TypeOK, Errors, Transient, UseCredential, serverVars
    <2>2. Counting'
      BY <1>2 DEF Counting, Allowance, AttemptsBounded, Errors, Transient, TypeOK, UseCredential, serverVars
    <2>3. Provenance' /\ Earned'
      BY <1>2 DEF Provenance, UnauthorizedIsGenuine, Earned, TypeOK, Counting, Errors, Transient, UseCredential, serverVars
    <2> QED
      BY <2>1, <2>2, <2>3
  <1>3. CASE StartLogin
    <2>1. TypeOK'
      BY <1>3 DEF Counting, Provenance, TypeOK, Errors, Transient, StartLogin, NeedsLogin, serverVars
    <2>2. Counting'
      BY <1>3 DEF Counting, Allowance, AttemptsBounded, Errors, Transient, TypeOK, StartLogin, NeedsLogin, serverVars
    <2>3. Provenance' /\ Earned'
      BY <1>3 DEF Provenance, UnauthorizedIsGenuine, Earned, TypeOK, Counting, Errors, Transient, StartLogin, NeedsLogin, serverVars
    <2> QED
      BY <2>1, <2>2, <2>3
  <1>4. CASE LoginRetry
    <2>1. TypeOK'
      BY <1>4 DEF Counting, Provenance, TypeOK, Errors, Transient, LoginRetry, CanRetry, serverVars
    <2>2. Counting'
      BY <1>4 DEF Counting, Allowance, AttemptsBounded, Errors, Transient, TypeOK, LoginRetry, CanRetry, serverVars
    <2>3. Provenance' /\ Earned'
      BY <1>4 DEF Provenance, UnauthorizedIsGenuine, Earned, TypeOK, Counting, Errors, Transient, LoginRetry, CanRetry, serverVars
    <2> QED
      BY <2>1, <2>2, <2>3
  <1>5. CASE LoginSucceeds
    <2>1. TypeOK'
      BY <1>5 DEF Counting, Provenance, TypeOK, Errors, Transient, LoginSucceeds, serverVars
    <2>2. Counting'
      BY <1>5 DEF Counting, Allowance, AttemptsBounded, Errors, Transient, TypeOK, LoginSucceeds, serverVars
    <2>3. Provenance' /\ Earned'
      BY <1>5 DEF Provenance, UnauthorizedIsGenuine, Earned, TypeOK, Counting, Errors, Transient, LoginSucceeds, serverVars
    <2> QED
      BY <2>1, <2>2, <2>3
  <1>6. CASE LoginFails
    <2>1. TypeOK'
      BY <1>6 DEF Counting, Provenance, TypeOK, Errors, Transient, LoginFails, CanRetry, IsFinal, Return, serverVars
    <2>2. Counting'
      BY <1>6 DEF Counting, Allowance, AttemptsBounded, Errors, Transient, TypeOK, LoginFails, CanRetry, IsFinal, Return, serverVars
    <2>3. Provenance' /\ Earned'
      BY <1>6 DEF Provenance, UnauthorizedIsGenuine, Earned, TypeOK, Counting, Errors, Transient, LoginFails, CanRetry, IsFinal, Return, serverVars
    <2> QED
      BY <2>1, <2>2, <2>3
  <1>7. CASE RequestRetry
    <2>1. TypeOK'
      BY <1>7 DEF Counting, Provenance, TypeOK, Errors, Transient, RequestRetry, CanRetry, serverVars
    <2>2. Counting'
      BY <1>7 DEF Counting, Allowance, AttemptsBounded, Errors, Transient, TypeOK, RequestRetry, CanRetry, serverVars
    <2>3. Provenance' /\ Earned'
      BY <1>7 DEF Provenance, UnauthorizedIsGenuine, Earned, TypeOK, Counting, Errors, Transient, RequestRetry, CanRetry, serverVars
    <2> QED
      BY <2>1, <2>2, <2>3
  <1>8. CASE RequestSucceeds
    <2>1. TypeOK'
      BY <1>8 DEF Counting, Provenance, TypeOK, Errors, Transient, RequestSucceeds, Return, serverVars
    <2>2. Counting'
      BY <1>8 DEF Counting, Allowance, AttemptsBounded, Errors, Transient, TypeOK, RequestSucceeds, Return, serverVars
    <2>3. Provenance' /\ Earned'
      BY <1>8 DEF Provenance, UnauthorizedIsGenuine, Earned, TypeOK, Counting, Errors, Transient, RequestSucceeds, Return, serverVars
    <2> QED
      BY <2>1, <2>2, <2>3
  <1>9. CASE RequestFails
    <2>1. TypeOK'
      BY <1>9 DEF Counting, Provenance, TypeOK, Errors, Transient, RequestFails, CanRetry, IsFinal, Return, serverVars
    <2>2. Counting'
      BY <1>9 DEF Counting, Allowance, AttemptsBounded, Errors, Transient, TypeOK, RequestFails, CanRetry, IsFinal, Return, serverVars
    <2>3. Provenance' /\ Earned'
      BY <1>9 DEF Provenance, UnauthorizedIsGenuine, Earned, TypeOK, Counting, Errors, Transient, RequestFails, CanRetry, IsFinal, Return, serverVars
    <2> QED
      BY <2>1, <2>2, <2>3
  <1>10. CASE RenewCredential
    <2>1. TypeOK'
      BY <1>10 DEF Counting, Provenance, TypeOK, Errors, Transient, RenewCredential, Unauthorized, MayRenew, DropToken, serverVars
    <2>2. Counting'
      BY <1>10 DEF Counting, Allowance, AttemptsBounded, Errors, Transient, TypeOK, RenewCredential, Unauthorized, MayRenew, DropToken, serverVars
    <2>3. Provenance' /\ Earned'
      BY <1>10 DEF Provenance, UnauthorizedIsGenuine, Earned, TypeOK, Counting, Errors, Transient, RenewCredential, Unauthorized, MayRenew, DropToken, serverVars
    <2> QED
      BY <2>1, <2>2, <2>3
  <1>11. CASE CredentialRefused
    <2>1. TypeOK'
      BY <1>11 DEF Counting, Provenance, TypeOK, Errors, Transient, CredentialRefused, Unauthorized, MayRenew, Return, serverVars
    <2>2. Counting'
      BY <1>11 DEF Counting, Allowance, AttemptsBounded, Errors, Transient, TypeOK, CredentialRefused, Unauthorized, MayRenew, Return, serverVars
    <2>3. Provenance' /\ Earned'
      BY <1>11 DEF Provenance, UnauthorizedIsGenuine, Earned, TypeOK, Counting, Errors, Transient, CredentialRefused, Unauthorized, MayRenew, Return, serverVars
    <2> QED
      BY <2>1, <2>2, <2>3
  <1>12. CASE Revoke
    <2>1. TypeOK'
      BY <1>12 DEF Counting, Provenance, TypeOK, Errors, Transient, Revoke, clientVars, history, serverVars
    <2>2. Counting'
      BY <1>12 DEF Counting, Allowance, AttemptsBounded, Errors, Transient, TypeOK, Revoke, clientVars, history, serverVars
    <2>3. Provenance' /\ Earned'
      BY <1>12 DEF Provenance, UnauthorizedIsGenuine, Earned, TypeOK, Counting, Errors, Transient, Revoke, clientVars, history, serverVars
    <2> QED
      BY <2>1, <2>2, <2>3
  <1>13. CASE UNCHANGED vars
    BY <1>13 DEF vars, clientVars, serverVars, history, TypeOK, Counting, Allowance,
       AttemptsBounded, Provenance, UnauthorizedIsGenuine, Earned
  <1> QED
    BY <1>1, <1>2, <1>3, <1>4, <1>5, <1>6, <1>7, <1>8, <1>9, <1>10, <1>11, <1>12, <1>13
       DEF Next, ClientStep

-------------------------------------------------------------------------------

\* The invariant holds for ever; every safety theorem below follows from it.
LEMMA AlwaysIInv == Spec => []IInv
  BY InitIInv, StepIInv, PTL DEF Spec

\* The loop variables stay inside their range(): neither "loop exited
\* unexpectedly" error of the client can be raised, whatever max_retries is.
THEOREM TypeCorrect == Spec => []TypeOK
  <1>1. IInv => TypeOK
    BY DEF IInv
  <1> QED
    BY AlwaysIInv, <1>1, PTL

\* A call sends at most two budgets of API requests and two of login requests,
\* for every max_retries.
THEOREM AttemptsAreBounded == Spec => []AttemptsBounded
  <1>1. IInv => AttemptsBounded
    BY DEF IInv, Counting
  <1> QED
    BY AlwaysIInv, <1>1, PTL

\* A call never sends again a credential that was refused during it.
THEOREM RejectedIsNotResent == Spec => []RejectedNotResent
  <1>1. IInv => RejectedNotResent
    BY DEF IInv, Provenance, RejectedNotResent
  <1> QED
    BY AlwaysIInv, <1>1, PTL

\* A login client reports 401 only for a refused login or for a token obtained
\* during the failing call.
THEOREM UnauthorizedIsReported == Spec => []UnauthorizedIsGenuine
  <1>1. IInv => UnauthorizedIsGenuine
    BY DEF IInv, Provenance
  <1> QED
    BY AlwaysIInv, <1>1, PTL

\* However many calls a client makes, it logs in once plus once for each 401.
THEOREM EveryLoginIsEarned == Spec => []LoginsAreEarned
  <1>1. IInv => LoginsAreEarned
    BY DEF IInv, TypeOK, Earned, LoginsAreEarned
  <1> QED
    BY AlwaysIInv, <1>1, PTL

-------------------------------------------------------------------------------
(* The safety part of the refinement.                                      *)

\* A new client is an idle AuthorizedCall.
LEMMA InitRefines == Init => Call!Init
  BY DEF Init, Call!Init

\* Every step of the transport is a step of AuthorizedCall or a stutter: the
\* retries and the login's own attempts are invisible, and a call renews its
\* credential only if it has not yet done so.
LEMMA StepRefines == IInv /\ [Next]_vars => [Call!Next]_(Call!vars)
  <1> SUFFICES ASSUME IInv, [Next]_vars PROVE [Call!Next]_(Call!vars)
    OBVIOUS
  <1> USE DEF Call!vars, Call!Next, IInv, TypeOK
  <1>1. CASE StartCall
    BY <1>1 DEF StartCall, Call!Begin
  <1>2. CASE UseCredential
    BY <1>2 DEF UseCredential, Call!Acquire
  <1>3. CASE StartLogin \/ LoginRetry \/ RequestRetry
    BY <1>3 DEF StartLogin, LoginRetry, RequestRetry
  <1>4. CASE LoginSucceeds
    BY <1>4 DEF LoginSucceeds, Call!Acquire
  <1>5. CASE LoginFails
    BY <1>5 DEF LoginFails, Return, Call!Fail
  <1>6. CASE RequestSucceeds
    BY <1>6 DEF RequestSucceeds, Return, Call!Serve
  <1>7. CASE RequestFails
    BY <1>7 DEF RequestFails, Return, Errors, Call!Fail
  <1>8. CASE RenewCredential
    BY <1>8 DEF RenewCredential, Unauthorized, MayRenew, Call!Renew
  <1>9. CASE CredentialRefused
    BY <1>9 DEF CredentialRefused, Unauthorized, Return, Errors, Call!Fail
  <1>10. CASE Revoke \/ UNCHANGED vars
    BY <1>10 DEF Revoke, vars, clientVars
  <1> QED
    BY <1>1, <1>2, <1>3, <1>4, <1>5, <1>6, <1>7, <1>8, <1>9, <1>10
       DEF Next, ClientStep

\* The transport implements AuthorizedCall, its fairness apart: what the callers
\* of _authenticated_request see of retries, logins and revoked tokens is one
\* acquire, one use and at most one renewal.
THEOREM TransportRefinesCall == Spec => Call!Init /\ [][Call!Next]_(Call!vars)
  BY InitRefines, StepRefines, AlwaysIInv, PTL DEF Spec
================================================================================
