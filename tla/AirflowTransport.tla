--------------------------- MODULE AirflowTransport ---------------------------
(***************************************************************************)
(* One AirflowClient talking to an Airflow API: the HTTP retry loop of     *)
(* _request, the one token refresh of _authenticated_request and the       *)
(* login-token cache of _get_token.  A client is used by one thread (every *)
(* analysis opens its own), so the calls are sequential; what interleaves  *)
(* with them is the server, which may revoke a credential at any moment    *)
(* and answers every request as it likes.                                  *)
(*                                                                         *)
(* Bodies, URLs and delays are abstracted.  A credential is a number: 0 is *)
(* the configured one (basic, bearer, custom provider), n > 0 is the n-th  *)
(* token that /auth/token issued.                                          *)
(***************************************************************************)
EXTENDS Integers

CONSTANTS MaxRetries,   \* AirflowConfig.max_retries
          MaxCalls      \* bound: calls made through one client

\* __init__ refuses a negative max_retries.
ASSUME MaxRetriesAssumption == MaxRetries \in Nat
ASSUME MaxCallsAssumption == MaxCalls \in Nat

NoToken == -1
Configured == 0

\* "login" is auth_mode "token" without a custom provider (_uses_login_token).
Modes == {"login", "fixed"}

\* unavailable: a status of RETRYABLE_STATUS_CODES; unreachable: a RequestError,
\* which carries no status; refused: any other error status than 401; garbled: a
\* success whose body holds no token.
Transient == {"unavailable", "unreachable"}
Errors == Transient \cup {"unauthorized", "refused", "garbled"}

VARIABLES mode,         \* how the client authenticates
          token,        \* self._token
          phase,        \* where the client is: idle, authorize, login, request
          attempt,      \* loop variable of _request
          authAttempt,  \* loop variable of _authenticated_request
          carried,      \* credential of the current auth attempt
          result,       \* how the last call ended
          issued,       \* external: how many tokens /auth/token has issued
          live,         \* external: credentials the API accepts
          calls         \* calls begun

\* History variables: they guard nothing and only let properties speak of the
\* past.
VARIABLES sent,         \* API requests sent by the current call
          logins,       \* login requests sent by the current call
          rejected,     \* credentials answered 401 in the current call
          rejections,   \* API answers 401 in the client's life
          issuedBefore  \* tokens issued when the current call began

clientVars == <<mode, token, phase, attempt, authAttempt, carried, result, calls>>
serverVars == <<issued, live>>
history == <<sent, logins, rejected, rejections, issuedBefore>>
vars == <<clientVars, serverVars, history>>

Init == /\ mode \in Modes
        /\ token = NoToken
        /\ phase = "idle"
        /\ attempt = 0
        /\ authAttempt = 0
        /\ carried = NoToken
        /\ result = "none"
        /\ issued = 0
        /\ live = IF mode = "login" THEN {} ELSE {Configured}
        /\ calls = 0
        /\ sent = 0
        /\ logins = 0
        /\ rejected = {}
        /\ rejections = 0
        /\ issuedBefore = 0

-------------------------------------------------------------------------------
(* The pieces every request shares.                                        *)

\* Mutant of CanRetry: one attempt too many.
CanRetryPastBudget == attempt <= MaxRetries

\* _request tries again: the answer is transient and attempts are left.
CanRetry == attempt < MaxRetries

\* _request gives up on this answer and raises.
IsFinal(reply) == reply \in Transient => ~CanRetry

Return(reply) == /\ phase' = "idle"
                 /\ result' = reply

-------------------------------------------------------------------------------
(* _authenticated_request: entry and credential.                           *)

StartCall == /\ phase = "idle"
             /\ calls < MaxCalls
             /\ calls' = calls + 1
             /\ phase' = "authorize"
             /\ authAttempt' = 0
             /\ result' = "none"
             /\ sent' = 0
             /\ logins' = 0
             /\ rejected' = {}
             /\ issuedBefore' = issued
             /\ UNCHANGED <<mode, token, attempt, carried, rejections,
                            serverVars>>

\* request_auth() answers without a request: the provider holds a fixed
\* credential, or _get_token finds the cached token.
UseCredential == /\ phase = "authorize"
                 /\ mode = "login" => token # NoToken
                 /\ carried' = IF mode = "login" THEN token ELSE Configured
                 /\ phase' = "request"
                 /\ attempt' = 0
                 /\ UNCHANGED <<mode, token, authAttempt, result, calls,
                                serverVars, sent, logins, rejected, rejections,
                                issuedBefore>>

\* Mutant of NeedsLogin: the cached token is not looked at.
LoginEveryTime == mode = "login"

\* _get_token has no token to return.
NeedsLogin == mode = "login" /\ token = NoToken

\* _get_token finds no cached token and posts to /auth/token.
StartLogin == /\ phase = "authorize"
              /\ NeedsLogin
              /\ phase' = "login"
              /\ attempt' = 0
              /\ UNCHANGED <<mode, token, authAttempt, carried, result, calls,
                             serverVars, sent, logins, rejected, rejections,
                             issuedBefore>>

-------------------------------------------------------------------------------
(* _get_token: the login request.                                          *)

LoginRetry == /\ phase = "login"
              /\ CanRetry
              /\ attempt' = attempt + 1
              /\ logins' = logins + 1
              /\ UNCHANGED <<mode, token, phase, authAttempt, carried, result,
                             calls, serverVars, sent, rejected, rejections,
                             issuedBefore>>

LoginSucceeds == /\ phase = "login"
                 /\ issued' = issued + 1
                 /\ live' = live \cup {issued + 1}
                 /\ token' = issued + 1
                 /\ carried' = issued + 1
                 /\ phase' = "request"
                 /\ attempt' = 0
                 /\ logins' = logins + 1
                 /\ UNCHANGED <<mode, authAttempt, result, calls, sent,
                                rejected, rejections, issuedBefore>>

\* The error leaves request_auth(), outside the try of _authenticated_request:
\* a 401 on the login is not a reason to log in again.
LoginFails == /\ phase = "login"
              /\ \E reply \in Errors : /\ IsFinal(reply)
                                       /\ Return(reply)
              /\ logins' = logins + 1
              /\ UNCHANGED <<mode, token, attempt, authAttempt, carried, calls,
                             serverVars, sent, rejected, rejections,
                             issuedBefore>>

-------------------------------------------------------------------------------
(* _request: the API request.                                              *)

RequestRetry == /\ phase = "request"
                /\ CanRetry
                /\ attempt' = attempt + 1
                /\ sent' = sent + 1
                /\ UNCHANGED <<mode, token, phase, authAttempt, carried, result,
                               calls, serverVars, logins, rejected, rejections,
                               issuedBefore>>

RequestSucceeds == /\ phase = "request"
                   /\ carried \in live
                   /\ Return("ok")
                   /\ sent' = sent + 1
                   /\ UNCHANGED <<mode, token, attempt, authAttempt, carried,
                                  calls, serverVars, logins, rejected,
                                  rejections, issuedBefore>>

RequestFails == /\ phase = "request"
                /\ \E reply \in Transient \cup {"refused"} :
                     /\ IsFinal(reply)
                     /\ Return(reply)
                /\ sent' = sent + 1
                /\ UNCHANGED <<mode, token, attempt, authAttempt, carried,
                               calls, serverVars, logins, rejected, rejections,
                               issuedBefore>>

\* What every 401 from the API does, whoever handles it.
Unauthorized == /\ phase = "request"
                /\ carried \notin live
                /\ sent' = sent + 1
                /\ rejected' = rejected \cup {carried}
                /\ rejections' = rejections + 1
                /\ UNCHANGED <<mode, attempt, carried, calls, serverVars,
                               logins, issuedBefore>>

\* Mutants of MayRenew: a refusal is always reported; every refusal renews.
NeverRenew == FALSE
RenewAgain == mode = "login"

\* Only a token this client obtained by login is renewed, and only once.
MayRenew == mode = "login" /\ authAttempt = 0

\* Mutant of DropToken: the refused token stays in the cache.
KeepToken == UNCHANGED token

DropToken == token' = NoToken

RenewCredential == /\ Unauthorized
                   /\ MayRenew
                   /\ DropToken
                   /\ authAttempt' = authAttempt + 1
                   /\ phase' = "authorize"
                   /\ UNCHANGED result

\* The second refusal, or the refusal of a fixed credential, is reported; the
\* cached token stays.
CredentialRefused == /\ Unauthorized
                     /\ ~MayRenew
                     /\ Return("unauthorized")
                     /\ UNCHANGED <<token, authAttempt>>

-------------------------------------------------------------------------------
(* The server.                                                             *)

\* A token expires or a credential is revoked, at any moment.
Revoke == /\ \E c \in live : live' = live \ {c}
          /\ UNCHANGED <<clientVars, issued, history>>

ClientStep == \/ UseCredential
              \/ StartLogin
              \/ LoginRetry \/ LoginSucceeds \/ LoginFails
              \/ RequestRetry \/ RequestSucceeds \/ RequestFails
              \/ RenewCredential \/ CredentialRefused

Next == StartCall \/ ClientStep \/ Revoke

\* A call that has begun runs on: every request is answered or times out (the
\* connect and read timeouts are positive) and every delay is finite.
Spec == Init /\ [][Next]_vars /\ WF_vars(ClientStep)

-------------------------------------------------------------------------------
(* Properties.                                                             *)

\* The attempts one _request may make.
Budget == MaxRetries + 1

\* The state stays in its domain; attempt and authAttempt never pass the end of
\* their range(), so neither "loop exited unexpectedly" error can be raised.
TypeOK == /\ mode \in Modes
          /\ token \in Nat \cup {NoToken}
          /\ phase \in {"idle", "authorize", "login", "request"}
          /\ attempt \in 0..MaxRetries
          /\ authAttempt \in 0..1
          /\ carried \in Nat \cup {NoToken}
          /\ result \in Errors \cup {"none", "ok"}
          /\ issued \in Nat
          /\ live \subseteq 0..issued
          /\ calls \in 0..MaxCalls
          /\ sent \in Nat
          /\ logins \in Nat
          /\ rejected \subseteq 0..issued
          /\ rejections \in Nat
          /\ issuedBefore \in 0..issued

\* Across the two nested loops and the login nested in the outer one, a call
\* sends at most two budgets of API requests and two of login requests.
AttemptsBounded == sent <= 2 * Budget /\ logins <= 2 * Budget

\* A credential the API refused during a call is not sent again by that call:
\* the refresh really replaces the token, and a fixed credential is not retried.
RejectedNotResent == phase = "request" => carried \notin rejected

\* A login client reports 401 only if the login itself was refused or the API
\* refused a token issued during this very call: a cached token that went stale
\* between two calls never fails a call.
UnauthorizedIsGenuine ==
  (result = "unauthorized" /\ mode = "login") =>
    \/ token = NoToken
    \/ \E t \in rejected : t > issuedBefore

\* The token cache spares logins: after the first, every token was issued
\* because the API refused one, over all the calls of the client.
LoginsAreEarned == issued <= rejections + 1

\* The transport is an AuthorizedCall: retries and the login's own attempts are
\* stutters, the refresh is its one renewal, and every call ends.
Call == INSTANCE AuthorizedCall WITH
          stage <- CASE phase = "idle" -> "idle"
                     [] phase \in {"authorize", "login"} -> "acquire"
                     [] phase = "request" -> "use",
          renewed <- authAttempt = 1,
          outcome <- result

ImplementsAuthorizedCall == Call!Spec
===============================================================================
