-------------------------------- MODULE Client --------------------------------
(***************************************************************************)
(* A client from its construction to the answer of a call: the credentials  *)
(* it has from its options and the environment (workos.ts, factory.ts,      *)
(* env.ts), what each method requires before it sends anything, the         *)
(* credentials an exchange carries (user-management.ts, sso.ts), and the    *)
(* exception a failure becomes (ApiErrors).                                 *)
(***************************************************************************)
EXTENDS ApiErrors, Operations

CONSTANT Probed         \* names of the methods whose failures are all tried

(* Exchanges of `userManagement` that send the API key as client_secret and *)
(* leave the check for it to the request.                                   *)
SignIn ==
    Sent("userManagement", "POST", {"authenticateWithMagicAuth", "authenticateWithPassword"})
SecondStep ==
    Sent("userManagement", "POST",
         {"authenticateWithTotp", "authenticateWithEmailVerification",
          "authenticateWithOrganizationSelection", "authenticateWithRadarSmsChallenge",
          "authenticateWithRadarEmailChallenge"})
SecretExchange == SignIn \cup SecondStep

SendRadarSmsChallenge == Sent("userManagement", "POST", {"sendRadarSmsChallenge"})
CodeExchange == Sent("userManagement", "POST", {"authenticateWithCode"})
VerifierExchange == Sent("userManagement", "POST", {"authenticateWithCodeAndVerifier"})
RefreshExchange == Sent("userManagement", "POST", {"authenticateWithRefreshToken"})
ProfileExchange == Sent("sso", "POST", {"getProfileAndToken"})

UserExchange == SecretExchange \cup CodeExchange \cup VerifierExchange \cup RefreshExchange
Operation == ApiOperation \cup SendRadarSmsChallenge \cup UserExchange \cup ProfileExchange

(* What an exchange is given: a clientId of its own, a code verifier        *)
(* ("empty" is the empty or blank string), and whether the answer is to be  *)
(* sealed.  Other methods have none of it.                                  *)
NoArguments == [clientId |-> FALSE, verifier |-> "none", seal |-> FALSE]
Arguments(operation) ==
    IF operation \in UserExchange
    THEN [clientId : BOOLEAN, seal : BOOLEAN,
          verifier : IF operation \in CodeExchange THEN {"none", "empty", "given"}
                     ELSE IF operation \in VerifierExchange THEN {"empty", "given"} ELSE {"none"}]
    ELSE IF operation \in ProfileExchange
    THEN [clientId : {TRUE}, seal : {FALSE}, verifier : {"none", "empty", "given"}]
    ELSE {NoArguments}

VARIABLES
    environment,    \* whether WORKOS_API_KEY and WORKOS_CLIENT_ID are set
    client,         \* how it was made and what it is configured with
    call,           \* the method called and its arguments
    pc,             \* "new", "ready", "sent", "resolved", "rejected", "refused"
    request,        \* the credentials of the request on the wire
    failure,        \* what the transport threw
    exception,      \* what the call rejects with
    reason          \* the advice of CookieSession.refresh on it

vars == <<environment, client, call, pc, request, failure, exception, reason>>

Source == {"options", "environment", NoValue}
NoClient == [via |-> "none", key |-> NoValue, clientId |-> NoValue, ofUsers |-> NoValue,
             options |-> [key |-> FALSE, clientId |-> FALSE]]
NoCall == [operation |-> NoValue, arguments |-> NoArguments]
NoRequest == [verb |-> "none", bearer |-> FALSE, secret |-> FALSE, verifier |-> FALSE]
NoFailure == [Unreachable EXCEPT !.type = "none"]
NoException == Plain("none", NoValue)

Init ==
    /\ environment \in [key : BOOLEAN, clientId : BOOLEAN]
    /\ client = NoClient /\ call = NoCall /\ pc = "new"
    /\ request = NoRequest /\ failure = NoFailure
    /\ exception = NoException /\ reason = NoValue

-----------------------------------------------------------------------------
(* Construction *)

(* `getEnv` for what the options leave out. *)
FromOptionsOrEnv(given, set) ==
    IF given THEN "options" ELSE IF set THEN "environment" ELSE NoValue

(* The WorkOS constructor; `userManagement` reads its clientId from the     *)
(* options alone.                                                           *)
Construct(via, options) ==
    /\ pc = "new"
    /\ LET key == FromOptionsOrEnv(options.key, environment.key)
           clientId == FromOptionsOrEnv(options.clientId, environment.clientId)
       IN /\ client' = [via |-> via, key |-> key, clientId |-> clientId, options |-> options,
                        ofUsers |-> IF options.clientId THEN "options" ELSE NoValue]
          /\ pc' = IF key = NoValue /\ clientId = NoValue THEN "refused" ELSE "ready"
    /\ UNCHANGED <<environment, call, request, failure, exception, reason>>

(* createWorkOS takes a clientId without an API key, or an API key. *)
CreateWorkOS(options) == (options.key \/ options.clientId) /\ Construct("createWorkOS", options)

-----------------------------------------------------------------------------
(* A call, up to the request it sends *)

Throws(name) ==
    /\ pc' = "rejected" /\ exception' = Plain(name, NoValue)
    /\ UNCHANGED <<request, failure>>

(* resolveClientId *)
ClientIdMissing(c) ==
    c.operation \in UserExchange /\ ~c.arguments.clientId /\ client.ofUsers = NoValue

(* Mutant: a code without a verifier is sent by a client without a key. *)
ProofMissingEmptyOnly(c) ==
    c.operation \in CodeExchange \cup ProfileExchange /\ c.arguments.verifier = "empty"

(* An empty verifier, or neither a verifier nor an API key. *)
ProofMissing(c) ==
    /\ c.operation \in CodeExchange \cup ProfileExchange
    /\ \/ c.arguments.verifier = "empty"
       \/ c.arguments.verifier = "none" /\ client.key = NoValue

(* The skipApiKeyCheck option of the request methods. *)
SkipsApiKeyCheck(c) ==
    \/ c.operation \in CodeExchange \cup RefreshExchange \cup ProfileExchange
          /\ client.key = NoValue
    \/ c.operation \in VerifierExchange

(* Mutant: the check is left out of the deletes. *)
ApiKeyMissingButDelete(c) ==
    /\ client.key = NoValue /\ ~SkipsApiKeyCheck(c)
    /\ c.operation.verb \notin {"DELETE", "DELETE with body"}

(* requireApiKey, at the head of each of the six request methods. *)
ApiKeyMissing(c) == client.key = NoValue /\ ~SkipsApiKeyCheck(c)

(* The client_secret of an exchange. *)
SendsSecret(c) ==
    c.operation \in SecretExchange \cup CodeExchange \cup RefreshExchange \cup ProfileExchange
        /\ client.key # NoValue

Call(operation, arguments) ==
    /\ pc = "ready"
    /\ LET c == [operation |-> operation, arguments |-> arguments]
       IN /\ call' = c
          /\ \/ (ClientIdMissing(c) \/ ProofMissing(c)) /\ Throws("TypeError")
             \/ /\ ~ClientIdMissing(c) /\ ~ProofMissing(c) /\ ApiKeyMissing(c)
                /\ Throws("ApiKeyRequiredException")
             \/ /\ ~ClientIdMissing(c) /\ ~ProofMissing(c) /\ ~ApiKeyMissing(c)
                /\ pc' = "sent"
                /\ request' = [verb |-> operation.verb, bearer |-> client.key # NoValue,
                               secret |-> SendsSecret(c),
                               verifier |-> arguments.verifier = "given"]
                /\ UNCHANGED <<failure, exception>>
    /\ UNCHANGED <<environment, client, reason>>

-----------------------------------------------------------------------------
(* Its answer *)

(* The request succeeded; prepareAuthenticationResponse seals the session  *)
(* or, without an API key, throws when it was asked to.                     *)
Answer ==
    /\ pc = "sent"
    /\ IF call.arguments.seal /\ client.key = NoValue
       THEN Throws("Error")
       ELSE pc' = "resolved" /\ UNCHANGED <<request, failure, exception>>
    /\ UNCHANGED <<environment, client, call, reason>>

(* Mutant: handleHttpError returns its exception instead of throwing it.    *)
FailReturned(f) ==
    /\ pc = "sent"
    /\ f = Unreachable \/ call.operation.name \in Probed
    /\ failure' = f
    /\ pc' = "resolved" /\ exception' = HandleHttpError(f)
    /\ UNCHANGED <<environment, client, call, request, reason>>

(* The transport threw; handleHttpError makes an exception of it. *)
Fail(f) ==
    /\ pc = "sent"
    /\ f = Unreachable \/ call.operation.name \in Probed
    /\ failure' = f
    /\ pc' = "rejected" /\ exception' = HandleHttpError(f)
    /\ UNCHANGED <<environment, client, call, request, reason>>

(* CookieSession.refresh, whose exchange this was, decides what to return.  *)
SessionRefresh ==
    /\ pc = "rejected" /\ reason = NoValue
    /\ call.operation \in RefreshExchange
    /\ reason' = RefreshReason(exception)
    /\ UNCHANGED <<environment, client, call, pc, request, failure, exception>>

Settled ==
    /\ pc \in {"resolved", "rejected", "refused"}
    /\ UNCHANGED vars

Next ==
    \/ \E options \in [key : BOOLEAN, clientId : BOOLEAN] :
          Construct("constructor", options) \/ CreateWorkOS(options)
    \/ \E operation \in Operation : \E arguments \in Arguments(operation) :
          Call(operation, arguments)
    \/ Answer \/ \E f \in Failure : Fail(f)
    \/ SessionRefresh
    \/ Settled

Spec == Init /\ [][Next]_vars

-----------------------------------------------------------------------------

(* A call has a client, a request the verb of its method, and a call throws *)
(* exactly when it rejects.                                                 *)
TypeOK ==
    /\ environment \in [key : BOOLEAN, clientId : BOOLEAN]
    /\ client.via \in {"none", "constructor", "createWorkOS"}
    /\ {client.key, client.clientId, client.ofUsers} \subseteq Source
    /\ call # NoCall =>
          call.operation \in Operation /\ call.arguments \in Arguments(call.operation)
    /\ pc \in {"new", "ready", "sent", "resolved", "rejected", "refused"}
    /\ pc \in {"sent", "resolved"} => request.verb = call.operation.verb
    /\ failure \in Failure \cup {NoFailure}
    /\ (pc = "rejected") = (exception # NoException)
    /\ reason \in TerminalReason \cup RetryableReason \cup {"thrown", NoValue}

(* The methods factory.ts:12 and :24 list as available without an API key,  *)
(* those that send a request.                                               *)
PublicOperation == CodeExchange \cup VerifierExchange \cup RefreshExchange \cup ProfileExchange

(* A client without an API key reaches the API through the public methods   *)
(* and no other, and none of those asks it for a key.                       *)
PublicSurface ==
    client.key = NoValue =>
        /\ request # NoRequest => call.operation \in PublicOperation
        /\ exception.name = "ApiKeyRequiredException" => call.operation \notin PublicOperation

(* A request that exchanges an authorization code proves who exchanges it,  *)
(* by the client's secret or by the code verifier, except when              *)
(* authenticateWithCodeAndVerifier was given an empty verifier: alone of    *)
(* the three it does not look at it (user-management.ts:406, sso.ts:238),   *)
(* and it never sends the secret, though user-management.ts:445 says that   *)
(* it exchanges the code "using PKCE".                                      *)
CodeIsProved ==
    request # NoRequest /\ call.operation \in CodeExchange \cup VerifierExchange \cup ProfileExchange
        => (request.secret \/ request.verifier
              <=> ~(call.operation \in VerifierExchange /\ call.arguments.verifier = "empty"))

HasBody(f) == f.type = "HttpClientError" /\ ~f.data.null
JsonFailure == HasBody(failure)
Advised == reason # NoValue /\ failure # NoFailure

TransientStatus(status) == status \in {408, 429} \/ status >= 500
Transient(f) == f.type = "TypeError" \/ TransientStatus(f.status)

(* An answer `default` takes for a refused request, whatever its status.    *)
ValidationData(data) == data.code # NoValue /\ data.errors

(* The two wraps that lose the status of an answer: that of a body which is *)
(* not JSON, and that of a code with a list of errors, when no other        *)
(* description of the error comes first and the status has no exception of  *)
(* its own.                                                                 *)
LosesStatus(f) ==
    \/ f.type = "ParseError"
    \/ /\ HasBody(f) /\ f.status # 429 /\ ValidationData(f.data)
       /\ GetAuthenticationErrorCode(f.data) = NoValue
       /\ f.data.error = NoValue /\ ~f.data.error_description

(* A refresh that met a transient failure, an unreachable API, a 408, a 429 *)
(* or a 5xx, tells the caller to keep the session or that the API ended it  *)
(* if and only if the exception kept the status: on no other answer, and on *)
(* every one of the two wraps that lose it, the failure is rethrown as      *)
(* final.  session.ts:311 says "Classify by HTTP status regardless of which *)
(* exception wraps it", which these two wraps escape.                       *)
TransientIsRetryable ==
    Advised /\ Transient(failure)
        => (reason \in RetryableReason \cup TerminalReason <=> ~LosesStatus(failure))

(* An answer of the API whose status refuses the request is presented as    *)
(* worth a retry if and only if its body is the JSON value null: reading    *)
(* the fields of null throws the TypeError that stands for an unreachable   *)
(* API (workos.ts:409, session.ts:371), though session.ts:343 says that     *)
(* "Network-level failures" are what surfaces as one.                       *)
RefusalIsFinal ==
    Advised /\ failure.type \in {"HttpClientError", "ParseError"} /\ ~TransientStatus(failure.status)
        => (reason \in RetryableReason <=> failure.type = "HttpClientError" /\ failure.data.null)

(* The session is declared over exactly when the API says so in one of the  *)
(* fields it may use, and no status with a meaning of its own hides it.     *)
TerminalMeansTold ==
    LET data == failure.data
        told == \/ GetAuthenticationErrorCode(data) \in {"mfa_enrollment", "sso_required"}
                \/ /\ GetAuthenticationErrorCode(data) = NoValue
                   /\ data.error = "invalid_grant"
    IN Advised =>
         (reason \in TerminalReason
            <=> JsonFailure /\ told /\ failure.status \notin {401, 404, 409, 422, 429})

(* workos.spec.ts:279 expects the X-Request-ID of the answer in the         *)
(* exception.                                                               *)
RequestIdReported ==
    pc = "rejected" /\ request # NoRequest /\ JsonFailure /\ failure.requestId
        => exception.requestId

(* "Unlike the WorkOS constructor, this factory does NOT read from          *)
(* environment variables" (factory.ts:79): a client it makes has the        *)
(* credentials it was given and no others.                                  *)
FactoryIgnoresEnvironment ==
    client.via = "createWorkOS" => "environment" \notin {client.key, client.clientId}
=============================================================================
