---------------------------- MODULE ClientProofs ----------------------------
(***************************************************************************)
(* A client for every environment, every options, every value of the        *)
(* constants: without an API key it sends the public methods only, a code   *)
(* is exchanged unproved in one case and no other, and the advice of a      *)
(* failed refresh is the one the API gave but for the answers named.        *)
(***************************************************************************)
EXTENDS Client, TLAPS

CodeOperation == CodeExchange \cup VerifierExchange \cup ProfileExchange

(* Nothing is on the wire before a call, and one that is on the wire passed *)
(* the checks of its method.                                                *)
NothingSentYet ==
    pc \in {"new", "ready", "refused"} => request = NoRequest /\ exception = NoException
SentIsPublic == pc = "sent" /\ client.key = NoValue => call.operation \in PublicOperation
SurfaceInv == NothingSentYet /\ SentIsPublic /\ PublicSurface

-----------------------------------------------------------------------------

(* An exception made of a failure never says that a key is required: that   *)
(* one comes from the check alone.                                          *)
LEMMA FailureNeedsNoKey ==
    ASSUME NEW f
    PROVE HandleHttpError(f).name # "ApiKeyRequiredException"
<1>1. DefaultException(f).name # "ApiKeyRequiredException"
    BY DEF DefaultException, Exception
<1>. QED
    BY <1>1 DEF HandleHttpError, Plain, Exception

(* Among the checks of the six request methods, the option that skips them  *)
(* is given by the public methods alone, and by each on a client without a  *)
(* key.                                                                     *)
LEMMA SkippedByPublicOnly ==
    ASSUME NEW c, client.key = NoValue
    PROVE SkipsApiKeyCheck(c) <=> c.operation \in PublicOperation
BY DEF SkipsApiKeyCheck, PublicOperation

(* What a code exchange is given: its verifier is absent, empty or there,   *)
(* and authenticateWithCodeAndVerifier has one, that may be empty.          *)
LEMMA VerifierOfCode ==
    ASSUME NEW operation \in CodeOperation, NEW arguments \in Arguments(operation)
    PROVE /\ arguments.verifier \in {"none", "empty", "given"}
          /\ operation \in VerifierExchange => arguments.verifier \in {"empty", "given"}
<1>1. CASE operation \in CodeExchange
    <2>1. operation \in UserExchange /\ operation \notin VerifierExchange
        BY <1>1 DEF CodeExchange, VerifierExchange, UserExchange, Sent
    <2>. QED
        BY <1>1, <2>1 DEF Arguments
<1>2. CASE operation \in VerifierExchange
    <2>1. operation \in UserExchange /\ operation \notin CodeExchange
        BY <1>2 DEF CodeExchange, VerifierExchange, UserExchange, Sent
    <2>. QED
        BY <1>2, <2>1 DEF Arguments
<1>3. CASE operation \in ProfileExchange
    <2>1. operation \notin UserExchange
        BY <1>3 DEF ProfileExchange, UserExchange, CodeExchange, VerifierExchange,
            RefreshExchange, SecretExchange, SignIn, SecondStep, Sent
    <2>2. operation \notin VerifierExchange
        BY <2>1 DEF UserExchange
    <2>. QED
        BY <1>3, <2>1, <2>2 DEF Arguments
<1>. QED
    BY <1>1, <1>2, <1>3 DEF CodeOperation

(* authenticateWithCodeAndVerifier is none of the methods that send the     *)
(* secret.                                                                  *)
LEMMA VerifierHasNoSecret ==
    ASSUME NEW operation \in VerifierExchange
    PROVE operation \notin SecretExchange \cup CodeExchange \cup RefreshExchange \cup ProfileExchange
BY DEF VerifierExchange, SecretExchange, SignIn, SecondStep, CodeExchange, RefreshExchange,
    ProfileExchange, Sent

-----------------------------------------------------------------------------

(* A client without an API key reaches the API through the methods          *)
(* factory.ts lists as public and no other, and none of those throws        *)
(* ApiKeyRequiredException (PublicSurface).                                 *)
THEOREM KeylessSendsPublic == Spec => []PublicSurface
<1>1. Init => SurfaceInv
    BY DEF Init, SurfaceInv, NothingSentYet, SentIsPublic, PublicSurface, NoException, Plain
<1>2. SurfaceInv /\ [Next]_vars => SurfaceInv'
    <2>. SUFFICES ASSUME SurfaceInv, [Next]_vars PROVE SurfaceInv'
        OBVIOUS
    <2>1. ASSUME NEW via, NEW options, Construct(via, options) PROVE SurfaceInv'
        <3>1. /\ pc = "new" /\ pc' \in {"ready", "refused"}
              /\ UNCHANGED <<request, exception>>
            BY <2>1 DEF Construct
        <3>2. request' = NoRequest /\ exception' = NoException
            BY <3>1 DEF SurfaceInv, NothingSentYet
        <3>. QED
            BY <3>1, <3>2 DEF SurfaceInv, NothingSentYet, SentIsPublic, PublicSurface,
                NoException, Plain
    <2>2. ASSUME NEW options, CreateWorkOS(options) PROVE SurfaceInv'
        BY <2>1, <2>2 DEF CreateWorkOS
    <2>3. ASSUME NEW operation, NEW arguments, Call(operation, arguments) PROVE SurfaceInv'
        <3>. DEFINE c == [operation |-> operation, arguments |-> arguments]
        <3>1. /\ call' = c /\ call'.operation = operation /\ client' = client
              /\ request = NoRequest /\ exception = NoException
            BY <2>3 DEF Call, SurfaceInv, NothingSentYet
        <3>2. CASE (ClientIdMissing(c) \/ ProofMissing(c)) /\ Throws("TypeError")
            BY <3>1, <3>2 DEF Throws, Plain, SurfaceInv, NothingSentYet, SentIsPublic,
                PublicSurface
        <3>3. CASE ApiKeyMissing(c) /\ Throws("ApiKeyRequiredException")
            <4>1. client.key = NoValue /\ operation \notin PublicOperation
                BY <3>3, SkippedByPublicOnly DEF ApiKeyMissing
            <4>. QED
                BY <3>1, <3>3, <4>1 DEF Throws, SurfaceInv, NothingSentYet, SentIsPublic,
                    PublicSurface
        <3>4. CASE ~ApiKeyMissing(c) /\ pc' = "sent" /\ UNCHANGED exception
            <4>1. client.key = NoValue => operation \in PublicOperation
                BY <3>4, SkippedByPublicOnly DEF ApiKeyMissing
            <4>. QED
                BY <3>1, <3>4, <4>1 DEF SurfaceInv, NothingSentYet, SentIsPublic,
                    PublicSurface, NoException, Plain
        <3>. QED
            BY <2>3, <3>2, <3>3, <3>4 DEF Call
    <2>4. CASE Answer
        BY <2>4 DEF Answer, Throws, Plain, SurfaceInv, NothingSentYet, SentIsPublic,
            PublicSurface
    <2>5. ASSUME NEW f, Fail(f) PROVE SurfaceInv'
        <3>1. exception'.name # "ApiKeyRequiredException"
            BY <2>5, FailureNeedsNoKey DEF Fail
        <3>. QED
            BY <2>5, <3>1 DEF Fail, SurfaceInv, NothingSentYet, SentIsPublic, PublicSurface
    <2>6. CASE SessionRefresh
        BY <2>6 DEF SessionRefresh, SurfaceInv, NothingSentYet, SentIsPublic, PublicSurface
    <2>7. CASE UNCHANGED vars
        BY <2>7 DEF vars, SurfaceInv, NothingSentYet, SentIsPublic, PublicSurface
    <2>. QED
        BY <2>1, <2>2, <2>3, <2>4, <2>5, <2>6, <2>7 DEF Next, Settled
<1>3. SurfaceInv => PublicSurface
    BY DEF SurfaceInv
<1>. QED
    BY <1>1, <1>2, <1>3, PTL DEF Spec

-----------------------------------------------------------------------------

(* Whatever the client was made with, the request that exchanges a code     *)
(* proves who exchanges it, but for authenticateWithCodeAndVerifier with an *)
(* empty verifier, whose request never does (CodeIsProved).                 *)
THEOREM CodeExchangeIsProved == Spec => []CodeIsProved
<1>. DEFINE Inv == NothingSentYet /\ CodeIsProved
<1>1. Init => Inv
    BY DEF Init, NothingSentYet, CodeIsProved
<1>2. Inv /\ [Next]_vars => Inv'
    <2>. SUFFICES ASSUME Inv, [Next]_vars PROVE Inv'
        OBVIOUS
    <2>1. ASSUME NEW via, NEW options, Construct(via, options) PROVE Inv'
        <3>1. pc = "new" /\ UNCHANGED <<call, request, exception>>
            BY <2>1 DEF Construct
        <3>2. request' = NoRequest /\ exception' = NoException
            BY <3>1 DEF NothingSentYet
        <3>. QED
            BY <3>2 DEF NothingSentYet, CodeIsProved
    <2>2. ASSUME NEW options, CreateWorkOS(options) PROVE Inv'
        BY <2>1, <2>2 DEF CreateWorkOS
    <2>3. ASSUME NEW operation, NEW arguments \in Arguments(operation),
                 Call(operation, arguments)
          PROVE Inv'
        <3>. DEFINE c == [operation |-> operation, arguments |-> arguments]
        <3>1. /\ call'.operation = operation /\ request = NoRequest
              /\ c.operation = operation /\ c.arguments = arguments
            BY <2>3 DEF Call, NothingSentYet
        <3>2. CASE pc' = "rejected" /\ UNCHANGED request
            BY <3>1, <3>2 DEF NothingSentYet, CodeIsProved
        <3>3. CASE /\ ~ProofMissing(c) /\ pc' = "sent"
                   /\ request' = [verb |-> operation.verb, bearer |-> client.key # NoValue,
                                  secret |-> SendsSecret(c),
                                  verifier |-> arguments.verifier = "given"]
            <4>1. ASSUME operation \in CodeOperation
                  PROVE SendsSecret(c) \/ arguments.verifier = "given"
                          <=> ~(operation \in VerifierExchange /\ arguments.verifier = "empty")
                <5>1. CASE operation \in VerifierExchange
                    <6>1. ~SendsSecret(c)
                        BY <3>1, <5>1, VerifierHasNoSecret DEF SendsSecret
                    <6>. QED
                        BY <2>3, <4>1, <5>1, <6>1, VerifierOfCode
                <5>2. CASE operation \in CodeExchange \cup ProfileExchange
                    <6>1. arguments.verifier # "empty"
                          /\ (arguments.verifier # "none" \/ client.key # NoValue)
                        BY <3>1, <3>3, <5>2 DEF ProofMissing
                    <6>2. arguments.verifier \in {"none", "empty", "given"}
                        BY <2>3, <4>1, VerifierOfCode
                    <6>. QED
                        BY <3>1, <5>2, <6>1, <6>2 DEF SendsSecret
                <5>. QED
                    BY <4>1, <5>1, <5>2 DEF CodeOperation
            <4>2. request'.secret = SendsSecret(c)
                  /\ request'.verifier = (arguments.verifier = "given")
                BY <3>3
            <4>. QED
                BY <2>3, <3>1, <3>3, <4>1, <4>2
                DEF Call, NothingSentYet, CodeIsProved, CodeOperation
        <3>. QED
            BY <2>3, <3>2, <3>3 DEF Call, Throws
    <2>4. CASE Answer
        BY <2>4 DEF Answer, Throws, NothingSentYet, CodeIsProved
    <2>5. ASSUME NEW f, Fail(f) PROVE Inv'
        BY <2>5 DEF Fail, NothingSentYet, CodeIsProved
    <2>6. CASE SessionRefresh
        BY <2>6 DEF SessionRefresh, NothingSentYet, CodeIsProved
    <2>7. CASE UNCHANGED vars
        BY <2>7 DEF vars, NothingSentYet, CodeIsProved
    <2>. QED
        BY <2>1, <2>2, <2>3, <2>4, <2>5, <2>6, <2>7 DEF Next, Settled
<1>3. Inv => CodeIsProved
    OBVIOUS
<1>. QED
    BY <1>1, <1>2, <1>3, PTL DEF Spec

-----------------------------------------------------------------------------
(* What refresh() makes of an answer of the API that has a body. *)

NamedStatus == {401, 404, 409, 422, 429}

(* A status with a meaning of its own hides the body. *)
LEMMA NamedException ==
    ASSUME NEW f, HasBody(f), f.status \in NamedStatus
    PROVE /\ HandleHttpError(f).name \in
                 {"UnauthorizedException", "ConflictException", "UnprocessableEntityException",
                  "NotFoundException", "RateLimitExceededException"}
          /\ HandleHttpError(f).name = "RateLimitExceededException" <=> f.status = 429
          /\ HandleHttpError(f).cause = NoValue
BY DEF HasBody, NamedStatus, HandleHttpError, Exception

LEMMA OtherException ==
    ASSUME NEW f, HasBody(f), f.status \notin NamedStatus
    PROVE HandleHttpError(f) = DefaultException(f)
BY DEF HasBody, NamedStatus, HandleHttpError

(* What of the body the default branch keeps. *)
LEMMA DefaultFields ==
    ASSUME NEW f
    PROVE LET e == DefaultException(f)
              code == GetAuthenticationErrorCode(f.data)
          IN /\ e.cause = NoValue
             /\ \/ e.name = "AuthenticationException" /\ code # NoValue /\ e.code = code
                                                       /\ e.status = f.status
                \/ e.name = "OauthException" /\ code = NoValue /\ e.error = f.data.error
                                              /\ e.status = f.status
                \/ /\ e.name = "BadRequestException" /\ ValidationData(f.data)
                   /\ code = NoValue /\ f.data.error = NoValue
                \/ e.name = "GenericServerException" /\ code = NoValue /\ f.data.error = NoValue
                                                     /\ e.status = f.status
BY DEF DefaultException, Exception, ValidationData

(* Which bodies the default branch takes for those of a refused request.    *)
LEMMA BadRequestHides ==
    ASSUME NEW f
    PROVE DefaultException(f).name = "BadRequestException"
            <=> /\ ValidationData(f.data) /\ GetAuthenticationErrorCode(f.data) = NoValue
                /\ f.data.error = NoValue /\ ~f.data.error_description
BY DEF DefaultException, Exception, ValidationData

LEMMA RefusalReason ==
    ASSUME NEW f, HasBody(f), ~TransientStatus(f.status)
    PROVE RefreshReason(HandleHttpError(f)) \notin RetryableReason
<1>. DEFINE e == HandleHttpError(f)
<1>. USE NoValueAssumption
<1>1. ClassifyTerminalRefreshError(e) \in TerminalReason \cup {NoValue}
    BY DEF ClassifyTerminalRefreshError, TerminalReason
<1>2. ClassifyRetryableRefreshError(e) = NoValue
    <2>1. CASE f.status \in NamedStatus
        BY <2>1, NamedException DEF ClassifyRetryableRefreshError, HasErrorStatus, IsNetworkError,
            TransientStatus, NamedStatus
    <2>2. CASE f.status \notin NamedStatus
        BY <2>2, OtherException, DefaultFields
        DEF ClassifyRetryableRefreshError, HasErrorStatus, IsNetworkError, TransientStatus
    <2>. QED
        BY <2>1, <2>2
<1>. HIDE DEF e
<1>3. RefreshReason(e) \notin RetryableReason
    BY <1>1, <1>2 DEF RefreshReason, TerminalReason, RetryableReason
<1>. QED
    BY <1>3 DEF e

(* The classification of retryable errors decides the advice when that of   *)
(* terminal ones does not.                                                  *)
LEMMA ReasonIsClassified ==
    ASSUME NEW e
    PROVE RefreshReason(e) \in RetryableReason \cup TerminalReason
            <=> \/ ClassifyTerminalRefreshError(e) # NoValue
                \/ ClassifyRetryableRefreshError(e) # NoValue
<1>. USE NoValueAssumption
<1>1. ClassifyTerminalRefreshError(e) \in TerminalReason \cup {NoValue}
    BY DEF ClassifyTerminalRefreshError, TerminalReason
<1>2. ClassifyRetryableRefreshError(e) \in RetryableReason \cup {NoValue}
    BY DEF ClassifyRetryableRefreshError, RetryableReason
<1>. QED
    BY <1>1, <1>2 DEF RefreshReason, TerminalReason, RetryableReason

LEMMA KeptStatus ==
    ASSUME NEW f, HasBody(f), TransientStatus(f.status), ~LosesStatus(f)
    PROVE ClassifyRetryableRefreshError(HandleHttpError(f)) # NoValue
<1>. DEFINE e == HandleHttpError(f)
<1>. USE NoValueAssumption
<1>1. CASE f.status \in NamedStatus
    <2>1. f.status = 429
        BY <1>1 DEF NamedStatus, TransientStatus
    <2>. QED
        BY <1>1, <2>1, NamedException DEF ClassifyRetryableRefreshError, RetryableReason
<1>2. CASE f.status \notin NamedStatus
    <2>1. e.name # "BadRequestException"
        BY <1>2, OtherException, BadRequestHides DEF LosesStatus, NamedStatus
    <2>2. /\ e.name \in {"AuthenticationException", "OauthException", "GenericServerException"}
          /\ e.status = f.status
        BY <1>2, <2>1, OtherException, DefaultFields
    <2>3. e.status # 429 /\ (e.status = 408 \/ e.status >= 500)
        BY <1>2, <2>2 DEF TransientStatus, NamedStatus
    <2>. HIDE DEF e
    <2>4. ClassifyRetryableRefreshError(e) # NoValue
        BY <2>2, <2>3 DEF ClassifyRetryableRefreshError, HasErrorStatus, RetryableReason
    <2>. QED
        BY <2>4 DEF e
<1>. QED
    BY <1>1, <1>2

LEMMA LostStatus ==
    ASSUME NEW f, LosesStatus(f), TransientStatus(f.status)
    PROVE /\ ClassifyRetryableRefreshError(HandleHttpError(f)) = NoValue
          /\ ClassifyTerminalRefreshError(HandleHttpError(f)) = NoValue
<1>. DEFINE e == HandleHttpError(f)
<1>. USE NoValueAssumption
<1>1. CASE f.type = "ParseError"
    BY <1>1 DEF HandleHttpError, Plain, ClassifyRetryableRefreshError, ClassifyTerminalRefreshError,
        HasErrorStatus, IsNetworkError
<1>2. CASE f.type # "ParseError"
    <2>1. HasBody(f) /\ f.status # 429
        BY <1>2 DEF LosesStatus
    <2>2. f.status \notin NamedStatus
        BY <2>1 DEF TransientStatus, NamedStatus
    <2>3. e.name = "BadRequestException" /\ e.cause = NoValue
        BY <1>2, <2>1, <2>2, OtherException, BadRequestHides, DefaultFields DEF LosesStatus
    <2>. HIDE DEF e
    <2>4. /\ ClassifyRetryableRefreshError(e) = NoValue
          /\ ClassifyTerminalRefreshError(e) = NoValue
        BY <2>3 DEF ClassifyRetryableRefreshError, ClassifyTerminalRefreshError, HasErrorStatus,
            IsNetworkError
    <2>. QED
        BY <2>4 DEF e
<1>. QED
    BY <1>1, <1>2

LEMMA UnparsedReason ==
    ASSUME NEW f, f.type = "ParseError"
    PROVE RefreshReason(HandleHttpError(f)) = "thrown"
<1>. USE NoValueAssumption
<1>1. HandleHttpError(f) = Plain("Error", "ParseError")
    BY DEF HandleHttpError
<1>. QED
    BY <1>1 DEF Plain, RefreshReason, ClassifyTerminalRefreshError, ClassifyRetryableRefreshError,
        HasErrorStatus, IsNetworkError

(* A failure without an answer, and an answer whose body is null, become    *)
(* what stands for an unreachable API.                                      *)
LEMMA NetworkReason ==
    ASSUME NEW f, \/ f.type = "TypeError"
                  \/ f.type = "HttpClientError" /\ f.data.null
    PROVE RefreshReason(HandleHttpError(f)) = "network_error"
<1>. USE NoValueAssumption
<1>1. HandleHttpError(f) \in {Plain("Error", "TypeError"), Plain("TypeError", NoValue)}
    BY DEF HandleHttpError
<1>. QED
    BY <1>1 DEF Plain, RefreshReason, ClassifyTerminalRefreshError, ClassifyRetryableRefreshError,
        HasErrorStatus, IsNetworkError, RetryableReason

Told(data) ==
    \/ GetAuthenticationErrorCode(data) \in {"mfa_enrollment", "sso_required"}
    \/ GetAuthenticationErrorCode(data) = NoValue /\ data.error = "invalid_grant"

(* The advice is terminal when the classification of terminal errors is.    *)
LEMMA TerminalIsClassified ==
    ASSUME NEW e
    PROVE RefreshReason(e) \in TerminalReason <=> ClassifyTerminalRefreshError(e) # NoValue
<1>. USE NoValueAssumption
<1>1. ClassifyTerminalRefreshError(e) \in TerminalReason \cup {NoValue}
    BY DEF ClassifyTerminalRefreshError, TerminalReason
<1>2. ClassifyRetryableRefreshError(e) \in RetryableReason \cup {NoValue}
    BY DEF ClassifyRetryableRefreshError, RetryableReason
<1>. QED
    BY <1>1, <1>2 DEF RefreshReason, TerminalReason, RetryableReason

LEMMA ToldReason ==
    ASSUME NEW f, HasBody(f)
    PROVE RefreshReason(HandleHttpError(f)) \in TerminalReason
            <=> Told(f.data) /\ f.status \notin NamedStatus
<1>. DEFINE e == HandleHttpError(f)
<1>. USE NoValueAssumption
<1>1. CASE f.status \in NamedStatus
    <2>1. ClassifyTerminalRefreshError(e) = NoValue
        BY <1>1, NamedException DEF ClassifyTerminalRefreshError
    <2>. QED
        BY <1>1, <2>1, TerminalIsClassified
<1>2. CASE f.status \notin NamedStatus
    <2>. DEFINE code == GetAuthenticationErrorCode(f.data)
    <2>1. \/ e.name = "AuthenticationException" /\ code # NoValue /\ e.code = code
          \/ e.name = "OauthException" /\ code = NoValue /\ e.error = f.data.error
          \/ /\ e.name \in {"BadRequestException", "GenericServerException"}
             /\ code = NoValue /\ f.data.error = NoValue
        BY <1>2, OtherException, DefaultFields
    <2>. HIDE DEF e, code
    <2>2. ClassifyTerminalRefreshError(e) # NoValue
             <=> \/ code \in {"mfa_enrollment", "sso_required"}
                 \/ code = NoValue /\ f.data.error = "invalid_grant"
        BY <2>1 DEF ClassifyTerminalRefreshError, TerminalReason
    <2>. QED
        BY <1>2, <2>2, TerminalIsClassified DEF e, code, Told
<1>. QED
    BY <1>1, <1>2

(* Without a body there is nothing terminal to be told. *)
LEMMA BodilessReason ==
    ASSUME NEW e, e.name \in {"Error", "TypeError", "ApiKeyRequiredException"}
    PROVE RefreshReason(e) \notin TerminalReason
<1>1. ClassifyTerminalRefreshError(e) = NoValue
    BY DEF ClassifyTerminalRefreshError
<1>. QED
    BY <1>1, TerminalIsClassified

LEMMA BodilessException ==
    ASSUME NEW f, ~HasBody(f)
    PROVE HandleHttpError(f).name \in {"Error", "TypeError"}
BY DEF HasBody, HandleHttpError, Plain

-----------------------------------------------------------------------------

(* An exception is that of the failure, or was made before anything failed; *)
(* the advice is made of it once, and it stays what it was made of.         *)
NothingFailedYet == pc # "rejected" => failure = NoFailure /\ reason = NoValue
ExceptionOfFailure ==
    pc = "rejected" =>
        \/ exception = HandleHttpError(failure)
        \/ /\ failure = NoFailure
           /\ exception.name \in {"Error", "TypeError", "ApiKeyRequiredException"}
AdviceOfException == reason # NoValue => reason = RefreshReason(exception)
FailureIsKnown ==
    failure = NoFailure \/ failure.type \in {"HttpClientError", "ParseError", "TypeError"}
AdviceInv == NothingFailedYet /\ ExceptionOfFailure /\ AdviceOfException /\ FailureIsKnown

LEMMA FailureTypes ==
    ASSUME NEW f \in Failure
    PROVE f.type \in {"HttpClientError", "ParseError", "TypeError"}
BY DEF Failure, Answered, Unparsed, TimedOut, Unreachable

LEMMA AdviceInit == Init => AdviceInv
BY DEF Init, AdviceInv, NothingFailedYet, ExceptionOfFailure, AdviceOfException, FailureIsKnown

LEMMA AdviceNext == AdviceInv /\ [Next]_vars => AdviceInv'
<1>. SUFFICES ASSUME AdviceInv, [Next]_vars PROVE AdviceInv'
    OBVIOUS
<1>1. ASSUME NEW name \in {"Error", "TypeError", "ApiKeyRequiredException"}, Throws(name),
             pc # "rejected", reason' = reason
      PROVE AdviceInv'
    BY <1>1 DEF Throws, Plain, AdviceInv, NothingFailedYet, ExceptionOfFailure, AdviceOfException, FailureIsKnown
<1>2. ASSUME NEW via, NEW options, Construct(via, options) PROVE AdviceInv'
    BY <1>2 DEF Construct, AdviceInv, NothingFailedYet, ExceptionOfFailure, AdviceOfException, FailureIsKnown
<1>3. ASSUME NEW options, CreateWorkOS(options) PROVE AdviceInv'
    BY <1>2, <1>3 DEF CreateWorkOS
<1>4. ASSUME NEW operation, NEW arguments, Call(operation, arguments) PROVE AdviceInv'
    <2>1. CASE Throws("TypeError") \/ Throws("ApiKeyRequiredException")
        BY <1>1, <1>4, <2>1 DEF Call
    <2>2. CASE pc' = "sent" /\ UNCHANGED <<failure, exception>>
        BY <1>4, <2>2 DEF Call, AdviceInv, NothingFailedYet, ExceptionOfFailure,
            AdviceOfException, FailureIsKnown
    <2>. QED
        BY <1>4, <2>1, <2>2 DEF Call
<1>5. CASE Answer
    <2>1. CASE Throws("Error")
        BY <1>1, <1>5, <2>1 DEF Answer
    <2>2. CASE pc' = "resolved" /\ UNCHANGED <<request, failure, exception>>
        BY <1>5, <2>2 DEF Answer, AdviceInv, NothingFailedYet, ExceptionOfFailure,
            AdviceOfException, FailureIsKnown
    <2>. QED
        BY <1>5, <2>1, <2>2 DEF Answer
<1>6. ASSUME NEW f \in Failure, Fail(f) PROVE AdviceInv'
    BY <1>6, FailureTypes DEF Fail, AdviceInv, NothingFailedYet, ExceptionOfFailure, AdviceOfException, FailureIsKnown
<1>7. CASE SessionRefresh
    BY <1>7 DEF SessionRefresh, AdviceInv, NothingFailedYet, ExceptionOfFailure,
        AdviceOfException, FailureIsKnown
<1>8. CASE UNCHANGED vars
    BY <1>8 DEF vars, AdviceInv, NothingFailedYet, ExceptionOfFailure, AdviceOfException, FailureIsKnown
<1>. QED
    BY <1>2, <1>3, <1>4, <1>5, <1>6, <1>7, <1>8 DEF Next, Settled

(* What was advised on a failure is the advice on that failure. *)
LEMMA AdviceOfFailure ==
    ASSUME AdviceInv, Advised
    PROVE exception = HandleHttpError(failure) /\ reason = RefreshReason(exception)
BY DEF Advised, AdviceInv, NothingFailedYet, ExceptionOfFailure, AdviceOfException

(* A refusal of the API is presented as worth a retry exactly when its body *)
(* is the JSON value null, whatever its status (RefusalIsFinal).            *)
THEOREM RefusalsAreFinal == Spec => []RefusalIsFinal
<1>1. AdviceInv => RefusalIsFinal
    <2>. SUFFICES ASSUME AdviceInv, Advised, ~TransientStatus(failure.status),
                         failure.type \in {"HttpClientError", "ParseError"}
                  PROVE reason \in RetryableReason
                          <=> failure.type = "HttpClientError" /\ failure.data.null
        BY DEF RefusalIsFinal
    <2>1. reason = RefreshReason(HandleHttpError(failure))
        BY AdviceOfFailure
    <2>2. CASE HasBody(failure)
        BY <2>1, <2>2, RefusalReason DEF HasBody
    <2>3. CASE failure.type = "HttpClientError" /\ failure.data.null
        BY <2>1, <2>3, NetworkReason DEF RetryableReason
    <2>4. CASE failure.type = "ParseError"
        <3>1. reason = "thrown"
            BY <2>1, <2>4, UnparsedReason
        <3>. QED
            BY <2>4, <3>1 DEF RetryableReason
    <2>. QED
        BY <2>2, <2>3, <2>4 DEF HasBody
<1>. QED
    BY <1>1, AdviceInit, AdviceNext, PTL DEF Spec

(* A transient failure keeps the session, or ends it as the API says,       *)
(* exactly when its wrap keeps the status; under the two that lose it, it   *)
(* never does (TransientIsRetryable).                                       *)
THEOREM TransientKeepsSession == Spec => []TransientIsRetryable
<1>1. AdviceInv => TransientIsRetryable
    <2>. SUFFICES ASSUME AdviceInv, Advised, Transient(failure)
                  PROVE reason \in RetryableReason \cup TerminalReason <=> ~LosesStatus(failure)
        BY DEF TransientIsRetryable
    <2>. DEFINE e == HandleHttpError(failure)
    <2>1. reason = RefreshReason(e)
        BY AdviceOfFailure
    <2>2. reason \in RetryableReason \cup TerminalReason
            <=> \/ ClassifyTerminalRefreshError(e) # NoValue
                \/ ClassifyRetryableRefreshError(e) # NoValue
        BY <2>1, ReasonIsClassified
    <2>3. CASE \/ failure.type = "TypeError"
               \/ failure.type = "HttpClientError" /\ failure.data.null
        <3>1. reason = "network_error"
            BY <2>1, <2>3, NetworkReason
        <3>2. ~LosesStatus(failure)
            BY <2>3 DEF LosesStatus, HasBody
        <3>. QED
            BY <3>1, <3>2 DEF RetryableReason
    <2>4. CASE failure.type = "ParseError" \/ HasBody(failure)
        <3>1. TransientStatus(failure.status) \/ failure.type = "TypeError"
            BY DEF Transient
        <3>2. TransientStatus(failure.status)
            BY <2>4, <3>1 DEF HasBody
        <3>3. CASE LosesStatus(failure)
            BY <2>2, <3>2, <3>3, LostStatus
        <3>4. CASE ~LosesStatus(failure)
            <4>1. HasBody(failure)
                BY <2>4, <3>4 DEF LosesStatus
            <4>. QED
                BY <2>2, <3>2, <3>4, <4>1, KeptStatus
        <3>. QED
            BY <3>3, <3>4
    <2>5. failure.type \in {"HttpClientError", "ParseError", "TypeError"}
        BY DEF AdviceInv, FailureIsKnown, Advised
    <2>. QED
        BY <2>3, <2>4, <2>5 DEF HasBody
<1>. QED
    BY <1>1, AdviceInit, AdviceNext, PTL DEF Spec

(* The session is declared over exactly when the API says so, in a field    *)
(* that no status with a meaning of its own hides (TerminalMeansTold).      *)
THEOREM TerminalIsTold == Spec => []TerminalMeansTold
<1>1. AdviceInv => TerminalMeansTold
    <2>. SUFFICES ASSUME AdviceInv, Advised
                  PROVE reason \in TerminalReason
                          <=> JsonFailure /\ Told(failure.data) /\ failure.status \notin NamedStatus
        BY DEF TerminalMeansTold, Told, NamedStatus
    <2>1. CASE JsonFailure
        BY <2>1, AdviceOfFailure, ToldReason DEF JsonFailure
    <2>2. CASE ~JsonFailure
        <3>1. exception.name \in {"Error", "TypeError", "ApiKeyRequiredException"}
            BY <2>2, AdviceOfFailure, BodilessException DEF JsonFailure
        <3>2. reason \notin TerminalReason
            BY <3>1, AdviceOfFailure, BodilessReason
        <3>. QED
            BY <2>2, <3>2
    <2>. QED
        BY <2>1, <2>2
<1>. QED
    BY <1>1, AdviceInit, AdviceNext, PTL DEF Spec

-----------------------------------------------------------------------------
(* The shape of the state. *)

(* Whatever is thrown is an exception. *)
LEMMA FailureIsThrown == ASSUME NEW f PROVE HandleHttpError(f) # NoException
<1>1. HandleHttpError(f).name # "none"
    <2>1. DefaultException(f).name # "none"
        BY DEF DefaultException, Exception
    <2>. QED
        BY <2>1 DEF HandleHttpError, Plain, Exception
<1>. QED
    BY <1>1 DEF NoException, Plain

LEMMA ReasonIsKnown ==
    ASSUME NEW e
    PROVE RefreshReason(e) \in TerminalReason \cup RetryableReason \cup {"thrown"}
<1>1. ClassifyTerminalRefreshError(e) \in TerminalReason \cup {NoValue}
    BY DEF ClassifyTerminalRefreshError, TerminalReason
<1>2. ClassifyRetryableRefreshError(e) \in RetryableReason \cup {NoValue}
    BY DEF ClassifyRetryableRefreshError, RetryableReason
<1>. QED
    BY <1>1, <1>2 DEF RefreshReason

LEMMA CalledIsTyped ==
    ASSUME TypeOK, NEW operation \in Operation, NEW arguments \in Arguments(operation),
           Call(operation, arguments), NothingSentYet
    PROVE TypeOK'
<1>1. /\ UNCHANGED <<environment, client, reason>> /\ pc = "ready" /\ exception = NoException
      /\ call'.operation = operation /\ call'.arguments = arguments
    BY DEF Call, NothingSentYet
<1>2. ASSUME NEW name \in {"TypeError", "ApiKeyRequiredException"}, Throws(name) PROVE TypeOK'
    <2>1. exception' # NoException /\ pc' = "rejected" /\ failure' = failure
        BY <1>2 DEF Throws, NoException, Plain
    <2>. QED
        BY <1>1, <2>1 DEF TypeOK
<1>3. CASE /\ pc' = "sent" /\ request'.verb = operation.verb
           /\ UNCHANGED <<failure, exception>>
    BY <1>1, <1>3 DEF TypeOK
<1>. QED
    BY <1>2, <1>3 DEF Call

(* The state of a client is well typed, the request on the wire has the     *)
(* verb of the method that was called, and a call throws exactly when it    *)
(* rejects (TypeOK): of every path to a rejection each has its exception,   *)
(* and no other path has one.                                               *)
THEOREM ClientTypeOK == Spec => []TypeOK
<1>. DEFINE Inv == TypeOK /\ NothingSentYet
<1>1. Init => Inv
    BY DEF Init, TypeOK, NothingSentYet, NoClient, NoCall, Source, Failure
<1>2. Inv /\ [Next]_vars => Inv'
    <2>. SUFFICES ASSUME Inv, [Next]_vars PROVE Inv'
        OBVIOUS
    <2>1. ASSUME NEW via \in {"constructor", "createWorkOS"},
                 NEW options \in [key : BOOLEAN, clientId : BOOLEAN], Construct(via, options)
          PROVE Inv'
        <3>1. /\ client'.via = via
              /\ {client'.key, client'.clientId, client'.ofUsers} \subseteq Source
            BY <2>1 DEF Construct, FromOptionsOrEnv, Source
        <3>2. /\ pc = "new" /\ pc' \in {"ready", "refused"}
              /\ UNCHANGED <<environment, call, request, failure, exception, reason>>
            BY <2>1 DEF Construct
        <3>. QED
            BY <3>1, <3>2 DEF TypeOK, NothingSentYet
    <2>2. ASSUME NEW options \in [key : BOOLEAN, clientId : BOOLEAN], CreateWorkOS(options)
          PROVE Inv'
        BY <2>1, <2>2 DEF CreateWorkOS
    <2>3. ASSUME NEW operation \in Operation, NEW arguments \in Arguments(operation),
                 Call(operation, arguments)
          PROVE Inv'
        <3>1. pc' \notin {"new", "ready", "refused"}
            BY <2>3 DEF Call, Throws
        <3>. QED
            BY <2>3, <3>1, CalledIsTyped DEF NothingSentYet
    <2>4. CASE Answer
        <3>1. UNCHANGED <<environment, client, call, reason>> /\ pc = "sent"
            BY <2>4 DEF Answer
        <3>2. CASE Throws("Error")
            <4>1. exception' # NoException
                BY <3>2 DEF Throws, NoException, Plain
            <4>. QED
                BY <3>1, <3>2, <4>1 DEF Throws, TypeOK, NothingSentYet
        <3>3. CASE pc' = "resolved" /\ UNCHANGED <<request, failure, exception>>
            BY <3>1, <3>3 DEF TypeOK, NothingSentYet
        <3>. QED
            BY <2>4, <3>2, <3>3 DEF Answer
    <2>5. ASSUME NEW f \in Failure, Fail(f) PROVE Inv'
        <3>1. exception' # NoException
            BY <2>5, FailureIsThrown DEF Fail
        <3>. QED
            BY <2>5, <3>1 DEF Fail, TypeOK, NothingSentYet
    <2>6. CASE SessionRefresh
        <3>1. reason' \in TerminalReason \cup RetryableReason \cup {"thrown"}
            BY <2>6, ReasonIsKnown DEF SessionRefresh
        <3>. QED
            BY <2>6, <3>1 DEF SessionRefresh, TypeOK, NothingSentYet
    <2>7. CASE UNCHANGED vars
        BY <2>7 DEF vars, TypeOK, NothingSentYet
    <2>. QED
        BY <2>1, <2>2, <2>3, <2>4, <2>5, <2>6, <2>7 DEF Next, Settled
<1>. QED
    BY <1>1, <1>2, PTL DEF Spec
=============================================================================
