------------------------------ MODULE ApiErrors ------------------------------
(***************************************************************************)
(* What an application learns of a request that failed: the mapping of a    *)
(* transport error to an SDK exception (`handleHttpError`, workos.ts) and   *)
(* the classification CookieSession.refresh makes of that exception         *)
(* (user-management/session.ts).  Operators only: SessionRefresh uses them. *)
(***************************************************************************)
EXTENDS Naturals

CONSTANTS
    NoValue,        \* a field the answer does not have
    FailureStatus   \* the HTTP statuses of the failures considered

AUTHENTICATION_ERROR_CODES ==
    {"email_verification_required", "organization_selection_required", "mfa_enrollment",
     "mfa_challenge", "mfa_verification", "radar_email_challenge", "radar_sms_challenge",
     "sso_required"}

(* The fields of an error body the code looks at.  "mfa_challenge" stands   *)
(* for the authentication codes refresh() does not name, "other" for any    *)
(* code that is none of them.                                               *)
ErrorData ==
    [null : {FALSE},
     code : {NoValue, "mfa_enrollment", "mfa_challenge", "other"},
     error : {NoValue, "invalid_grant", "sso_required", "other"},
     error_description : BOOLEAN,
     errors : BOOLEAN]
NullData == [null |-> TRUE, code |-> NoValue, error |-> NoValue,
             error_description |-> FALSE, errors |-> FALSE]

(* HttpClientError of an error answer; its headers are the Headers object   *)
(* of fetch.                                                                *)
Answered(status, data) ==
    [type |-> "HttpClientError", status |-> status, data |-> data,
     headers |-> "Headers", requestId |-> TRUE]

(* The one fetchRequest builds itself when its timer fires. *)
TimedOut ==
    [type |-> "HttpClientError", status |-> 408, headers |-> "object", requestId |-> FALSE,
     data |-> [NullData EXCEPT !.null = FALSE, !.error = "other"]]

Unparsed(status) ==
    [type |-> "ParseError", status |-> status, data |-> NullData,
     headers |-> "Headers", requestId |-> TRUE]
Unreachable ==
    [type |-> "TypeError", status |-> 0, data |-> NullData,
     headers |-> "object", requestId |-> FALSE]

Failure ==
    {Answered(status, data) : status \in FailureStatus, data \in ErrorData \cup {NullData}}
    \cup {Unparsed(status) : status \in FailureStatus} \cup {TimedOut, Unreachable}

-----------------------------------------------------------------------------
(* handleHttpError *)

GetAuthenticationErrorCode(data) ==
    IF data.code \in AUTHENTICATION_ERROR_CODES THEN data.code
    ELSE IF data.error \in AUTHENTICATION_ERROR_CODES THEN data.error
    ELSE NoValue

(* `headers['X-Request-ID']`: a Headers object has no such property. *)
RequestIdKept(failure) == failure.headers = "object" /\ failure.requestId

Exception(name, failure, code) ==
    [name |-> name, status |-> failure.status, code |-> code, error |-> failure.data.error,
     requestId |-> RequestIdKept(failure), cause |-> NoValue]

(* What is thrown that is not one of the SDK's HTTP exceptions: a wrapper   *)
(* of the transport's error, or the TypeError of destructuring `null`.      *)
Plain(name, cause) ==
    [name |-> name, status |-> 0, code |-> NoValue, error |-> NoValue,
     requestId |-> FALSE, cause |-> cause]

(* Mutant: the OAuth fields are looked at before the authentication codes.  *)
DefaultExceptionOauthFirst(failure) ==
    LET data == failure.data IN
    IF data.error # NoValue \/ data.error_description
    THEN Exception("OauthException", failure, NoValue)
    ELSE IF GetAuthenticationErrorCode(data) # NoValue
    THEN Exception("AuthenticationException", failure, GetAuthenticationErrorCode(data))
    ELSE IF data.code # NoValue /\ data.errors
    THEN [Exception("BadRequestException", failure, data.code) EXCEPT !.status = 400]
    ELSE Exception("GenericServerException", failure, data.code)

(* The default branch: the first description of the error that fits. *)
DefaultException(failure) ==
    LET data == failure.data IN
    IF GetAuthenticationErrorCode(data) # NoValue
    THEN Exception("AuthenticationException", failure, GetAuthenticationErrorCode(data))
    ELSE IF data.error # NoValue \/ data.error_description
    THEN Exception("OauthException", failure, NoValue)
    ELSE IF data.code # NoValue /\ data.errors
    THEN [Exception("BadRequestException", failure, data.code) EXCEPT !.status = 400]
    ELSE Exception("GenericServerException", failure, data.code)

HandleHttpError(failure) ==
    CASE failure.type # "HttpClientError" -> Plain("Error", failure.type)
      [] failure.type = "HttpClientError" /\ failure.data.null -> Plain("TypeError", NoValue)
      [] OTHER ->
           CASE failure.status = 401 -> Exception("UnauthorizedException", failure, NoValue)
             [] failure.status = 409 -> Exception("ConflictException", failure, failure.data.code)
             [] failure.status = 422 ->
                  Exception("UnprocessableEntityException", failure, failure.data.code)
             [] failure.status = 404 -> Exception("NotFoundException", failure, failure.data.code)
             [] failure.status = 429 -> Exception("RateLimitExceededException", failure, NoValue)
             [] OTHER -> DefaultException(failure)

-----------------------------------------------------------------------------
(* The catch block of CookieSession.refresh *)

TerminalReason == {"invalid_grant", "mfa_enrollment", "sso_required"}
RetryableReason == {"rate_limit_exceeded", "timeout", "server_error", "network_error"}

ClassifyTerminalRefreshError(e) ==
    IF e.name = "OauthException" /\ e.error = "invalid_grant" THEN "invalid_grant"
    ELSE IF e.name = "AuthenticationException" /\ e.code \in {"mfa_enrollment", "sso_required"}
    THEN e.code
    ELSE NoValue

(* OauthException, GenericServerException and its two subclasses.           *)
HasErrorStatus(e) ==
    e.name \in {"OauthException", "GenericServerException", "AuthenticationException",
                "RateLimitExceededException"}

IsNetworkError(e) == e.name = "TypeError" \/ e.cause = "TypeError"

(* Mutant: an answer that never came is not told from a refusal. *)
ClassifyRetryableRefreshErrorNoTimeout(e) ==
    IF e.name = "RateLimitExceededException" THEN "rate_limit_exceeded"
    ELSE IF HasErrorStatus(e) /\ e.status = 429 THEN "rate_limit_exceeded"
    ELSE IF HasErrorStatus(e) /\ e.status >= 500 THEN "server_error"
    ELSE IF IsNetworkError(e) THEN "network_error"
    ELSE NoValue

(* Mutant: 4xx counted among the failures of the server. *)
ClassifyRetryableRefreshErrorAny(e) ==
    IF e.name = "RateLimitExceededException" THEN "rate_limit_exceeded"
    ELSE IF HasErrorStatus(e) /\ e.status = 429 THEN "rate_limit_exceeded"
    ELSE IF HasErrorStatus(e) /\ e.status = 408 THEN "timeout"
    ELSE IF HasErrorStatus(e) /\ e.status >= 400 THEN "server_error"
    ELSE IF IsNetworkError(e) THEN "network_error"
    ELSE NoValue

ClassifyRetryableRefreshError(e) ==
    IF e.name = "RateLimitExceededException" THEN "rate_limit_exceeded"
    ELSE IF HasErrorStatus(e) /\ e.status = 429 THEN "rate_limit_exceeded"
    ELSE IF HasErrorStatus(e) /\ e.status = 408 THEN "timeout"
    ELSE IF HasErrorStatus(e) /\ e.status >= 500 THEN "server_error"
    ELSE IF IsNetworkError(e) THEN "network_error"
    ELSE NoValue

(* The reason refresh() returns, or "thrown" when it rethrows. *)
RefreshReason(e) ==
    IF ClassifyTerminalRefreshError(e) # NoValue THEN ClassifyTerminalRefreshError(e)
    ELSE IF ClassifyRetryableRefreshError(e) # NoValue THEN ClassifyRetryableRefreshError(e)
    ELSE "thrown"

(* NoValue is told from every word it is compared with. *)
ASSUME NoValueAssumption ==
    NoValue \notin AUTHENTICATION_ERROR_CODES \cup TerminalReason \cup RetryableReason
                  \cup {"other", "success", "thrown", "TypeError", "HttpClientError", "ParseError"}
=============================================================================
