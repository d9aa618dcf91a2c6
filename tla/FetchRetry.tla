------------------------------ MODULE FetchRetry ------------------------------
(***************************************************************************)
(* One SDK request from `WorkOS.post/get/put/patch/delete` down to `fetch`: *)
(* the retry loop of common/net/fetch-client.ts, the idempotency key it     *)
(* attaches, the timer that aborts an attempt, and the two places where a   *)
(* body is read.  Calls run concurrently and share only the API.            *)
(*                                                                         *)
(* The API and the network are external: a request that was sent may be    *)
(* executed late (after its attempt was aborted and retried), may be        *)
(* refused, or may be executed and have its answer replaced by a gateway's. *)
(***************************************************************************)
EXTENDS Naturals, FiniteSets

CONSTANTS
    Call,           \* invocations of an SDK method
    CallerKey,      \* idempotency keys an application may pass
    NoKey,          \* no Idempotency-Key header
    Method,         \* HTTP methods in use
    MaxRetries,     \* values of `maxRetries` in use
    Status          \* HTTP statuses the API and its gateways answer with

(* Mutant: one key per client instead of one per call. *)
GeneratedKeyPerClient(c) == [retry |-> "client"]

(* `retry-${randomUUID()}`: a key no other call has. *)
GeneratedKey(c) == [retry |-> c]

ASSUME KeysAssumption ==
    /\ NoKey \notin CallerKey
    /\ \A c \in Call : GeneratedKey(c) \notin CallerKey \cup {NoKey}
ASSUME ParametersAssumption ==
    /\ Method \subseteq {"GET", "POST", "PUT", "PATCH", "DELETE"}
    /\ MaxRetries \subseteq Nat
    /\ Status \subseteq 100 .. 599

RETRY_STATUS_CODES == {408, 429, 500, 502, 503, 504}
Ok(status) == status \in 200 .. 299

(* "json": content type and text are JSON; "garbled": the content type is   *)
(* JSON but the text does not parse; "text": anything else (a 204, HTML).   *)
Body == {"json", "garbled", "text"}
Key == CallerKey \cup {NoKey} \cup {GeneratedKey(c) : c \in Call}
Answer == [status : Status, body : Body]
NoAnswer == [status |-> 0, body |-> "text"]

Error == [type : {"HttpClientError", "ParseError", "TypeError"},
          status : Status \cup {0, 408},
          from : {"fetchRequest", "toJSON"}]
NoError == [type |-> "none", status |-> 0, from |-> "none"]

Request == [call : Call, attempt : Nat \ {0}, method : Method, key : Key]
Options == [method : Method, key : Key, max : MaxRetries]
NoOptions == [method |-> "none", key |-> NoKey, max |-> 0]

VARIABLES
    phase,      \* where the call's promise chain is suspended
    options,    \* method, requestHeaders' key and maxRetryAttempts of the call
    attempt,    \* retryAttempts
    answer,     \* the Response the current fetch() has, or will, resolve with
    error,      \* the error the caller saw
    net,        \* requests on their way to the API, stale attempts included
    execs,      \* requests the API has applied
    stored      \* idempotency keys whose result the API remembers

vars == <<phase, options, attempt, answer, error, net, execs, stored>>

Phase == {"idle", "fetching", "errorBody", "sleeping", "okBody", "ok", "failed"}
Settled == {"ok", "failed"}

-----------------------------------------------------------------------------

Init ==
    /\ phase = [c \in Call |-> "idle"]
    /\ options = [c \in Call |-> NoOptions]
    /\ attempt = [c \in Call |-> 1]
    /\ answer = [c \in Call |-> NoAnswer]
    /\ error = [c \in Call |-> NoError]
    /\ net = {} /\ execs = {} /\ stored = {}

(* Mutant: the bound on retries compared off by one. *)
WithIdempotencyKeyOffByOne(c, method, callerKey, max) ==
    IF method = "POST" /\ max > 1 /\ callerKey = NoKey
    THEN GeneratedKey(c) ELSE callerKey

(* withIdempotencyKey: only a POST that may be retried gets a key, and only *)
(* when the caller gave none.                                               *)
WithIdempotencyKey(c, method, callerKey, max) ==
    IF method = "POST" /\ max > 0 /\ callerKey = NoKey
    THEN GeneratedKey(c) ELSE callerKey

Send(c, n, o) ==
    net' = net \cup {[call |-> c, attempt |-> n, method |-> o.method, key |-> o.key]}

(* fetchRequestWithRetry up to the first fetch(). `get`, `delete` and       *)
(* `deleteWithBody` have no idempotencyKey option.                          *)
Start(c) ==
    /\ phase[c] = "idle"
    /\ \E method \in Method, callerKey \in CallerKey \cup {NoKey}, max \in MaxRetries :
          LET o == [method |-> method, max |-> max,
                    key |-> WithIdempotencyKey(c, method, callerKey, max)]
          IN /\ callerKey # NoKey => method \in {"POST", "PUT", "PATCH"}
             /\ options' = [options EXCEPT ![c] = o]
             /\ Send(c, 1, o)
    /\ phase' = [phase EXCEPT ![c] = "fetching"]
    /\ UNCHANGED <<attempt, answer, error, execs, stored>>

-----------------------------------------------------------------------------
(* The client. *)

(* Mutant: `>=` for `>` in the check of the attempts. *)
ShouldRetryRequestOffByOne(e, retryAttempt, max) ==
    /\ retryAttempt < max
    /\ \/ e.type = "TypeError"
       \/ e.type \in {"HttpClientError", "ParseError"} /\ e.status \in RETRY_STATUS_CODES

ShouldRetryRequest(e, retryAttempt, max) ==
    /\ retryAttempt <= max
    /\ \/ e.type = "TypeError"
       \/ e.type \in {"HttpClientError", "ParseError"} /\ e.status \in RETRY_STATUS_CODES

(* makeRequest after fetchRequest threw: count and sleep, or rethrow. *)
Catch(c, e) ==
    /\ answer' = [answer EXCEPT ![c] = NoAnswer]
    /\ IF ShouldRetryRequest(e, attempt[c], options[c].max)
       THEN /\ attempt' = [attempt EXCEPT ![c] = @ + 1]
            /\ phase' = [phase EXCEPT ![c] = "sleeping"]
            /\ UNCHANGED error
       ELSE /\ phase' = [phase EXCEPT ![c] = "failed"]
            /\ error' = [error EXCEPT ![c] = e]
            /\ UNCHANGED attempt

Thrown(type, status) == [type |-> type, status |-> status, from |-> "fetchRequest"]

(* Mutant: one timer for the call, spent by its first attempt. *)
TimeoutOfFirstAttempt(c) ==
    /\ phase[c] = "fetching" /\ attempt[c] = 1
    /\ Catch(c, Thrown("HttpClientError", 408))
    /\ UNCHANGED <<options, net, execs, stored>>

(* The abort timer fires before the headers arrive: AbortError becomes a    *)
(* 408.  The request may still be on its way to the API.                    *)
Timeout(c) ==
    /\ phase[c] = "fetching"
    /\ Catch(c, Thrown("HttpClientError", 408))
    /\ UNCHANGED <<options, net, execs, stored>>

(* fetch() rejects: refused, reset, DNS.  The API may have the request.     *)
NetworkError(c) ==
    /\ phase[c] = "fetching"
    /\ Catch(c, Thrown("TypeError", 0))
    /\ UNCHANGED <<options, net, execs, stored>>

(* Mutant: fetch() is not awaited. *)
ReceiveHeadersUnawaited(c) ==
    /\ phase[c] = "fetching"
    /\ phase' = [phase EXCEPT ![c] = IF Ok(answer[c].status) THEN "okBody" ELSE "errorBody"]
    /\ UNCHANGED <<options, attempt, answer, error, net, execs, stored>>

(* fetch() resolves with the headers: the timer is cleared, and only then   *)
(* is an error's body read.                                                 *)
ReceiveHeaders(c) ==
    /\ phase[c] = "fetching" /\ answer[c] # NoAnswer
    /\ phase' = [phase EXCEPT ![c] = IF Ok(answer[c].status) THEN "okBody" ELSE "errorBody"]
    /\ UNCHANGED <<options, attempt, answer, error, net, execs, stored>>

(* `await res.text()` of an error answer: the body arrives ...              *)
ErrorBody(c) ==
    /\ phase[c] = "errorBody"
    /\ Catch(c, Thrown(IF answer[c].body = "json" THEN "HttpClientError" ELSE "ParseError",
                       answer[c].status))
    /\ UNCHANGED <<options, net, execs, stored>>

(* ... or the connection breaks under it. *)
ErrorBodyBreaks(c) ==
    /\ phase[c] = "errorBody"
    /\ Catch(c, Thrown("TypeError", 0))
    /\ UNCHANGED <<options, net, execs, stored>>

(* The retry loop has returned; `WorkOS.post` awaits res.toJSON() outside   *)
(* its try block.                                                           *)
OkBody(c) ==
    /\ phase[c] = "okBody"
    /\ IF answer[c].body = "garbled"
       THEN /\ phase' = [phase EXCEPT ![c] = "failed"]
            /\ error' = [error EXCEPT ![c] =
                  [type |-> "ParseError", status |-> answer[c].status, from |-> "toJSON"]]
       ELSE /\ phase' = [phase EXCEPT ![c] = "ok"]
            /\ UNCHANGED error
    /\ UNCHANGED <<options, attempt, answer, net, execs, stored>>

OkBodyBreaks(c) ==
    /\ phase[c] = "okBody" /\ answer[c].body # "text"
    /\ phase' = [phase EXCEPT ![c] = "failed"]
    /\ error' = [error EXCEPT ![c] =
          [type |-> "TypeError", status |-> 0, from |-> "toJSON"]]
    /\ UNCHANGED <<options, attempt, answer, net, execs, stored>>

(* The backoff or Retry-After timer fires and makeRequest runs again. *)
Wake(c) ==
    /\ phase[c] = "sleeping"
    /\ phase' = [phase EXCEPT ![c] = "fetching"]
    /\ Send(c, attempt[c], options[c])
    /\ UNCHANGED <<options, attempt, answer, error, execs, stored>>

-----------------------------------------------------------------------------
(* The API and its gateways (external). *)

Awaited(m) == phase[m.call] = "fetching" /\ attempt[m.call] = m.attempt

(* The answer reaches the client only on a connection that is still open. *)
Reply(m, status, body) ==
    IF Awaited(m)
    THEN answer' = [answer EXCEPT ![m.call] = [status |-> status, body |-> body]]
    ELSE UNCHANGED answer

Replays(m) == m.method = "POST" /\ m.key # NoKey /\ m.key \in stored

(* The API honours Idempotency-Key on POST: it applies a key's request once *)
(* and answers the others from its memory.  A gateway may replace the       *)
(* answer of what was applied by a transient error.                         *)
Execute(m) ==
    /\ m \in net
    /\ net' = net \ {m}
    /\ IF Replays(m)
       THEN UNCHANGED <<execs, stored>>
       ELSE /\ execs' = execs \cup {m}
            /\ stored' = IF m.method = "POST" /\ m.key # NoKey
                         THEN stored \cup {m.key} ELSE stored
    /\ \E status \in Status, body \in Body :
          /\ Ok(status) \/ status \in RETRY_STATUS_CODES
          /\ Reply(m, status, body)
    /\ UNCHANGED <<phase, options, attempt, error>>

(* Refused without effect: by the API (4xx), a limiter or a gateway. *)
Refuse(m) ==
    /\ m \in net
    /\ net' = net \ {m}
    /\ \E status \in Status, body \in Body : ~Ok(status) /\ Reply(m, status, body)
    /\ UNCHANGED <<phase, options, attempt, error, execs, stored>>

(* Lost on the way; the client learns of it by its timer. *)
Lose(m) ==
    /\ m \in net
    /\ net' = net \ {m}
    /\ UNCHANGED <<phase, options, attempt, answer, error, execs, stored>>

-----------------------------------------------------------------------------

Done == (\A c \in Call : phase[c] \in Settled) /\ net = {} /\ UNCHANGED vars

Client(c) ==
    \/ Timeout(c) \/ NetworkError(c) \/ ReceiveHeaders(c)
    \/ ErrorBody(c) \/ ErrorBodyBreaks(c) \/ OkBody(c) \/ OkBodyBreaks(c)
    \/ Wake(c)

Next ==
    \/ \E c \in Call : Start(c) \/ Client(c)
    \/ \E m \in net : Execute(m) \/ Refuse(m) \/ Lose(m)
    \/ Done

Spec == Init /\ [][Next]_vars

(* Timers fire: the event loop is the only scheduler the code relies on.  A *)
(* body is given no fairness: it arrives when the network brings it, and no *)
(* timer of the client waits with it.                                       *)
TimersFire == \A c \in Call : WF_vars(Timeout(c)) /\ WF_vars(Wake(c))
SpecFair == Spec /\ TimersFire

-----------------------------------------------------------------------------

(* A started call has its options, and one reading a body has an answer.    *)
TypeOK ==
    /\ phase \in [Call -> Phase]
    /\ options \in [Call -> Options \cup {NoOptions}]
    /\ \A c \in Call : phase[c] # "idle" => options[c] \in Options
    /\ attempt \in [Call -> Nat \ {0}]
    /\ answer \in [Call -> Answer \cup {NoAnswer}]
    /\ \A c \in Call : phase[c] \in {"okBody", "errorBody"} => answer[c] \in Answer
    /\ error \in [Call -> Error \cup {NoError}]
    /\ net \subseteq Request /\ execs \subseteq Request
    /\ stored \subseteq Key

(* A POST is applied at most once however often the client re-sends it and  *)
(* however late an aborted attempt reaches the API: the key is drawn once   *)
(* per call, before the loop, and a POST without a key is sent once.        *)
AtMostOnce ==
    \A e, f \in execs : e.call = f.call /\ e.method = "POST" => e = f

(* A call that resolved has had its effect: of its own request, or of the   *)
(* one whose key the application chose to reuse.                            *)
OkMeansApplied ==
    \A c \in Call : phase[c] = "ok" =>
        \E e \in execs : \/ e.call = c
                         \/ options[c].key \in CallerKey /\ e.key = options[c].key

Transient(e) ==
    e.type = "TypeError" \/ e.status \in RETRY_STATUS_CODES

(* A transient failure of fetchRequest reaches the caller only after the    *)
(* first attempt and maxRetries more: none is skipped and none is added.    *)
TransientExhausted ==
    \A c \in Call :
        /\ attempt[c] <= options[c].max + 1
        /\ error[c].from = "fetchRequest" /\ Transient(error[c])
              => attempt[c] = options[c].max + 1

(* Every call settles, or waits for ever for the body of an answer: the     *)
(* timer of each attempt and the bound on attempts end all else, but the    *)
(* timer is cleared at the headers, and what then stalls has none, neither  *)
(* in an attempt (fetch-client.ts:218) nor after the last.  The timeout  *)
(* http-client.ts:11 documents as "Per-request" is one of the headers.      *)
Settles == \A c \in Call :
    [](phase[c] # "idle" => \/ <>(phase[c] \in Settled)
                           \/ <>[](phase[c] \in {"errorBody", "okBody"}))
=============================================================================
