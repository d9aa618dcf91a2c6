-------------------------- MODULE FetchRetryProofs --------------------------
(***************************************************************************)
(* Proofs about FetchRetry for any set of calls, any number of retries and  *)
(* any caller keys: type correctness, a POST applied at most once, success  *)
(* only after the effect, transient failures only after every attempt.      *)
(***************************************************************************)
EXTENDS FetchRetry, TLAPS

(* The requests in the network and at the API are the call's own: they all  *)
(* carry the method and the key drawn before the loop.                      *)
RequestsOfCall ==
    \A m \in net \cup execs :
        /\ phase[m.call] # "idle"
        /\ m.method = options[m.call].method
        /\ m.key = options[m.call].key
        /\ m.attempt <= attempt[m.call]
        /\ phase[m.call] = "sleeping" => m.attempt < attempt[m.call]

KeysOfCall ==
    \A c \in Call :
        /\ options[c].key \in CallerKey \cup {NoKey, GeneratedKey(c)}
        /\ options[c].method = "POST" /\ options[c].key = NoKey => options[c].max = 0

AttemptsBounded ==
    \A c \in Call : attempt[c] <= options[c].max + 1
        /\ (phase[c] = "idle" => attempt[c] = 1)
        /\ (phase[c] = "sleeping" => attempt[c] >= 2)

StoredKeys ==
    /\ net \cap execs = {}
    /\ \A e \in execs : e.method = "POST" /\ e.key # NoKey => e.key \in stored
    /\ \A k \in stored : \E e \in execs : e.method = "POST" /\ e.key = k

OnceInv ==
    TypeOK /\ RequestsOfCall /\ KeysOfCall /\ AttemptsBounded /\ StoredKeys /\ AtMostOnce

Applied(c) ==
    \E e \in execs : \/ e.call = c
                     \/ options[c].key \in CallerKey /\ e.key = options[c].key

(* An ok status on its way to the caller, or in the caller's hands, stands  *)
(* for an effect.                                                           *)
AnswersApplied ==
    \A c \in Call :
        /\ phase[c] \in {"idle", "sleeping"} => answer[c] = NoAnswer
        /\ Ok(answer[c].status) => Applied(c)
        /\ phase[c] = "okBody" => Ok(answer[c].status)
        /\ phase[c] = "ok" => Applied(c)

ErrorsOfFailed ==
    \A c \in Call : error[c] # NoError => phase[c] = "failed"

-----------------------------------------------------------------------------

LEMMA GeneratedKeyInjective ==
    \A c, d : GeneratedKey(c) = GeneratedKey(d) => c = d
<1> QED
    BY DEF GeneratedKey

(* WithIdempotencyKey yields a key of Key, the caller's or the call's own,  *)
(* and leaves a POST without one only when it is never retried.             *)
LEMMA WithIdempotencyKeyType ==
    ASSUME NEW c \in Call, NEW method \in Method,
           NEW callerKey \in CallerKey \cup {NoKey}, NEW max \in MaxRetries
    PROVE  LET k == WithIdempotencyKey(c, method, callerKey, max)
           IN /\ k \in Key
              /\ k \in CallerKey \cup {NoKey, GeneratedKey(c)}
              /\ method = "POST" /\ k = NoKey => max = 0
<1> QED
    BY KeysAssumption, ParametersAssumption DEF WithIdempotencyKey, Key

(* Every action that leaves through Catch: the four ways fetchRequest throws. *)
Throws(c) ==
    /\ phase[c] \in {"fetching", "errorBody"}
    /\ \E e \in Error : Catch(c, e) /\ e.from = "fetchRequest"
                        /\ (e.type # "TypeError" \/ e.status = 0)
    /\ UNCHANGED <<options, net, execs, stored>>

LEMMA ClientThrows ==
    ASSUME TypeOK, NEW c \in Call,
           Timeout(c) \/ NetworkError(c) \/ ErrorBody(c) \/ ErrorBodyBreaks(c)
    PROVE  Throws(c)
<1>1. CASE Timeout(c)
    <2>1. Thrown("HttpClientError", 408) \in Error
        BY DEF Thrown, Error
    <2> QED
        BY <1>1, <2>1 DEF Timeout, Throws, Thrown
<1>2. CASE NetworkError(c)
    <2>1. Thrown("TypeError", 0) \in Error
        BY DEF Thrown, Error
    <2> QED
        BY <1>2, <2>1 DEF NetworkError, Throws, Thrown
<1>3. CASE ErrorBody(c)
    <2> DEFINE e == Thrown(IF answer[c].body = "json" THEN "HttpClientError" ELSE "ParseError",
                           answer[c].status)
    <2>1. answer[c] \in Answer
        BY <1>3 DEF ErrorBody, TypeOK
    <2>2. e \in Error /\ e.type # "TypeError" /\ e.from = "fetchRequest"
        BY <2>1 DEF Thrown, Error, Answer
    <2>3. Catch(c, e)
        BY <1>3 DEF ErrorBody
    <2> HIDE DEF e
    <2> QED
        BY <1>3, <2>2, <2>3 DEF ErrorBody, Throws
<1>4. CASE ErrorBodyBreaks(c)
    <2>1. Thrown("TypeError", 0) \in Error
        BY DEF Thrown, Error
    <2> QED
        BY <1>4, <2>1 DEF ErrorBodyBreaks, Throws, Thrown
<1> QED
    BY <1>1, <1>2, <1>3, <1>4

-----------------------------------------------------------------------------

LEMMA InitType == Init => TypeOK
<1> QED
    BY DEF Init, TypeOK, Phase, NoOptions, NoAnswer, NoError, Answer, Error

LEMMA NextType == TypeOK /\ [Next]_vars => TypeOK'
<1> SUFFICES ASSUME TypeOK, [Next]_vars PROVE TypeOK'
    OBVIOUS
<1> USE DEF TypeOK
<1>1. ASSUME NEW c \in Call, Start(c) PROVE TypeOK'
    <2>1. PICK method \in Method, callerKey \in CallerKey \cup {NoKey}, max \in MaxRetries :
             LET o == [method |-> method, max |-> max,
                       key |-> WithIdempotencyKey(c, method, callerKey, max)]
             IN options' = [options EXCEPT ![c] = o] /\ Send(c, 1, o)
        BY <1>1 DEF Start
    <2> DEFINE k == WithIdempotencyKey(c, method, callerKey, max)
    <2>2. k \in Key
        BY WithIdempotencyKeyType
    <2>3. /\ options' = [options EXCEPT ![c] = [method |-> method, max |-> max, key |-> k]]
          /\ net' = net \cup {[call |-> c, attempt |-> 1, method |-> method, key |-> k]}
        BY <2>1 DEF Send
    <2> HIDE DEF k
    <2>4. /\ options' \in [Call -> Options \cup {NoOptions}]
          /\ options'[c] \in Options
        BY <2>2, <2>3 DEF Options
    <2>5. \A d \in Call : d # c => options'[d] = options[d] /\ phase'[d] = phase[d]
        BY <1>1, <2>3 DEF Start
    <2>6. net' \subseteq Request
        BY <2>2, <2>3 DEF Request
    <2>7. /\ phase' \in [Call -> Phase] /\ phase'[c] = "fetching"
          /\ UNCHANGED <<attempt, answer, error, execs, stored>>
        BY <1>1 DEF Start, Phase
    <2> QED
        BY <2>4, <2>5, <2>6, <2>7
<1>2. ASSUME NEW c \in Call, Throws(c) PROVE TypeOK'
    <2> PICK e \in Error : Catch(c, e)
        BY <1>2 DEF Throws
    <2> QED
        BY <1>2 DEF Throws, Catch, Phase
<1>3. ASSUME NEW c \in Call, ReceiveHeaders(c) PROVE TypeOK'
    BY <1>3 DEF ReceiveHeaders, Phase
<1>4. ASSUME NEW c \in Call, OkBody(c) PROVE TypeOK'
    <2>1. answer[c].status \in Status
        BY <1>4 DEF OkBody, Answer
    <2> DEFINE e == [type |-> "ParseError", status |-> answer[c].status, from |-> "toJSON"]
    <2>2. e \in Error
        BY <2>1 DEF Error
    <2>3. /\ phase' \in [Call -> Phase] /\ phase'[c] \in {"ok", "failed"}
          /\ \A d \in Call : d # c => phase'[d] = phase[d]
          /\ error' \in [Call -> Error \cup {NoError}]
        BY <1>4, <2>2 DEF OkBody, Phase
    <2> QED
        BY <1>4, <2>3 DEF OkBody
<1>5. ASSUME NEW c \in Call, OkBodyBreaks(c) PROVE TypeOK'
    <2>1. [type |-> "TypeError", status |-> 0, from |-> "toJSON"] \in Error
        BY DEF Error
    <2> QED
        BY <1>5, <2>1 DEF OkBodyBreaks, Phase
<1>6. ASSUME NEW c \in Call, Wake(c) PROVE TypeOK'
    <2>1. options[c] \in Options
        BY <1>6 DEF Wake
    <2>2. net' \subseteq Request
        BY <1>6, <2>1 DEF Wake, Send, Request, Options
    <2> QED
        BY <1>6, <2>2 DEF Wake, Phase
<1>7. ASSUME NEW m \in net, Execute(m) PROVE TypeOK'
    <2>1. PICK status \in Status, body \in Body : Reply(m, status, body)
        BY <1>7 DEF Execute
    <2>2. [status |-> status, body |-> body] \in Answer
        BY DEF Answer
    <2>3. /\ answer' \in [Call -> Answer \cup {NoAnswer}]
          /\ \A d \in Call : phase[d] # "fetching" => answer'[d] = answer[d]
        BY <2>1, <2>2 DEF Reply, Awaited
    <2>4. m \in Request /\ m.key \in Key
        BY DEF Request
    <2> QED
        BY <1>7, <2>3, <2>4 DEF Execute
<1>8. ASSUME NEW m \in net, Refuse(m) PROVE TypeOK'
    <2>1. PICK status \in Status, body \in Body : Reply(m, status, body)
        BY <1>8 DEF Refuse
    <2>2. [status |-> status, body |-> body] \in Answer
        BY DEF Answer
    <2>3. /\ answer' \in [Call -> Answer \cup {NoAnswer}]
          /\ \A d \in Call : phase[d] # "fetching" => answer'[d] = answer[d]
        BY <2>1, <2>2 DEF Reply, Awaited
    <2> QED
        BY <1>8, <2>3 DEF Refuse
<1>9. ASSUME NEW m \in net, Lose(m) PROVE TypeOK'
    BY <1>9 DEF Lose
<1>10. CASE UNCHANGED vars
    BY <1>10 DEF vars
<1> QED
    BY <1>1, <1>2, <1>3, <1>4, <1>5, <1>6, <1>7, <1>8, <1>9, <1>10, ClientThrows
    DEF Next, Client, Done

(* The state is always one the modelled code can be in. *)
THEOREM TypeCorrect == Spec => []TypeOK
<1> QED
    BY InitType, NextType, PTL DEF Spec

-----------------------------------------------------------------------------
(* A POST is applied at most once. *)

LEMMA InitOnce == Init => OnceInv
<1> SUFFICES ASSUME Init PROVE OnceInv
    OBVIOUS
<1>1. TypeOK
    BY InitType
<1>2. KeysOfCall /\ AttemptsBounded
    BY DEF Init, KeysOfCall, AttemptsBounded, NoOptions
<1>3. RequestsOfCall /\ StoredKeys /\ AtMostOnce
    BY DEF Init, RequestsOfCall, StoredKeys, AtMostOnce
<1> QED
    BY <1>1, <1>2, <1>3 DEF OnceInv

(* A request about to be applied, and not answered from memory, is a POST's *)
(* first: an earlier one of the call would have stored the key, and a POST  *)
(* without a key has no other request.                                      *)
LEMMA FirstExecution ==
    ASSUME OnceInv, NEW m \in net, m.method = "POST", ~Replays(m),
           NEW e \in execs
    PROVE  e.call # m.call
<1> SUFFICES ASSUME e.call = m.call PROVE FALSE
    OBVIOUS
<1>1. e \in Request /\ m \in Request
    BY DEF OnceInv, TypeOK
<1>2. e.method = m.method /\ e.key = m.key
    BY DEF OnceInv, RequestsOfCall
<1>3. CASE m.key # NoKey
    BY <1>2, <1>3 DEF OnceInv, StoredKeys, Replays
<1>4. CASE m.key = NoKey
    <2> DEFINE c == m.call
    <2>1. c \in Call /\ options[c].max = 0
        BY <1>1, <1>4 DEF OnceInv, RequestsOfCall, KeysOfCall, Request
    <2>2. attempt[c] \in Nat /\ attempt[c] <= 1
        BY <2>1 DEF OnceInv, AttemptsBounded, TypeOK
    <2>3. e.attempt = 1 /\ m.attempt = 1
        BY <1>1, <2>2 DEF OnceInv, RequestsOfCall, Request
    <2>4. e = m
        BY <1>1, <1>2, <2>3 DEF Request
    <2> QED
        BY <2>4 DEF OnceInv, StoredKeys
<1> QED
    BY <1>3, <1>4

LEMMA NextOnce == OnceInv /\ [Next]_vars => OnceInv'
<1> SUFFICES ASSUME OnceInv, [Next]_vars PROVE OnceInv'
    OBVIOUS
<1> USE DEF OnceInv
<1>0. TypeOK'
    BY NextType
<1>1. ASSUME NEW c \in Call, Start(c) PROVE OnceInv'
    <2>1. PICK method \in Method, callerKey \in CallerKey \cup {NoKey}, max \in MaxRetries :
             LET o == [method |-> method, max |-> max,
                       key |-> WithIdempotencyKey(c, method, callerKey, max)]
             IN options' = [options EXCEPT ![c] = o] /\ Send(c, 1, o)
        BY <1>1 DEF Start
    <2> DEFINE k == WithIdempotencyKey(c, method, callerKey, max)
    <2>2. /\ k \in CallerKey \cup {NoKey, GeneratedKey(c)}
          /\ method = "POST" /\ k = NoKey => max = 0
        BY WithIdempotencyKeyType
    <2>3. /\ options' = [options EXCEPT ![c] = [method |-> method, max |-> max, key |-> k]]
          /\ net' = net \cup {[call |-> c, attempt |-> 1, method |-> method, key |-> k]}
        BY <2>1 DEF Send
    <2> HIDE DEF k
    <2>4. /\ phase[c] = "idle" /\ phase' = [phase EXCEPT ![c] = "fetching"]
          /\ attempt[c] = 1 /\ UNCHANGED <<attempt, execs, stored>>
        BY <1>1 DEF Start, AttemptsBounded
    <2>5. \A m \in net \cup execs : m.call # c /\ m.call \in Call
        BY <2>4 DEF RequestsOfCall, TypeOK, Request
    <2>6. KeysOfCall'
        BY <2>2, <2>3, <2>4 DEF KeysOfCall, TypeOK
    <2>7. AttemptsBounded'
        BY <2>3, <2>4, ParametersAssumption DEF AttemptsBounded, TypeOK
    <2>8. RequestsOfCall'
        BY <2>3, <2>4, <2>5 DEF RequestsOfCall, TypeOK
    <2>9. StoredKeys' /\ AtMostOnce'
        BY <2>3, <2>4, <2>5 DEF StoredKeys, AtMostOnce
    <2> QED
        BY <1>0, <2>6, <2>7, <2>8, <2>9
<1>2. ASSUME NEW c \in Call, Throws(c) PROVE OnceInv'
    <2>1. PICK e \in Error : Catch(c, e)
        BY <1>2 DEF Throws
    <2>a. options[c] \in Options
        BY <1>2 DEF Throws, TypeOK
    <2>2. options[c].max \in Nat /\ attempt[c] \in Nat
        BY <2>a, ParametersAssumption DEF TypeOK, Options
    <2>3. AttemptsBounded'
        BY <1>2, <2>1, <2>2 DEF Throws, Catch, ShouldRetryRequest, AttemptsBounded, TypeOK
    <2>4. RequestsOfCall'
        <3> SUFFICES ASSUME NEW m \in net \cup execs
                     PROVE  /\ phase'[m.call] # "idle"
                            /\ m.method = options'[m.call].method
                            /\ m.key = options'[m.call].key
                            /\ m.attempt <= attempt'[m.call]
                            /\ phase'[m.call] = "sleeping" => m.attempt < attempt'[m.call]
            BY <1>2 DEF Throws, RequestsOfCall
        <3>1. m.attempt \in Nat /\ m.call \in Call
            BY DEF TypeOK, Request
        <3> QED
            BY <1>2, <2>1, <2>2, <3>1 DEF Throws, Catch, RequestsOfCall, TypeOK
    <2>5. KeysOfCall' /\ StoredKeys' /\ AtMostOnce'
        BY <1>2 DEF Throws, KeysOfCall, StoredKeys, AtMostOnce
    <2> QED
        BY <1>0, <2>3, <2>4, <2>5
<1>3. ASSUME NEW c \in Call, ReceiveHeaders(c) \/ OkBody(c) \/ OkBodyBreaks(c)
      PROVE  OnceInv'
    <2>1. /\ phase[c] \notin {"idle", "sleeping"} /\ phase'[c] \notin {"idle", "sleeping"}
          /\ \A d \in Call : d # c => phase'[d] = phase[d]
          /\ UNCHANGED <<options, attempt, net, execs, stored>>
        BY <1>3 DEF ReceiveHeaders, OkBody, OkBodyBreaks, TypeOK
    <2>2. RequestsOfCall' /\ AttemptsBounded'
        BY <2>1 DEF RequestsOfCall, AttemptsBounded, TypeOK, Request
    <2>3. KeysOfCall' /\ StoredKeys' /\ AtMostOnce'
        BY <2>1 DEF KeysOfCall, StoredKeys, AtMostOnce
    <2> QED
        BY <1>0, <2>2, <2>3
<1>4. ASSUME NEW c \in Call, Wake(c) PROVE OnceInv'
    <2> DEFINE n == [call |-> c, attempt |-> attempt[c],
                     method |-> options[c].method, key |-> options[c].key]
    <2>1. /\ phase[c] = "sleeping" /\ phase' = [phase EXCEPT ![c] = "fetching"]
          /\ net' = net \cup {n} /\ UNCHANGED <<options, attempt, execs, stored>>
        BY <1>4 DEF Wake, Send
    <2>2. n \notin execs
        BY <2>1 DEF RequestsOfCall, TypeOK
    <2>3. RequestsOfCall' /\ AttemptsBounded'
        BY <2>1 DEF RequestsOfCall, AttemptsBounded, TypeOK, Request
    <2>4. KeysOfCall' /\ StoredKeys' /\ AtMostOnce'
        BY <2>1, <2>2 DEF KeysOfCall, StoredKeys, AtMostOnce
    <2> QED
        BY <1>0, <2>3, <2>4
<1>5. ASSUME NEW m \in net, Execute(m) PROVE OnceInv'
    <2>1. /\ net' = net \ {m} /\ UNCHANGED <<phase, options, attempt>>
          /\ execs' \subseteq execs \cup {m}
        BY <1>5 DEF Execute
    <2>2. RequestsOfCall' /\ KeysOfCall' /\ AttemptsBounded'
        BY <2>1 DEF RequestsOfCall, KeysOfCall, AttemptsBounded
    <2>3. CASE Replays(m)
        BY <1>0, <1>5, <2>1, <2>2, <2>3 DEF Execute, StoredKeys, AtMostOnce
    <2>4. CASE ~Replays(m)
        <3>1. /\ execs' = execs \cup {m}
              /\ stored' = IF m.method = "POST" /\ m.key # NoKey
                           THEN stored \cup {m.key} ELSE stored
            BY <1>5, <2>4 DEF Execute
        <3>2. StoredKeys'
            BY <2>1, <3>1 DEF StoredKeys
        <3>3. AtMostOnce'
            <4>1. \A e \in execs : e.call = m.call => e.method = m.method
                BY DEF RequestsOfCall
            <4>2. m.method = "POST" => \A e \in execs : e.call # m.call
                BY <2>4, FirstExecution
            <4> QED
                BY <3>1, <4>1, <4>2 DEF AtMostOnce
        <3> QED
            BY <1>0, <2>2, <3>2, <3>3
    <2> QED
        BY <2>3, <2>4
<1>6. ASSUME NEW m \in net, Refuse(m) \/ Lose(m) PROVE OnceInv'
    <2>1. net' = net \ {m} /\ UNCHANGED <<phase, options, attempt, execs, stored>>
        BY <1>6 DEF Refuse, Lose
    <2> QED
        BY <1>0, <2>1
        DEF RequestsOfCall, KeysOfCall, AttemptsBounded, StoredKeys, AtMostOnce
<1>7. CASE UNCHANGED vars
    BY <1>0, <1>7
    DEF vars, RequestsOfCall, KeysOfCall, AttemptsBounded, StoredKeys, AtMostOnce
<1> QED
    BY <1>1, <1>2, <1>3, <1>4, <1>5, <1>6, <1>7, ClientThrows DEF Next, Client, Done

(* However the attempts of a POST are aborted, delayed and re-sent, the API *)
(* applies it at most once.                                                 *)
THEOREM PostAppliedOnce == Spec => []AtMostOnce
<1>1. OnceInv => AtMostOnce
    BY DEF OnceInv
<1> QED
    BY <1>1, InitOnce, NextOnce, PTL DEF Spec

-----------------------------------------------------------------------------
(* Success means the effect happened. *)

SuccessInv == OnceInv /\ AnswersApplied

(* An effect, once there for a call that has started, stays. *)
LEMMA AppliedStays ==
    ASSUME NEW c \in Call, Applied(c), options'[c] = options[c], execs \subseteq execs'
    PROVE  Applied(c)'
<1> QED
    BY DEF Applied

(* Whether applied now or answered from memory, an executed request's call  *)
(* has its effect: a generated key is stored only by its own call.          *)
LEMMA ExecuteApplies ==
    ASSUME OnceInv, NEW m \in net, Execute(m)
    PROVE  Applied(m.call)'
<1> USE DEF OnceInv
<1>1. /\ m \in Request /\ m.call \in Call /\ options' = options
      /\ m.key = options[m.call].key
    BY DEF TypeOK, Request, RequestsOfCall, Execute
<1>2. CASE Replays(m)
    <2>1. PICK e \in execs : e.method = "POST" /\ e.key = m.key
        BY <1>2 DEF Replays, StoredKeys
    <2>2. execs' = execs
        BY <1>2 DEF Execute
    <2>3. e.call \in Call /\ e.key = options[e.call].key
        BY <1>1, <2>1 DEF TypeOK, Request, RequestsOfCall
    <2>4. m.key # NoKey
        BY <1>2 DEF Replays
    <2>5. CASE m.key \in CallerKey
        BY <1>1, <2>1, <2>2, <2>5 DEF Applied
    <2>6. CASE m.key \notin CallerKey
        <3>1. m.key = GeneratedKey(m.call) /\ e.key \in {GeneratedKey(e.call)}
            BY <1>1, <2>1, <2>3, <2>4, <2>6 DEF KeysOfCall
        <3>2. e.call = m.call
            BY <2>1, <3>1, GeneratedKeyInjective
        <3> QED
            BY <2>2, <3>2 DEF Applied
    <2> QED
        BY <2>5, <2>6
<1>3. CASE ~Replays(m)
    BY <1>3 DEF Execute, Applied
<1> QED
    BY <1>2, <1>3

LEMMA InitSuccess == Init => SuccessInv
<1> SUFFICES ASSUME Init PROVE SuccessInv
    OBVIOUS
<1>1. AnswersApplied
    BY DEF Init, AnswersApplied, NoAnswer, Ok
<1> QED
    BY <1>1, InitOnce DEF SuccessInv

LEMMA NextSuccess == SuccessInv /\ [Next]_vars => SuccessInv'
<1> SUFFICES ASSUME SuccessInv, [Next]_vars PROVE AnswersApplied'
    BY NextOnce DEF SuccessInv
<1>0. TypeOK /\ OnceInv /\ AnswersApplied /\ TypeOK'
    BY NextType DEF SuccessInv, OnceInv
<1>0a. ~Ok(NoAnswer.status)
    BY DEF NoAnswer, Ok
<1>1. ASSUME NEW c \in Call, Start(c) PROVE AnswersApplied'
    <2>1. /\ phase[c] = "idle" /\ phase' = [phase EXCEPT ![c] = "fetching"]
          /\ \A d \in Call : d # c => options'[d] = options[d]
          /\ UNCHANGED <<answer, execs>>
        BY <1>0, <1>1 DEF Start, TypeOK
    <2> QED
        BY <1>0, <1>0a, <2>1 DEF AnswersApplied, Applied, TypeOK
<1>2. ASSUME NEW c \in Call, Throws(c) PROVE AnswersApplied'
    <2>1. /\ phase'[c] \in {"sleeping", "failed"} /\ answer'[c] = NoAnswer
          /\ \A d \in Call : d # c => phase'[d] = phase[d] /\ answer'[d] = answer[d]
          /\ UNCHANGED <<options, execs>>
        BY <1>0, <1>2 DEF Throws, Catch, TypeOK
    <2> QED
        BY <1>0, <1>0a, <2>1 DEF AnswersApplied, Applied
<1>3. ASSUME NEW c \in Call, ReceiveHeaders(c) \/ OkBody(c) \/ OkBodyBreaks(c)
      PROVE  AnswersApplied'
    <2>1. /\ \/ phase'[c] \in {"errorBody", "failed"}
             \/ phase'[c] = "okBody" /\ Ok(answer[c].status)
             \/ phase'[c] = "ok" /\ phase[c] = "okBody"
          /\ \A d \in Call : d # c => phase'[d] = phase[d]
          /\ UNCHANGED <<options, answer, execs>>
        BY <1>0, <1>3 DEF ReceiveHeaders, OkBody, OkBodyBreaks, TypeOK
    <2> QED
        BY <1>0, <2>1 DEF AnswersApplied, Applied
<1>4. ASSUME NEW c \in Call, Wake(c) PROVE AnswersApplied'
    BY <1>0, <1>4 DEF Wake, AnswersApplied, Applied, TypeOK
<1>5. ASSUME NEW m \in net, Execute(m) PROVE AnswersApplied'
    <2>1. UNCHANGED <<phase, options>> /\ execs \subseteq execs'
        BY <1>5 DEF Execute
    <2>2. PICK status \in Status, body \in Body : Reply(m, status, body)
        BY <1>5 DEF Execute
    <2>3. Applied(m.call)'
        BY <1>0, <1>5, ExecuteApplies
    <2>4. \A d \in Call : d # m.call \/ phase[d] # "fetching" => answer'[d] = answer[d]
        BY <1>0, <2>2 DEF Reply, Awaited, TypeOK
    <2>5. ASSUME NEW d \in Call, Applied(d) PROVE Applied(d)'
        BY <2>1, <2>5, AppliedStays
    <2> QED
        BY <1>0, <2>1, <2>3, <2>4, <2>5 DEF AnswersApplied
<1>6. ASSUME NEW m \in net, Refuse(m) PROVE AnswersApplied'
    <2>1. UNCHANGED <<phase, options, execs>>
        BY <1>6 DEF Refuse
    <2>2. PICK status \in Status, body \in Body : ~Ok(status) /\ Reply(m, status, body)
        BY <1>6 DEF Refuse
    <2>3. \A d \in Call : \/ answer'[d] = answer[d]
                          \/ phase[d] = "fetching" /\ ~Ok(answer'[d].status)
        BY <1>0, <2>2 DEF Reply, Awaited, TypeOK
    <2> QED
        BY <1>0, <2>1, <2>3 DEF AnswersApplied, Applied
<1>7. ASSUME NEW m \in net, Lose(m) PROVE AnswersApplied'
    BY <1>0, <1>7 DEF Lose, AnswersApplied, Applied
<1>8. CASE UNCHANGED vars
    BY <1>0, <1>8 DEF vars, AnswersApplied, Applied
<1> QED
    BY <1>0, <1>1, <1>2, <1>3, <1>4, <1>5, <1>6, <1>7, <1>8, ClientThrows
    DEF Next, Client, Done

(* A call that resolved has had its effect at the API, under its own key or *)
(* the one its caller reused.                                               *)
THEOREM SuccessMeansApplied == Spec => []OkMeansApplied
<1>1. SuccessInv => OkMeansApplied
    BY DEF SuccessInv, AnswersApplied, Applied, OkMeansApplied
<1> QED
    BY <1>1, InitSuccess, NextSuccess, PTL DEF Spec

-----------------------------------------------------------------------------
(* Transient failures surface only when the attempts are used up. *)

ExhaustedInv == OnceInv /\ TransientExhausted /\ ErrorsOfFailed

LEMMA InitExhausted == Init => ExhaustedInv
<1> SUFFICES ASSUME Init PROVE ExhaustedInv
    OBVIOUS
<1>1. TransientExhausted /\ ErrorsOfFailed
    BY DEF Init, TransientExhausted, ErrorsOfFailed, NoOptions, NoError
<1> QED
    BY <1>1, InitOnce DEF ExhaustedInv

LEMMA NextExhausted == ExhaustedInv /\ [Next]_vars => ExhaustedInv'
<1> SUFFICES ASSUME ExhaustedInv, [Next]_vars PROVE TransientExhausted' /\ ErrorsOfFailed'
    BY NextOnce DEF ExhaustedInv
<1>0. /\ TypeOK /\ OnceInv /\ TransientExhausted /\ ErrorsOfFailed
      /\ AttemptsBounded' /\ TypeOK'
    BY NextOnce DEF ExhaustedInv, OnceInv
<1>0a. \A d \in Call : attempt'[d] <= options'[d].max + 1
    BY <1>0 DEF AttemptsBounded
<1>1. ASSUME NEW c \in Call, Start(c) PROVE TransientExhausted' /\ ErrorsOfFailed'
    <2>1. /\ phase[c] = "idle" /\ \A d \in Call : d # c => phase'[d] = phase[d]
          /\ \A d \in Call : d # c => options'[d] = options[d]
          /\ UNCHANGED <<attempt, error>>
        BY <1>0, <1>1 DEF Start, TypeOK
    <2>2. error[c] = NoError
        BY <1>0, <2>1 DEF ErrorsOfFailed
    <2> QED
        BY <1>0, <1>0a, <2>1, <2>2 DEF TransientExhausted, ErrorsOfFailed, NoError
<1>2. ASSUME NEW c \in Call, Throws(c) PROVE TransientExhausted' /\ ErrorsOfFailed'
    <2>1. PICK e \in Error : /\ Catch(c, e)
                             /\ e.type # "TypeError" \/ e.status = 0
        BY <1>2 DEF Throws
    <2>2. options[c] \in Options /\ attempt[c] \in Nat /\ options[c].max \in Nat
        BY <1>0, <1>2, ParametersAssumption, ZenonT(30) DEF Throws, TypeOK, Options
    <2>3. /\ UNCHANGED options /\ phase[c] \notin {"failed"}
          /\ \A d \in Call : d # c =>
                phase'[d] = phase[d] /\ attempt'[d] = attempt[d] /\ error'[d] = error[d]
        BY <1>0, <1>2, <2>1 DEF Throws, Catch, TypeOK
    <2>4. CASE ShouldRetryRequest(e, attempt[c], options[c].max)
        <3>1. error' = error
            BY <2>1, <2>4 DEF Catch
        <3>2. error[c] = NoError
            BY <1>0, <2>3 DEF ErrorsOfFailed
        <3> QED
            BY <1>0, <1>0a, <2>3, <3>1, <3>2 DEF TransientExhausted, ErrorsOfFailed, NoError
    <2>5. CASE ~ShouldRetryRequest(e, attempt[c], options[c].max)
        <3>1. phase'[c] = "failed" /\ error'[c] = e /\ attempt'[c] = attempt[c]
            BY <1>0, <2>1, <2>5 DEF Catch, TypeOK
        <3>2. Transient(e) => attempt[c] > options[c].max
            BY <2>1, <2>2, <2>5 DEF ShouldRetryRequest, Transient, Error
        <3>3. Transient(e) => attempt[c] = options[c].max + 1
            BY <1>0, <2>2, <3>2 DEF TransientExhausted
        <3> QED
            BY <1>0, <1>0a, <2>3, <3>1, <3>3 DEF TransientExhausted, ErrorsOfFailed
    <2> QED
        BY <2>4, <2>5
<1>3. ASSUME NEW c \in Call, OkBody(c) \/ OkBodyBreaks(c)
      PROVE  TransientExhausted' /\ ErrorsOfFailed'
    <2>1. /\ UNCHANGED <<options, attempt>>
          /\ \A d \in Call : d # c => phase'[d] = phase[d] /\ error'[d] = error[d]
          /\ \/ error' = error /\ phase[c] = "okBody"
             \/ phase'[c] = "failed" /\ error'[c].from = "toJSON"
        BY <1>0, <1>3 DEF OkBody, OkBodyBreaks, TypeOK
    <2> QED
        BY <1>0, <1>0a, <2>1 DEF TransientExhausted, ErrorsOfFailed, NoError
<1>4. ASSUME NEW c \in Call, ReceiveHeaders(c) \/ Wake(c)
      PROVE  TransientExhausted' /\ ErrorsOfFailed'
    BY <1>0, <1>4 DEF ReceiveHeaders, Wake, TransientExhausted, ErrorsOfFailed, TypeOK
<1>5. CASE UNCHANGED <<phase, options, attempt, error>>
    BY <1>0, <1>5 DEF TransientExhausted, ErrorsOfFailed
<1> QED
    BY <1>0, <1>1, <1>2, <1>3, <1>4, <1>5, ClientThrows
    DEF Next, Client, Done, Execute, Refuse, Lose, vars

(* No transient failure of fetchRequest reaches the caller while an attempt *)
(* is left, and no call is attempted more than maxRetries + 1 times.        *)
THEOREM TransientSurfacesLast == Spec => []TransientExhausted
<1>1. ExhaustedInv => TransientExhausted
    BY DEF ExhaustedInv
<1> QED
    BY <1>1, InitExhausted, NextExhausted, PTL DEF Spec
=============================================================================
