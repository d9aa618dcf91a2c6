# A TLA+ verification of the WorkOS Node SDK

This directory models the parts of `workos-node` that have behaviour of their
own: the HTTP transport with its retries and idempotency keys, clients from their
construction to the exception a failed call throws, the walk over the pages of a
list, the feature-flag runtime client and the event emitter under it, the cookie
session, and the calculations whose boundaries matter: flag evaluation, signed
deliveries and the events in them, the vault's envelope, and every delay.
The modules are translated from the TypeScript under `src/src/`, checked with
TLC on small instances, and, where it pays, proved with TLAPS for every value of
the constants. `PROJECT.json` maps each definition to the lines it models.

Paths below are relative to `src/src/`.

## 1. Inventory

| Component | State | Operations | Talks to | Hard because |
|---|---|---|---|---|
| HTTP transport (`common/net/fetch-client.ts`, `http-client.ts`) | per call: attempt counter, headers with the idempotency key, abort timer | `fetchRequestWithRetry`, `fetchRequest`, `toJSON` | `fetch`, timers | an aborted attempt may still be executed; two bodies are read outside the timer, one outside the retry loop |
| Request methods and errors (`workos.ts`, `common/exceptions`) | none per call | `get/post/put/patch/delete/deleteWithBody`, `handleHttpError` | transport | ordered shapes of an error body; what is not an HTTP error is wrapped |
| Flag runtime client (`feature-flags/runtime-client.ts`, `in-memory-store.ts`) | `store`, `closed`, `initialized`, `consecutiveErrors`, ready promise, timer, abort controller | `poll`, `fetchWithTimeout`, `emitChanges`, `close`, readers | `WorkOS.get`, timers, listeners | a three-way race whose losers go on, `close` between any two steps, listeners that throw or re-enter |
| Event emitter (`feature-flags/event-emitter.ts`) | listeners per event | `on`, `off`, `once`, `emit`, `removeAllListeners` | listeners | `emit` re-entered, lists changed while they are iterated, unheard `'error'` |
| Flag evaluator (`feature-flags/evaluator.ts`) | none | `isEnabled`, `getAllFlags` | store | precedence of targets; must read nothing that change detection does not compare |
| Cookie session (`user-management/session.ts`) | `sessionData`, `cookiePassword` | `authenticate`, `refresh`, `getLogoutUrl` | `unsealData`, user management, JWKS | overlapping refreshes of one instance, one-time tokens, failures after the exchange |
| Sealing (`common/crypto/seal.ts`) | none | `sealData`, `unsealData` | iron | a wrong password is an empty session, not an error |
| User management (`user-management/user-management.ts`) | memoised JWKS | `authenticateWith*`, sessions, users, invitations, factors | request methods | sealing after the exchange |
| Pagination (`common/utils/pagination.ts`) | first page, options | `autoPagination` | request methods | a list that changes between pages |
| Vault (`vault/`) | none | objects, data keys, `encrypt`, `decrypt` | request methods, crypto | LEB128 length prefix in 32-bit shifts, offsets that move with its width |
| Signatures (`webhooks/`, `actions/`, `common/crypto/`) | none | `constructEvent`, `constructAction`, `verifyHeader`, `signResponse` | crypto | what is verified must be what is parsed; units and boundary of the tolerance |
| Events (`common/interfaces/event.interface.ts`, `common/serializers/event.serializer.ts`) | none | `deserializeEvent` | signatures, `listEvents` | a switch over some hundred names the compiler does not check |
| PKCE and URLs (`pkce/`, `sso/`) | none | `generate`, `getAuthorizationUrl*` | crypto | lengths |
| Lazy loading (`utils/jose.ts`) | memoised promise | `getJose` | dynamic import, session | a rejection is memoised too |
| Construction (`factory.ts`, `common/utils/env.ts`) | options, key, clientId | `createWorkOS`, constructor | environment | public and confidential clients, two sources of each credential |
| Resource modules | none | one request per method | request methods | verbs and keys only |
| Interfaces, serializers | none | renaming of fields | — | — |

How they interact: every operation is a call of a request method, which awaits
the transport and maps what it throws. The runtime client races such a call
against its own timer; the cookie session makes one between reading and writing
its two fields. There are no threads: concurrency is the interleaving of promise
chains at their awaits, with timers and with the application's own calls.

What makes each correct, in one line:

* transport — a POST takes effect at most once; a success is never reported
  without an effect; a transient failure surfaces only after the last attempt;
  every call settles, or waits for a body that never comes;
* errors — the advice an application gets (sign out, or keep the session and
  retry) is the one the API gave;
* runtime client — the store never goes back, `change` events are enough to
  follow it and a listener that throws costs one poll's, ready means flags, a closed
  client starts nothing, polling never hangs and changes arrive;
* clients — a client without an API key reaches the public methods and no others,
  and no code is exchanged without a secret or a verifier, but by the one method that
  takes an empty verifier;
* pagination — a walk returns every object that stays, once and in order, whatever
  is created and deleted meanwhile, and ends;
* session — a failed call leaves the instance as it was, a refreshed session
  opens, the instance holds a token the API accepts;
* emitter — an emission calls exactly the listeners its event had when it began,
  in order;
* calculations — no change of a flag's worth goes unreported; what is accepted is
  authentic and what is genuine is accepted, up to the last millisecond; what is
  sealed opens, and what its text loses is known; no wait is longer than the server,
  the options and the caps allow.

## 2. Modules

### `FetchRetry` — the transport

State per call: `phase` is the await the promise chain is suspended on
(`fetching`: `await fetch()`; `errorBody`: `await res.text()` in `fetchRequest`;
`okBody`: `await text()` in `toJSON`; `sleeping`: the backoff), `options` the
arguments of `fetchRequestWithRetry` with the header `withIdempotencyKey` made,
`attempt` is `retryAttempts`, `answer` and `error` what `fetch` resolved with and
the caller saw. `net`, `execs` and `stored` are the network and the API.

| Code | Actions |
|---|---|
| `WorkOS.post` … to the first `fetch` | `Start`, `WithIdempotencyKey`, `Send` |
| abort timer, rejected `fetch`, headers | `Timeout`, `NetworkError`, `ReceiveHeaders` |
| body of an error answer | `ErrorBody`, `ErrorBodyBreaks` |
| `makeRequest`'s catch | `Catch`, `ShouldRetryRequest` |
| `sleep` | `Wake` |
| `toJSON` of a 2xx answer | `OkBody`, `OkBodyBreaks` |
| the API, gateways, network (external) | `Execute`, `Refuse`, `Lose` |

A request stays in `net` after its attempt was aborted, so the API may execute it
after the retry. The API remembers the results of POST keys it has seen, as the
comment at `fetch-client.ts:280` states; a gateway may replace the answer of a
request that was executed by a transient status. The Execute branch assumes that
remembering and applying are one step of the API.

### `ApiErrors` — failures to exceptions to advice

Operators only: `HandleHttpError` is `handleHttpError` with its switch and the
ordered default branch, `RefreshReason` the catch block of
`CookieSession.refresh`. An error body is the five fields the code looks at.
`Client` and `SessionRefresh` extend it.

### `Operations` — the methods that send a request

One definition per group of methods of a resource module, mapped to their lines:
the method, and the request method of `WorkOS` it goes through. They have no state
of their own, so this is all `Client` needs to know of them.

### `Client` — from the constructor to the exception

A client is made by the constructor or by `createWorkOS`, with any options in any
environment, then calls any method of `Operations` or any exchange of credentials.

| Code | Actions |
|---|---|
| `new WorkOS`, `createWorkOS`, `getEnv` | `Construct`, `CreateWorkOS`, `FromOptionsOrEnv` |
| `resolveClientId`, the verifier checks of `authenticateWithCode` and `getProfileAndToken` | `ClientIdMissing`, `ProofMissing` |
| `requireApiKey` in the six request methods, `skipApiKeyCheck` | `ApiKeyMissing`, `SkipsApiKeyCheck` |
| a method up to the request it sends | `Call` |
| the answer, `prepareAuthenticationResponse` | `Answer` |
| what the transport throws, `handleHttpError` | `Fail` |
| the catch block of `CookieSession.refresh` | `SessionRefresh` |

A verifier is absent, empty or given, as the types of each method admit it.
The order of the checks is the code's: clientId, verifier, API key. What the
transport does between the request and its answer is `FetchRetry`'s subject.

### `Pagination` and `ListWalk` — the walk over a list

`Pagination` is a list method, the `AutoPaginatable` it returns and
`autoPagination()`, beside an application that creates and deletes objects. `List` is
the list method, `AutoPagination` the head of `autoPagination()`, `PageArrives`,
`PageFails` and `Delay` the awaits of `generatePages`, `Serve` the API's list
endpoint: what a query finds (`Found`), in the query's order, cut at the limit. A page
is defined by rank (`Ranking`: the k-th smallest of a set), with no sorting, so that a
proof can say what is in it. A request has the filter under the name it has on the
wire; the API ignores names it does not know. Three list methods stand for the three
ways the options of the first request and of the walk are made: serialised both times
(`listDirectories`), never (`listOrganizations`), the first time only (`listObjects`).

`ListWalk` is what the doc of `autoPagination` promises, with no pages and no
cursor: a walk begins, the list changes, and it returns at once, in order, all
that stayed and nothing that never was there. `Pagination` implements it
(`ReturnsCompleteSet`): its pages are stuttering steps, its last page is `Return`.

### `FlagClient` — the runtime client

`phase` is where `poll()` is: waiting for the first timer (`deferred`, on which
`close()` has no handle), waiting for `pollTimer` (`scheduled`), in the await of
`fetchWithTimeout` (`fetching`), ended (`stopped`), or left by an exception of a
listener (`crashed`). `outcome` is what the race has settled with but `poll()`
has not yet seen; between the two, `Close` may run. `requests` follows `workos.get`
calls, abandoned ones included. `mirror` is the copy an application keeps from
`change` events, `synced` that it was read after the first poll, and `missed` the flags
whose last change a listener that threw kept from it: they exist only for
`MirrorFollows`.

| Code | Actions |
|---|---|
| constructor | `Init` |
| `poll` to its await, `fetchWithTimeout` | `Poll` |
| timer of the race | `PollTimeout` |
| `poll` after a success: swap, stats, `emitChanges`, ready, schedule | `PollSucceeds` |
| `poll`'s catch block, `emit('error')`, `emit('failed')` | `PollFails`, `Catch`, `CatchTransient`, `CatchUnauthorized` |
| `scheduleNextPoll` | `ScheduleNextPoll` |
| `close` | `Close`, `ClosedBy` (from a listener) |
| `on` | `Listen` |
| the API (external) | `ServerChange`, `Serve`, `Arrive`, `Fail` |

A listener returns, throws, or calls `close()`. One that throws in the middle of the
events of a poll was told any part of them (`told`), having applied the one it threw at
or not. `emit` throws on an `'error'` nobody listens to. What `FlagClient` takes of the emitter is that one emission
reaches the listeners of its event before `poll()` goes on; that the emitter does
so is `EventEmitter`'s subject.

### `EventEmitter` and `ListenerContract` — the emitter

`handlers` is the Map, `stack` the emissions that run, each with the copy of the
list it iterates and how far it is; `issued` numbers the Handler objects, whose
identity `remove` compares. `Add` is `on` and `once`, `Off` and
`RemoveAllListeners` the removals (`Filter` is `list.filter`, by the ranks of the
positions that stay), `Emit` the head of `emit`, `Dispatch` one turn of
its loop up to the call of the listener, `Finish` its end. Whenever no emission is
between two listeners, any code may run: the application's, or the listener's that
is being called (`CallerRuns`), which may also `Return` or `Throw`.

`ListenerContract` has no lists: a set of registrations and, per emission, those it
still owes. `EventEmitter` implements it (`KeepsContract`) with the mapping of its
Map to the set and of the rest of each copy to what is due.

### `Algorithms` — calculations on inputs

A step chooses the input of one calculation, the next forgets it, and an invariant
compares what is calculated with what its callers rely on. The calculations are in
modules of their own:

| Module | Code | Compared with |
|---|---|---|
| `FlagEvaluation` | `isEnabled`, `hasEntryChanged` | each other: entries that are not told apart are worth the same to everyone |
| `Deliveries` | `verifyHeader`, `decodePayloadToString`, `constructEvent`, `constructAction`, `signResponse` | what the API signed, when, and in which spelling |
| `Events` | the declarations of events; the switch of `deserializeEvent`, its default branch | each other: every declared event has its own case |
| `Leb128` | `encodeUInt32`, `decodeUInt32` with 32-bit shifts | the number that was encoded |
| `Envelope` | `Vault.encrypt`, `decode`, `decrypt` | the parts that were sealed |
| `Delays` | `parseRetryAfter`, `sleep`, `getSleepTimeInMilliseconds`, `scheduleNextPoll` | what the server asked for and the caps |

A body is its content and its spelling (as `JSON.stringify` writes it, otherwise
spaced, or after a byte order mark), since the signature is over the text and the
application gets the content; a webhook carries an event and an action one of the
actions (`Contents`). Where a calculation is a loop (`Backoff`, the bits of a length in `Halves` and `Doubles`) it is a recursive function. A 32-bit number is
the set of its bits. A byte of an envelope remembers which part it was written for,
which the code never reads. A text is a sequence of characters, of which a byte order
mark, a lone surrogate and U+FFFD differ from the rest: `TextEncode` and `TextDecode` do
to them what `TextEncoder` and `TextDecoder` do. A character is one byte, whatever its
width in UTF-8, on which nothing depends. A poll's delay goes through `SetTimeout`,
which takes for 1 ms what it cannot count; its limit is the constant `TIMEOUT_MAX`.

### `SessionRefresh` — the cookie session

`jose` is the memoised import every call awaits: loaded or rejected once and for
all (`GetJose`, `NeedsJose`, `RefreshWithoutJose`).
`sessionData` and `cookiePassword` are the two fields of the instance; a sealed
session is the refresh token in it and the password that opens it. Each call is
the sequence of its awaits: `Refresh` (up to `await getJose()`), `RefreshUnseal`
(reads both fields), `RefreshSend` (reads `cookiePassword` again, sends the
exchange), the exchange and its failures (`Exchanged`, `AnswerLost`, `Refused`),
the seal (`SealFails`), `RefreshCommit` (both assignments and the result).
`authenticate()` reads in the call (`Authenticate`) and verifies later
(`AuthenticateVerify`). Failures go through `ApiErrors`.

## 3. Runs

| Run | Bounds | Shows |
|---|---|---|
| `retry_safety` | 2 calls, POST and DELETE, 0 or 1 retry, one reusable caller key, 200/400/503 | `AtMostOnce`, `OkMeansApplied` under every delay, loss and replaced answer; `TransientExhausted`; a call settles or waits for a body (`Settles`) |
| `client_calls` | every method, options and environment; every failure of the refresh exchange over ten statuses | what a client without a key can send; what advice each failure gets, and which lose theirs |
| `flags` | 2 flags, 1 entry or none, versions 0 to 2, 2 outstanding requests, listeners that return, throw or close | the store never goes back, events suffice but for those a throw kept back, ready means flags, closed is closed; the loop never hangs; if the API answers, changes arrive and ready settles |
| `emitter` | 2 events, 2 listener functions, 3 registrations, 3 emissions nested 2 deep | the emitter implements `ListenerContract`; a `once` listener is called again only by an emission around the one that called it |
| `algorithms` | the boundaries of every input (`MCAlgorithms`) | `ChangesAreReported`, `AcceptedIsAuthentic`, `GenuineIsAccepted`, `DeliveredAsDeclared`, `NumbersRoundTrip`, `EnvelopeOpens`, `RetryAfterIsHonoured`, `PollsAreSpaced` |
| `session_safety` | 3 calls, 3 passwords (one too weak), 3 tokens, an API that retires exchanged tokens or keeps them | a failed call changes nothing, a refreshed session opens, the token held is live |
| `pagination_walk` | 4 objects, pages of 2 (walk) and 1 (first page), both orders, any `after` and `limit` | the walk is complete, ordered, and ends |
| `errors_requestid` (violation) | as `client_calls` | the request id of an answer is lost |
| `session_password` (violation) | 2 calls | overlapping refreshes with a new password leave the two fields apart |
| `session_overlap` (violation) | 2 calls | one of two overlapping refreshes is told that a session is over which the instance holds |
| `pagination_vault` (violation) | as `pagination_walk`, `listObjects` with `updatedAfter` | the walk drops the filter |
| `client_factory` (violation) | as `client_calls` | `createWorkOS` reads the environment |

Why the bounds are enough. In `FetchRetry` calls share only the API's memory of
keys, so two calls with one key to share reach every interaction, and the proofs
cover the rest. One retry already puts an aborted attempt beside the one that
follows it. `Client` is finite: methods, arguments and failures are enumerated
whole, the ten statuses hold each case of the switches and one on each side of
their limits, and only the refresh exchange, whose exceptions are looked at
again, is tried with every failure. In `Pagination` four objects in pages of two
allow a first, a middle and a last page, a cursor whose object is gone, and
creation and deletion on both sides of it. In
`FlagClient` one race is open at a time, so one abandoned request beside the
current one is the interesting case; two flags tell a changed from an unchanged
one; with versions 0 to 2 an abandoned answer of version 1 can meet a store of
version 2, and the error counter matters only through zero. In `EventEmitter` two
emissions nest on one event, so the inner one changes the list the outer one
iterates, and three registrations leave one to come after the change on each side
of it. In `SessionRefresh` a call touches the instance twice, so two calls
interfere and the third observes; three tokens allow each refresh of two a fresh one.

`Algorithms` has no interleaving, so its bounds are the values at which a calculation
turns: two users and an organization with every list of targets of up to two; every
declared event, every action and one unknown of each; ages of −5 s, 0, and one
millisecond on each side of the tolerance; the numbers of 0 to 32 bits that are all
ones, a single bit, or a bit and one; wrapped keys on both sides of the lengths that
take one, two and three bytes of prefix, short envelopes cut at every place and long
ones at their ends; `Retry-After` on both sides of zero and of a minute; zero to eight
consecutive errors. `NumbersRoundTrip` is checked at every width and every boundary
between widths, and proved for every number (section 6).

`TIMEOUT_MAX` is 150000 in the runs. TLC's integers end at 2³¹ − 1, where the limit of
the runtime lies, and the factor of a poll is in thousandths; the intervals stand on
both sides of the value each random factor makes of the limit. `PollsKeepApart`
(section 6) is for every limit, that of Node included. Texts have marks in front, further
on, doubled and alone, and lone surrogates beside what they become; each is also tried
as associated data against each other.

`CHECK_DEADLOCK FALSE` is used for `FlagClient` only, whose loop may end. In the
others a finished state either has a step (`Done`, `Forget`, `Off`) or is not reached.

## 4. Fairness

* `FetchRetry!TimersFire` — `setTimeout` callbacks run: the abort timer of an
  attempt and the backoff. The event loop gives that. A body whose headers came is
  given no fairness: the timer of an attempt is cleared at the headers
  (`fetch-client.ts:211-214`) and `res.text()` is awaited without one. So `Settles`
  says that a call settles or waits for ever in one of the two body reads, and the
  retry such an attempt would lead to is never made.
* `Pagination!SpecFair` — a page that was asked for arrives or fails, which assumes of
  the network that bodies come (all else is `FetchRetry`'s `Settles`), and the delay
  between two pages ends.
* `FlagClient!EventLoop` — the poll timer, the race's timer and the continuation
  of `poll()` run. It is the fairness of the specification (`SpecLive`).
* `FlagClient!ApiAnswers` — strong fairness of the API answering the race that is
  open: it does so in time again and again. It is the premise within `ChangesArrive` and
  `ReadySettles`; `KeepsPolling` does not need it.

## 5. Where code and documentation part

Five disagreements are runs TLC finds violated, quoted in `PROJECT.json` under
`findings`:

1. `requestID` is read from a `Headers` object by index and is always empty
   (`errors_requestid`).
2. `createWorkOS` is documented (`factory.ts:79`) not to read the environment, and does
   (`client_factory`).
3. Overlapping refreshes of which one changes the password leave a session the
   instance cannot open (`session_password`).
4. Of two overlapping refreshes against an API that rotates tokens, one tells its caller
   that "the session is over" while the instance holds a live one (`session_overlap`).
5. `vault.listObjects` hands its unserialised options to the walk, whose pages are
   then not filtered by `updatedAfter` (`pagination_vault`).

Five more are stated by properties that hold, each as an equivalence or an alternative
that says exactly where the code leaves its documentation:

1. "Classify by HTTP status regardless of which exception wraps it" (`session.ts:311`)
   does not hold for a body that is not JSON, nor for one with `code` and `errors`, and
   holds for all others (`TransientIsRetryable`).
2. A refusal whose body is the JSON value `null` makes `handleHttpError` throw a
   `TypeError`, which `refresh` takes for one of the "Network-level failures"
   (`session.ts:343`) and tells as retryable; no other refusal is (`RefusalIsFinal`).
3. `authenticateWithCodeAndVerifier` exchanges a code "using PKCE"
   (`user-management.ts:445`) with an empty verifier, which the two other methods that
   take one refuse (`CodeIsProved`).
4. The "Per-request timeout" (`http-client.ts:11`) ends at the headers (`Settles`).
5. `pollingIntervalMs` has a minimum of 5000 (`runtime-client.spec.ts:210`), unless it is
   so large that `setTimeout` takes it for 1 (`PollsAreSpaced`).

## 6. Proofs

Every invariant, every action property and both refinements of the passing runs are
stated by a theorem, which holds for every value of the constants that satisfies the
named assumptions; TLC evaluates those assumptions in the runs. What is left to TLC
is at the end of this section.

Eight modules hold the theorems, one for each of the state machines, `AlgorithmsProofs`
for the calculations and `RankingProofs` for lemmas two others share. Each EXTENDS the
module it is about, and none reaches a RECURSIVE operator. The argument is the same
throughout: an invariant holds initially, each action keeps it (one step per action),
it implies the property; the temporal step is by PTL. An implication between temporal
properties, the refinements, has the same form: each step of the one is a step of
the other or changes nothing it sees.

`FetchRetryProofs` proves, for every set of calls and caller keys, every set of
methods, statuses and retry limits (assumptions: `KeysAssumption`, a generated key is
no caller's; `ParametersAssumption`, the types):

* `TypeCorrect` — `TypeOK` is inductive.
* `PostAppliedOnce` — `AtMostOnce` is not: it says nothing of requests still on
  their way. `OnceInv` adds that every request carries the method and key of its
  call (`RequestsOfCall`), that a key is the caller's or the call's own and a POST
  without one is never retried (`KeysOfCall`), that attempts are bounded and a
  sleeping call has no request of its next attempt (`AttemptsBounded`), and that
  the API remembers the keys it applied (`StoredKeys`).
* `SuccessMeansApplied` — `SuccessInv` adds that an ok status on its way to the
  caller already stands for an effect (`AnswersApplied`).
* `TransientSurfacesLast` — `ExhaustedInv` adds that only failed calls have errors.

`ClientProofs` proves, for every environment, options and arguments and whatever
statuses the API answers with:

* `ClientTypeOK` — `TypeOK`, which relates the parts of the state besides typing them:
  the verb on the wire is that of the method called, and a call has an exception exactly
  when it has rejected. That no failure maps to no exception is `FailureIsThrown`, that
  the catch block of a refresh ends in a listed reason or rethrows `ReasonIsKnown`.
* `KeylessSendsPublic` — `PublicSurface`. It is not inductive: when a call fails or
  resolves, what was sent is already fixed. `SurfaceInv` adds that nothing is sent
  before a call (`NothingSentYet`) and that what is on the wire without a key is a
  public method (`SentIsPublic`). It rests on `SkippedByPublicOnly`: on a client
  without a key the check is skipped by exactly the public methods.
* `CodeExchangeIsProved` — `CodeIsProved`, an equivalence: what is sent proves who
  exchanges a code, except for the empty verifier one method lets pass. Strengthened by
  `NothingSentYet`, on what each exchange is given (`VerifierOfCode`).
* `RefusalsAreFinal`, `TransientKeepsSession`, `TerminalIsTold` — the advice an
  application gets, for every status and every body, each an equivalence: the first
  two name the bodies that are the only exceptions. `AdviceInv` says where a reason
  comes from: nothing has failed before a rejection (`NothingFailedYet`), an exception
  is that of the failure or was made by a check before the request
  (`ExceptionOfFailure`), and a reason is the one of the exception
  (`AdviceOfException`). The rest is lemmas about `ApiErrors`: what an answer of a
  status with an exception of its own becomes (`NamedException`), what the default
  branch keeps of the body (`DefaultFields`), and that a classification is terminal
  exactly when the advice is (`TerminalIsClassified`). They use `NoValueAssumption`:
  the absence of a field is none of its values.

`FlagClientProofs` proves, for any flags, entries, followed requests and reactions of
listeners (`FlagAssumption`):

* `LoopTypeCorrect` — `TypeOK` is inductive.
* `StoreIsMonotonic` — an action property; `StoreInv` says that every answer is of a
  version the environment has had (`AnswersAreVersions`), and that the answer the
  running poll waits for, or has been settled with, is no older than the store
  (`AnswersAreLater`): it was asked for after the store was filled. Abandoned requests
  have no such bound, and do not need it, since only the race's own settles it.
* `EventsSuffice` — `MirrorInv` adds that nobody is in step before the first flags
  (`SyncedAfterFirst`); `PreviousIsStore` makes the events of a poll the difference of
  the copy before and the copy after, so a flag is right if its change was told or if it
  has none, and a flag that was missed is right again once it changes.
* `ReadyIsMeant` — `ReadyInv` adds that the store is empty until the first flags.
* `ClosedIsOver` — an action property; `NoneScheduledWhenClosed` is what `close()`
  establishes by clearing `pollTimer` and the end of a poll keeps by looking at `closed`.

`SessionRefreshProofs` proves, for any calls, passwords, tokens and refusals
(`SessionAssumption`):

* `SessionTypeCorrect` — with `SessionInv`, what a call knows at each of its awaits
  (`CallInv`): that a refresh beyond the first await has jose, which password it
  seals with, which token it was given.
* `FailedCallsKeepSession` — an action property: only a commit changes the instance,
  and a commit is a success (`OnlyCommitChanges`).
* `RefreshedSessionOpens` — `OpensInv` adds that two refreshes under way have been
  noted (`OverlapSeen`) and that, unless overlapped with a changed password, the
  password a call read is still the instance's (`PasswordIsCurrent`), which is what
  the finding `session_password` breaks.
* `LiveTokenIsHeld` — `LiveInv` adds that an API that does not retire tokens keeps
  them all (`AllKept`), and that one that does accepts the instance's token, or that
  of the refresh about to commit (`QuietHoldsLive`).

`PaginationProofs` proves, for any number of objects, pages of any size, any options
and an application that creates and deletes at any time (`PaginationAssumption`):

* `PaginationTypeOK`, `NothingIsSkipped`, `PagesAreInOrder` — neither of the last two is
  inductive. `WalkInv` adds where a walk is (`Placed`): it has collected nothing and
  is where it was asked to begin, or it is at a cursor such that nothing collected lies
  beyond it. The next page lies beyond the cursor (`PageLiesAhead`), so order is kept and
  nothing comes twice; and what a page does not have lies beyond its own cursor, or the
  page has no cursor and is the last (`PageProperties`), so an object that stays is
  collected or still ahead. The cursor need not be in the list any more: it is compared,
  not looked up. Objects in `steady` are live (`SteadyIsLive`).
* `WalkIsComplete` — `ReturnsCompleteSet`, the refinement of `ListWalk`. `RefInv` adds
  what the promise remembers: everything in the list that was asked for has been
  there during the walk (`EverIsAll`), and all that was collected is of it
  (`CollectedWasThere`); `WalkStep` maps each action. It assumes `Followed`: every filter
  a request may have is one the API understands in the request of a walk's page. The code
  does not give that. It is false of `listObjects` with `updatedAfter`, which is the
  finding `pagination_vault`; `walk` has the other filters, and TLC checks there that
  the refinement holds for them.

`EventEmitterProofs` proves, for any events, listener functions, number of
registrations and depth of nesting:

* `EmitterTypeOK`, `OnceIsCalledOnce` — `OnceOnlyAgainOutside` speaks of the emissions
  that run, and is broken by a `once` listener that stays in its slot after it was
  called: the next emission would copy it. `EmitterInv` adds that a `once`
  registration that was called is in no slot (`CalledOnceIsGone`), and, since the code
  removes by identity, that a Handler object is one registration wherever it is seen,
  in a slot or in the copy of an emission (`IdsIdentify`), that slots are never empty
  lists and are in the order of registration (`SlotsOK`), and that an emission began
  after those around it (`StackOK`).
* `EmitterKeepsContract` — the refinement of `ListenerContract`, in which there are no
  lists. What the slots hold is a set (`InForce`), what is left of each copy is what its
  emission owes (`Views`); a lemma per action says which step of the contract it is
  (`AddRegisters`, `OffUnregisters`, `EmitBegins`, `DispatchCalls`, `ThrowThrows`,
  `FinishEnds`, ...).

`RankingProofs` is about sequences made of a finite set by rank: ranks grow by one
(`RankGrows`) and take every value (`RankRange`), so the k-th smallest exists, and the
sequence is ordered and has each element once (`NthProperties`). Both proofs above
rest on it.

`AlgorithmsProofs` proves the properties of the calculations, with `AlgorithmsAssumption`
on the form of the inputs:

* `NoChangeIsMissed` — for target lists of any length without repetitions. The code
  compares the lengths and looks for each target of the first list in the second;
  that this is symmetric is a pigeonhole argument (`NoRoomForAnother`, by the
  library's theorem on injections of a finite set).
* `OnlyAuthenticIsAccepted`, `EveryGenuineIsAccepted` — for any age, clock, secret
  and spelling: what was verified is what is parsed, and a genuine delivery inside the
  tolerance is refused only if its body begins with a byte order mark, which
  `JSON.parse` does not take.
* `AllIsDeliveredAsDeclared` — for every declared event and unknown ones. The switch has
  the cases that are declared (`CasesAreDeclared`), and gives no name two types: not
  within a table of names (`AuthenticationTable`, `DirectoryTable`, ...), nor across two,
  which share no family (`CasesAreATable`).
* `SleepsHonourRetryAfter` — for any header, number of attempts and random factor.
  500 · 1.5ⁿ is at least a second from the first retry on (`BackoffGrows`) and the cap
  bounds it from above.
* `PollsKeepApart` — for any interval, number of errors, random factor and limit of
  `setTimeout` (`TimeoutAssumption`: the longest backoff is within it).
* `NumbersAreReadBack` — `NumbersRoundTrip` for every 32-bit number and whatever stands
  before and after it. The loop of the encoder stops, after the number of groups its
  highest bit needs (`ShiftsShrink`, `LengthOfNumber`); the decoder reads as many bytes
  (`DecodedBytes`), reports a cut prefix (`CutBytes`), and the groups make up the number
  again (`GroupsMakeNumber`).
* `EnvelopesOpenAsSealed` — `EnvelopeOpens` for data of any length, wrapped keys of up to
  2³¹ − 1 bytes, and every place of a cut. The offsets of the parts follow from the
  width of the prefix (`EnvelopeLayout`, `DecodedParts`), halving and doubling are inverse
  on lengths (`BitsMakeLength`), so an uncut envelope is taken apart into what it was made
  of (`SealIsWhole`); of a cut one some part is short, the keys or the ciphertext, if the
  prefix itself is there (`OnlyWholeIsOpened`). `AadTellsApart`: associated
  data that differ do so as buffers, the empty and the absent being one, unless they
  encode alike. What the text becomes is `EncodedText` and `TextSurvives`.

Recursive definitions. The library's induction theorems take an operator, which the
installed provers cannot instantiate. Two lemmas take their place: `InductionOnNat` is
induction over a set, by its least counterexample (`FirstOutside`), and
`RecursionHasResult` says that a recursive function exists and follows its step, for any
step given as a function of the argument and the previous value. The loops above are
instances of them.

What `AlgorithmsAssumption` says of the inputs is what the program and the modelled API
can produce: an entry names a target once; a delivery is a text of its kind's contents;
numbers are 32 bits and stand among bytes; a wrapped key is no longer than a buffer
whose length is an int32, and an envelope is what `encrypt` returned, cut or whole; the
seconds of `Retry-After` are not negative (`parseRetryAfter` only takes such a header for
seconds); random factors are in the range the code gives them; the first sleep is that of
`retryAttempts` = 2. They do not bound how many or how large.

Only model-checked: liveness (`Settles`, `KeepsPolling`, `ChangesArrive`, `ReadySettles`,
`WalkEnds`), which needs ENABLED and is beyond the prover; and the findings of section 5,
which are counterexamples.

## 7. Not modelled

* The API itself, `fetch`, iron, jose, HMAC-SHA256, AES-GCM and base64 are external:
  modelled by what the code expects of them.
* The text of messages, headers other than the idempotency key, URLs, PKCE pairs and
  the renaming of single fields: no property tells their values apart.
* Lengths of time inside the state machines: their properties hold for any delays,
  which `Delays` calculates. `Infinity` and `NaN` as `pollingIntervalMs` stand with the
  intervals `setTimeout` cannot count. How many abandoned requests of the runtime client
  are under way at once is not bounded by the code, since no timer ends a body.
* `waitUntilReady({ timeoutMs })`: its timer and race change no state of the client.
* A delivery whose header carries another time than was signed; `encodeUInt32` of what
  is no 32-bit number, which it refuses.
* The runtime's own limits on a silent connection (that of Node's `fetch` on a body):
  `Settles` speaks of the client's timers.
* A list of targets that names an id twice, on which the `find` of the evaluator and the
  `Map` of the change detection differ: the API sends one target per id.
* Walks with a `before` cursor: how the API combines it with `after` is not in this code.
* The memoised key set of `userManagement.jwks` (its cache is jose's),
  `authenticateWithSessionCookie` and `getSessionFromCookie`, which read and change no
  state of their own, and the local half of `agents.validateCredential`.
* The application's types: a caller is held to those a property depends on
  (`createWorkOS` without any credential, `getProfileAndToken` without clientId).

The parts `PROJECT.json` lists as `partly` name what they leave out.

## 8. Plan

Done: `FetchRetry`, `Client`, `ApiErrors`, `Operations`, `Pagination` implementing
`ListWalk`, `FlagClient`, `EventEmitter` implementing `ListenerContract`,
`SessionRefresh`, `Algorithms` with its six modules, and a theorem for every invariant,
action property and refinement of these (eight proof modules). Next:

1. Abstract specifications: one effect per call, implemented by `FetchRetry`; a
   versioned register with one reader, implemented by `FlagClient`; the two
   refinements proved from `OnceInv` and `SuccessInv`, and from `StoreInv`.
2. `FlagClient` over `EventEmitter`, with listeners that register and remove in the
   middle of the events of a poll.

Liveness stays with TLC.
