----------------------------- MODULE FlagClient -----------------------------
(***************************************************************************)
(* FeatureFlagsRuntimeClient (feature-flags/runtime-client.ts): a polling   *)
(* loop that keeps a local copy of the environment's flags, races every     *)
(* request against a timer and an abort, reports changes and failures to    *)
(* listeners, and may be closed at any point between two of its steps.      *)
(*                                                                         *)
(* The application (listeners that return, throw or close the client) and   *)
(* the API that serves the flags are its environment.  A request the loop   *)
(* has abandoned is not cancelled by the code: it may be answered later.    *)
(***************************************************************************)
EXTENDS Naturals, FiniteSets

CONSTANTS
    Flag,           \* flag slugs
    Entry,          \* values of a FlagPollEntry, compared by hasEntryChanged
    Absent,         \* no entry for the slug
    RequestId,      \* the outstanding requests that are followed (bound)
    MaxVersion,     \* changes the API makes to the flags (bound)
    ErrorCap,       \* consecutiveErrors is counted up to here (bound)
    Reaction        \* what listeners do: a subset of "return", "throw", "close"

ASSUME FlagAssumption ==
    /\ Absent \notin Entry
    /\ RequestId # {}
    /\ MaxVersion \in Nat /\ ErrorCap \in Nat \ {0}
    /\ Reaction \subseteq {"return", "throw", "close"}

Content == [Flag -> Entry \cup {Absent}]
Snapshot == [flags : Content, version : Nat]
Empty == [flags |-> [f \in Flag |-> Absent], version |-> 0]

Event == {"change", "error", "failed"}
Outcome == [kind : {"none", "data", "error", "unauthorized"}, snapshot : Snapshot]
Unsettled == [kind |-> "none", snapshot |-> Empty]

(* Mutant: a reason of rejection that the catch block does not know. *)
RejectedUnknown(kind) == [kind |-> "aborted", snapshot |-> Empty]

Rejected(kind) == [kind |-> kind, snapshot |-> Empty]

Idle == [state |-> "idle", snapshot |-> Empty]
Sent == [state |-> "sent", snapshot |-> Empty]

VARIABLES
    closed, initialized, consecutiveErrors,
    phase,          \* where poll() is: waiting for a timer, in its race, ended
    store,          \* InMemoryStore.flags, with the version of its source
    previous,       \* previousFlags of the running poll
    ready,          \* the promise of waitUntilReady
    outcome,        \* what the race of the running poll has settled with
    current,        \* the request of the running poll
    requests,       \* the followed requests, abandoned ones included
    listening,      \* events with a listener
    mirror,         \* the flags as an application maintains them from 'change'
    synced,         \* the mirror was read from the store after the first poll
    missed,         \* flags whose last 'change' a listener that threw kept back
    bootstrapped,   \* options.bootstrapFlags was given
    server          \* the flags of the environment

loop == <<closed, initialized, consecutiveErrors, phase, ready>>
race == <<outcome, current, requests>>
app == <<listening, mirror, synced, missed>>
vars == <<loop, store, previous, race, app, bootstrapped, server>>

\* "deferred" is the first timer, which close() has no handle on.
Phase == {"deferred", "scheduled", "fetching", "stopped", "crashed"}

-----------------------------------------------------------------------------

(* The constructor: bootstrap flags fill the store and resolve ready. *)
Init ==
    /\ closed = FALSE /\ initialized = FALSE /\ consecutiveErrors = 0
    /\ phase = "deferred"
    /\ bootstrapped \in BOOLEAN
    /\ \E flags \in Content : store = IF bootstrapped THEN [flags |-> flags, version |-> 0]
                                                     ELSE Empty
    /\ ready = IF bootstrapped THEN "resolved" ELSE "pending"
    /\ previous = Empty
    /\ outcome = Unsettled
    /\ current \in RequestId
    /\ requests = [id \in RequestId |-> Idle]
    /\ listening = {} /\ mirror = Empty.flags /\ synced = FALSE /\ missed = {}
    /\ \E flags \in Content : server = [flags |-> flags, version |-> 1]

-----------------------------------------------------------------------------
(* The loop. *)

(* Mutant: the race of the poll before is raced again. *)
PollOldRace ==
    /\ phase \in {"deferred", "scheduled"}
    /\ IF closed
       THEN /\ phase' = "stopped"
            /\ UNCHANGED <<previous, race>>
       ELSE /\ phase' = "fetching"
            /\ previous' = store
            /\ UNCHANGED race
    /\ UNCHANGED <<closed, initialized, consecutiveErrors, ready, store, app,
                   bootstrapped, server>>

(* A poll timer fires: poll() up to the await in fetchWithTimeout, which    *)
(* sends the request and races it.  Re-using an id forgets the abandoned    *)
(* request that had it, whose answer then never comes.                      *)
Poll ==
    /\ phase \in {"deferred", "scheduled"}
    /\ IF closed
       THEN /\ phase' = "stopped"
            /\ UNCHANGED <<previous, race>>
       ELSE /\ phase' = "fetching"
            /\ previous' = store
            /\ outcome' = Unsettled
            /\ \E id \in RequestId :
                  /\ current' = id
                  /\ requests' = [requests EXCEPT ![id] = Sent]
    /\ UNCHANGED <<closed, initialized, consecutiveErrors, ready, store, app,
                   bootstrapped, server>>

(* Mutant: the timer is armed when the API has answered. *)
PollTimeoutAfterAnswer ==
    /\ phase = "fetching" /\ outcome = Unsettled
    /\ requests[current].state = "answered"
    /\ outcome' = Rejected("error")
    /\ UNCHANGED <<loop, store, previous, current, requests, app, bootstrapped, server>>

(* requestTimeoutMs passes: the race rejects.  workos.get is not told. *)
PollTimeout ==
    /\ phase = "fetching" /\ outcome = Unsettled
    /\ outcome' = Rejected("error")
    /\ UNCHANGED <<loop, store, previous, current, requests, app, bootstrapped, server>>

ResolveReady == IF ready = "pending" THEN "resolved" ELSE ready

(* Mutant: scheduleNextPoll without its check. *)
ScheduleNextPollAlways == "scheduled"

ScheduleNextPoll == IF closed' THEN "stopped" ELSE "scheduled"

(* What the listener of `event` may do; an 'error' nobody listens to is     *)
(* thrown by emit.                                                          *)
Reactions(event) ==
    IF event \in listening THEN Reaction
    ELSE IF event = "error" THEN {"throw"} ELSE {"return"}

(* close() from inside a listener: closed, and no listeners left. *)
ClosedBy(reactions) ==
    IF "close" \in reactions
    THEN closed' = TRUE /\ listening' = {}
    ELSE UNCHANGED <<closed, listening>>

CountError(n) == IF n < ErrorCap THEN n + 1 ELSE n

(* Mutant: ready is resolved whether the poll succeeded or not. *)
CatchTransientResolving(onError) ==
    /\ ClosedBy({onError})
    /\ phase' = ScheduleNextPoll
    /\ ready' = ResolveReady

CatchTransient(onError) ==
    /\ ClosedBy({onError})
    /\ phase' = ScheduleNextPoll
    /\ UNCHANGED ready

FailedReactions(onError) == IF onError = "close" THEN {"return"} ELSE Reactions("failed")

(* Mutant: the loop ends and the waiters are forgotten. *)
CatchUnauthorizedSilent(onError) ==
    \E onFailed \in FailedReactions(onError) :
        /\ ClosedBy({onError, onFailed})
        /\ phase' = IF onFailed = "throw" THEN "crashed" ELSE "stopped"
        /\ UNCHANGED ready

CatchUnauthorized(onError) ==
    \E onFailed \in FailedReactions(onError) :
        /\ ClosedBy({onError, onFailed})
        /\ phase' = IF onFailed = "throw" THEN "crashed" ELSE "stopped"
        /\ ready' = IF onFailed # "throw" /\ ~initialized /\ ready = "pending"
                    THEN "rejected" ELSE ready

(* The catch block of poll().  What a listener throws leaves poll() as an   *)
(* unhandled rejection: nothing after the emit runs.                        *)
Catch(kind, errors) ==
    IF closed
    THEN /\ phase' = "stopped" /\ consecutiveErrors' = errors
         /\ UNCHANGED <<closed, ready, listening>>
    ELSE /\ consecutiveErrors' = CountError(errors)
         /\ \E onError \in Reactions("error") :
              \/ /\ onError = "throw"
                 /\ phase' = "crashed"
                 /\ UNCHANGED <<closed, ready, listening>>
              \/ onError # "throw" /\ kind = "error" /\ CatchTransient(onError)
              \/ onError # "throw" /\ kind = "unauthorized" /\ CatchUnauthorized(onError)

(* Mutant: only the keys of the new flags are compared. *)
ChangedInNew(a, b) == {f \in Flag : b.flags[f] # Absent /\ a.flags[f] # b.flags[f]}

(* hasEntryChanged over the union of both snapshots' keys. *)
Changed(a, b) == {f \in Flag : a.flags[f] # b.flags[f]}

(* The race rejected: poll() continues in its catch block. *)
PollFails ==
    /\ phase = "fetching" /\ outcome.kind \in {"error", "unauthorized"}
    /\ Catch(outcome.kind, consecutiveErrors)
    /\ UNCHANGED <<initialized, store, previous, race, mirror, synced, missed, bootstrapped,
                   server>>

(* The race resolved: swap, emit the changes unless this is the first       *)
(* success, resolve ready, schedule.  The check of `closed` is only in      *)
(* scheduleNextPoll.  A listener that throws ends the loop over the keys:   *)
(* only some of the changes were told, and the poll counts as failed.       *)
PollSucceeds ==
    /\ phase = "fetching" /\ outcome.kind = "data"
    /\ store' = outcome.snapshot
    /\ LET changed == Changed(previous, outcome.snapshot)
           heard == initialized /\ changed # {} /\ "change" \in listening
       IN \E r \in IF heard THEN Reaction ELSE {"return"},
             told \in IF heard THEN SUBSET changed ELSE {{}} :
            /\ r # "throw" /\ heard => told = changed
            /\ mirror' = [f \in Flag |-> IF f \in told THEN outcome.snapshot.flags[f]
                                                      ELSE mirror[f]]
            /\ missed' = IF heard THEN (missed \cup changed) \ told ELSE missed
            /\ IF r = "throw"
               THEN Catch("error", 0) /\ UNCHANGED initialized
               ELSE /\ ClosedBy({r})
                    /\ consecutiveErrors' = 0
                    /\ initialized' = TRUE
                    /\ ready' = ResolveReady
                    /\ phase' = ScheduleNextPoll
    /\ UNCHANGED <<previous, race, synced, bootstrapped, server>>

-----------------------------------------------------------------------------
(* The application. *)

(* close(): ends the race of a running poll by its abort, cancels a         *)
(* scheduled one, and drops the listeners.                                  *)
Close ==
    /\ closed' = TRUE
    /\ listening' = {}
    /\ phase' = IF phase = "scheduled" THEN "stopped" ELSE phase
    /\ outcome' = IF phase = "fetching" /\ outcome = Unsettled
                  THEN Rejected("error") ELSE outcome
    /\ UNCHANGED <<initialized, consecutiveErrors, ready, store, previous, current,
                   requests, mirror, synced, missed, bootstrapped, server>>

(* on(event, ...).  An application that follows the flags by 'change' reads *)
(* them (getFlag over the slugs) when it attaches.                          *)
Listen(event) ==
    /\ event \notin listening
    /\ listening' = listening \cup {event}
    /\ IF event = "change"
       THEN mirror' = store.flags /\ synced' = initialized /\ missed' = {}
       ELSE UNCHANGED <<mirror, synced, missed>>
    /\ UNCHANGED <<loop, store, previous, race, bootstrapped, server>>

-----------------------------------------------------------------------------
(* The API (external): it answers a request with the flags it has when it   *)
(* reads them, and the answer may travel while the flags change.            *)

ServerChange ==
    /\ server.version < MaxVersion
    /\ \E flags \in Content \ {server.flags} :
          server' = [flags |-> flags, version |-> server.version + 1]
    /\ UNCHANGED <<loop, store, previous, race, app, bootstrapped>>

Serve(id) ==
    /\ requests[id] = Sent
    /\ requests' = [requests EXCEPT ![id] = [state |-> "answered", snapshot |-> server]]
    /\ UNCHANGED <<loop, store, previous, outcome, current, app, bootstrapped, server>>

(* Mutant: any request settles the race that is open. *)
SettleByAnyRequest(id, result) ==
    /\ requests' = [requests EXCEPT ![id] = Idle]
    /\ outcome' = IF phase = "fetching" /\ outcome = Unsettled
                  THEN result ELSE outcome
    /\ UNCHANGED <<loop, store, previous, current, app, bootstrapped, server>>

(* workos.get settles: with the answer, an error after its own retries, or  *)
(* a 401.  Only the request of a race that is still open settles the race.  *)
Settle(id, result) ==
    /\ requests' = [requests EXCEPT ![id] = Idle]
    /\ outcome' = IF id = current /\ phase = "fetching" /\ outcome = Unsettled
                  THEN result ELSE outcome
    /\ UNCHANGED <<loop, store, previous, current, app, bootstrapped, server>>

Arrive(id) ==
    /\ requests[id].state = "answered"
    /\ Settle(id, [kind |-> "data", snapshot |-> requests[id].snapshot])

Fail(id) ==
    /\ requests[id].state # "idle"
    /\ \E kind \in {"error", "unauthorized"} : Settle(id, Rejected(kind))

-----------------------------------------------------------------------------

(* The loop may end: closed, after a 401, or by an exception of a listener. *)
Next ==
    \/ Poll \/ PollTimeout \/ PollFails \/ PollSucceeds
    \/ Close
    \/ \E event \in Event : Listen(event)
    \/ ServerChange
    \/ \E id \in RequestId : Serve(id) \/ Arrive(id) \/ Fail(id)

Spec == Init /\ [][Next]_vars

(* setTimeout callbacks and promise reactions run: the event loop's promise *)
(* and all the loop needs to keep polling.                                  *)
EventLoop == WF_vars(Poll) /\ WF_vars(PollTimeout) /\ WF_vars(PollFails \/ PollSucceeds)

(* The API answers in time again and again, however often it does not. *)
Awaited(id) == id = current /\ phase = "fetching" /\ outcome = Unsettled
ApiAnswers ==
    /\ SF_vars(\E id \in RequestId : Awaited(id) /\ Serve(id))
    /\ SF_vars(\E id \in RequestId : Awaited(id) /\ Arrive(id))

SpecLive == Spec /\ EventLoop

-----------------------------------------------------------------------------

(* The state is well typed, and a poll rejects in the ways it knows. *)
TypeOK ==
    /\ closed \in BOOLEAN /\ initialized \in BOOLEAN /\ bootstrapped \in BOOLEAN
    /\ consecutiveErrors \in 0 .. ErrorCap
    /\ phase \in Phase
    /\ store \in Snapshot /\ previous \in Snapshot /\ server \in Snapshot
    /\ ready \in {"pending", "resolved", "rejected"}
    /\ outcome \in Outcome
    /\ current \in RequestId
    /\ requests \in [RequestId -> [state : {"idle", "sent", "answered"}, snapshot : Snapshot]]
    /\ listening \subseteq Event
    /\ mirror \in Content /\ synced \in BOOLEAN /\ missed \subseteq Flag

(* The local copy never goes back to flags older than those it had, however *)
(* late the answer of an abandoned poll arrives.                            *)
StoreNeverGoesBack == [][store'.version >= store.version]_vars

(* 'change' events suffice: an application that read the flags once after   *)
(* the first poll and then applied every event it was told has the store's  *)
(* flags.  A listener that throws costs it the changes of that poll it was  *)
(* not told, each until that flag changes again, and nothing else: not what *)
(* it was told before, nor any change of a later poll.                      *)
MirrorFollows ==
    "change" \in listening /\ synced =>
        \A f \in Flag \ missed : mirror[f] = store.flags[f]

(* waitUntilReady resolves only on flags of the API or of the bootstrap,    *)
(* and rejects only when no poll will ever bring any.                       *)
ReadyMeansFlags ==
    /\ ready = "resolved" <=> initialized \/ bootstrapped
    /\ initialized => store.version > 0
    /\ ready = "rejected" => phase = "stopped" /\ store = Empty

(* A closed client starts no poll, not even the deferred first one that     *)
(* close() has no handle on, and schedules none.                            *)
ClosedStartsNothing ==
    [][closed => /\ phase' = "fetching" => phase = "fetching"
                 /\ phase' # "scheduled"]_vars

Over == closed \/ phase \in {"stopped", "crashed"}

(* Polling goes on for ever, whatever the API does, unless the client is    *)
(* closed, was refused by a 401, or a listener failed it.                   *)
KeepsPolling ==
    /\ []<>(phase = "fetching" \/ Over)
    /\ []<>(phase # "fetching")

(* A change of the flags reaches the store if the API answers.              *)
ChangesArrive ==
    ApiAnswers => \A v \in 1 .. MaxVersion :
        server.version = v ~> store.version >= v \/ Over

(* If the API answers, waitUntilReady settles unless the client is closed   *)
(* or a listener failed it: a 401 before the first flags rejects it.        *)
ReadySettles == ApiAnswers =>
    ready = "pending" ~> ready # "pending" \/ closed \/ phase = "crashed"
=============================================================================
