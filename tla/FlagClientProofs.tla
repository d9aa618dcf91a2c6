-------------------------- MODULE FlagClientProofs --------------------------
(***************************************************************************)
(* The polling loop for any flags, entries, followed requests and listeners:*)
(* its copy of the flags never goes back, 'change' events are enough to     *)
(* follow it, ready means flags, and a closed client starts nothing.        *)
(***************************************************************************)
EXTENDS FlagClient, TLAPS

(* An answer is of a version the environment has had, and the one the       *)
(* running poll waits for was made after the store's: it was asked for      *)
(* since.                                                                   *)
Had(version) == version > 0 /\ version <= server.version
AnswersAreVersions ==
    /\ server.version > 0 /\ store.version <= server.version
    /\ \A id \in RequestId :
          requests[id].state = "answered" => Had(requests[id].snapshot.version)
    /\ outcome.kind = "data" => Had(outcome.snapshot.version)
AnswersAreLater ==
    phase = "fetching" =>
        /\ outcome = Unsettled /\ requests[current].state = "answered"
              => requests[current].snapshot.version >= store.version
        /\ outcome.kind = "data" => outcome.snapshot.version >= store.version

(* Only a poll that ends replaces the store. *)
PreviousIsStore == phase = "fetching" => previous = store

(* The store is empty until the first flags; who reads it later is synced.  *)
EmptyAtFirst == ~initialized /\ ~bootstrapped => store = Empty
SyncedAfterFirst == synced => initialized

NoneScheduledWhenClosed == closed => phase # "scheduled"

StoreInv == TypeOK /\ AnswersAreVersions /\ AnswersAreLater /\ PreviousIsStore
MirrorInv == StoreInv /\ SyncedAfterFirst /\ MirrorFollows
ReadyInv == StoreInv /\ EmptyAtFirst /\ ReadyMeansFlags
ClosedInv == TypeOK /\ NoneScheduledWhenClosed

-----------------------------------------------------------------------------

LEMMA EmptyIsSnapshot == Empty \in Snapshot /\ Unsettled \in Outcome
BY DEF Empty, Snapshot, Content, Unsettled, Outcome

LEMMA RejectedIsOutcome ==
    ASSUME NEW kind \in {"error", "unauthorized"}
    PROVE Rejected(kind) \in Outcome /\ Rejected(kind).kind = kind
BY EmptyIsSnapshot DEF Rejected, Outcome

(* What the catch block of poll() leaves: never a race, no poll of a closed *)
(* client, fewer listeners, and ready as it was unless a 401 ends a client  *)
(* that had no flags.                                                       *)
PollEnds(kind) ==
    /\ closed' \in BOOLEAN /\ (closed => closed')
    /\ listening' \subseteq listening
    /\ phase' \in {"scheduled", "stopped", "crashed"}
    /\ closed' => phase' # "scheduled"
    /\ \/ ready' = ready
       \/ /\ kind = "unauthorized" /\ phase' = "stopped"
          /\ ~initialized /\ ready = "pending" /\ ready' = "rejected"

(* A listener may close the client; nothing opens it again. *)
LEMMA ListenersClose ==
    ASSUME TypeOK, NEW reactions, ClosedBy(reactions)
    PROVE closed' \in BOOLEAN /\ (closed => closed') /\ listening' \subseteq listening
<1>1. closed \in BOOLEAN
    BY DEF TypeOK
<1>2. CASE "close" \in reactions
    BY <1>2 DEF ClosedBy
<1>3. CASE "close" \notin reactions
    BY <1>1, <1>3 DEF ClosedBy
<1>. QED
    BY <1>2, <1>3

LEMMA CatchEnds ==
    ASSUME TypeOK, NEW kind \in {"error", "unauthorized"}, NEW n \in 0 .. ErrorCap,
           Catch(kind, n)
    PROVE PollEnds(kind) /\ consecutiveErrors' \in 0 .. ErrorCap
<1>1. CountError(n) \in 0 .. ErrorCap
    BY FlagAssumption DEF CountError
<1>2. CASE closed
    BY <1>2 DEF Catch, PollEnds, TypeOK
<1>3. CASE ~closed
    <2>1. consecutiveErrors' \in 0 .. ErrorCap
        BY <1>1, <1>3 DEF Catch
    <2>2. PICK onError \in Reactions("error") :
              \/ onError = "throw" /\ phase' = "crashed" /\ UNCHANGED <<closed, ready, listening>>
              \/ kind = "error" /\ CatchTransient(onError)
              \/ kind = "unauthorized" /\ CatchUnauthorized(onError)
        BY <1>3 DEF Catch
    <2>3. CASE phase' = "crashed" /\ UNCHANGED <<closed, ready, listening>>
        <3>1. closed' \in BOOLEAN /\ closed' = closed /\ listening' = listening
            BY <2>3 DEF TypeOK
        <3>. QED
            BY <2>1, <2>3, <3>1 DEF PollEnds
    <2>4. CASE CatchTransient(onError)
        <3>1. ClosedBy({onError}) /\ ready' = ready
            BY <2>4 DEF CatchTransient
        <3>2. phase' \in {"scheduled", "stopped"} /\ (closed' => phase' # "scheduled")
            BY <2>4 DEF CatchTransient, ScheduleNextPoll
        <3>3. closed' \in BOOLEAN /\ (closed => closed') /\ listening' \subseteq listening
            BY <3>1, ListenersClose
        <3>. QED
            BY <2>1, <3>1, <3>2, <3>3 DEF PollEnds
    <2>5. CASE kind = "unauthorized" /\ CatchUnauthorized(onError)
        <3>1. PICK onFailed \in FailedReactions(onError) :
                  /\ ClosedBy({onError, onFailed})
                  /\ phase' = IF onFailed = "throw" THEN "crashed" ELSE "stopped"
                  /\ ready' = IF onFailed # "throw" /\ ~initialized /\ ready = "pending"
                              THEN "rejected" ELSE ready
            BY <2>5 DEF CatchUnauthorized
        <3>2. closed' \in BOOLEAN /\ (closed => closed') /\ listening' \subseteq listening
            BY <3>1, ListenersClose
        <3>. QED
            BY <2>1, <2>5, <3>1, <3>2 DEF PollEnds
    <2>. QED
        BY <2>1, <2>2, <2>3, <2>4, <2>5
<1>. QED
    BY <1>2, <1>3

-----------------------------------------------------------------------------

Followed == [state : {"idle", "sent", "answered"}, snapshot : Snapshot]

(* What an answer, a timer or close() settles a race with is an outcome. *)
LEMMA SettleTypes ==
    ASSUME TypeOK, NEW id \in RequestId, NEW result \in Outcome, Settle(id, result)
    PROVE TypeOK'
<1>1. outcome' \in Outcome
    BY DEF Settle, TypeOK
<1>2. requests' \in [RequestId -> Followed]
    BY EmptyIsSnapshot DEF Settle, TypeOK, Idle, Followed
<1>. QED
    BY <1>1, <1>2 DEF Settle, TypeOK, Followed, loop, app

LEMMA TypeInit == Init => TypeOK
<1>. SUFFICES ASSUME Init PROVE TypeOK
    OBVIOUS
<1>1. store \in Snapshot /\ previous \in Snapshot /\ server \in Snapshot /\ mirror \in Content
    BY EmptyIsSnapshot DEF Init, Snapshot, Empty, Content
<1>2. requests \in [RequestId -> Followed]
    BY EmptyIsSnapshot DEF Init, Idle, Followed
<1>3. /\ closed \in BOOLEAN /\ initialized \in BOOLEAN /\ bootstrapped \in BOOLEAN
      /\ synced \in BOOLEAN /\ missed \subseteq Flag
    BY DEF Init
<1>4. ready \in {"pending", "resolved", "rejected"} /\ phase \in Phase
    BY DEF Init, Phase
<1>5. outcome \in Outcome /\ consecutiveErrors \in 0 .. ErrorCap
    BY EmptyIsSnapshot, FlagAssumption DEF Init
<1>6. current \in RequestId /\ listening \subseteq Event
    BY DEF Init
<1>. QED
    BY <1>1, <1>2, <1>3, <1>4, <1>5, <1>6 DEF TypeOK, Followed

LEMMA TypeNext == TypeOK /\ [Next]_vars => TypeOK'
<1>. SUFFICES ASSUME TypeOK, [Next]_vars PROVE TypeOK'
    OBVIOUS
<1>1. CASE Poll
    <2>1. CASE closed
        BY <1>1, <2>1 DEF Poll, TypeOK, Phase, race, app
    <2>2. CASE ~closed
        <3>1. current' \in RequestId /\ requests' \in [RequestId -> Followed]
            BY <1>1, <2>2, EmptyIsSnapshot DEF Poll, TypeOK, Sent, Followed
        <3>2. outcome' \in Outcome /\ previous' \in Snapshot /\ phase' \in Phase
            BY <1>1, <2>2, EmptyIsSnapshot DEF Poll, TypeOK, Phase
        <3>. QED
            BY <1>1, <3>1, <3>2 DEF Poll, TypeOK, Followed, app
    <2>. QED
        BY <2>1, <2>2
<1>2. CASE PollTimeout
    BY <1>2, RejectedIsOutcome DEF PollTimeout, TypeOK, loop, app
<1>3. CASE PollFails
    <2>1. outcome.kind \in {"error", "unauthorized"} /\ consecutiveErrors \in 0 .. ErrorCap
        BY <1>3 DEF PollFails, TypeOK
    <2>2. PollEnds(outcome.kind) /\ consecutiveErrors' \in 0 .. ErrorCap
        BY <1>3, <2>1, CatchEnds DEF PollFails
    <2>3. /\ closed' \in BOOLEAN /\ phase' \in Phase /\ listening' \subseteq Event
          /\ ready' \in {"pending", "resolved", "rejected"}
        BY <2>2 DEF PollEnds, TypeOK, Phase
    <2>. QED
        BY <1>3, <2>2, <2>3 DEF PollFails, TypeOK, race
<1>4. CASE PollSucceeds
    <2>. DEFINE changed == Changed(previous, outcome.snapshot)
                heard == initialized /\ changed # {} /\ "change" \in listening
    <2>1. store' \in Snapshot /\ outcome.snapshot.flags \in Content
        BY <1>4 DEF PollSucceeds, TypeOK, Outcome, Snapshot
    <2>2. PICK r \in IF heard THEN Reaction ELSE {"return"},
               told \in IF heard THEN SUBSET changed ELSE {{}} :
            /\ mirror' = [f \in Flag |-> IF f \in told THEN outcome.snapshot.flags[f]
                                                      ELSE mirror[f]]
            /\ missed' = IF heard THEN (missed \cup changed) \ told ELSE missed
            /\ IF r = "throw"
               THEN Catch("error", 0) /\ UNCHANGED initialized
               ELSE /\ ClosedBy({r})
                    /\ consecutiveErrors' = 0
                    /\ initialized' = TRUE
                    /\ ready' = ResolveReady
                    /\ phase' = ScheduleNextPoll
        BY <1>4 DEF PollSucceeds
    <2>3. mirror' \in Content /\ synced' \in BOOLEAN /\ missed' \subseteq Flag
        <3>1. mirror' \in Content
            BY <2>1, <2>2 DEF TypeOK, Content
        <3>2. changed \subseteq Flag /\ missed \subseteq Flag
            BY DEF TypeOK, Changed
        <3>. HIDE DEF changed, heard
        <3>3. missed' \subseteq Flag
            BY <2>2, <3>2
        <3>. QED
            BY <1>4, <3>1, <3>3 DEF PollSucceeds, TypeOK
    <2>4. /\ closed' \in BOOLEAN /\ phase' \in Phase /\ listening' \subseteq Event
          /\ ready' \in {"pending", "resolved", "rejected"}
          /\ initialized' \in BOOLEAN /\ consecutiveErrors' \in 0 .. ErrorCap
        <3>1. CASE r = "throw"
            <4>1. PollEnds("error") /\ consecutiveErrors' \in 0 .. ErrorCap
                BY <2>2, <3>1, CatchEnds, FlagAssumption
            <4>. QED
                BY <2>2, <3>1, <4>1 DEF PollEnds, TypeOK, Phase
        <3>2. CASE r # "throw"
            <4>1. closed' \in BOOLEAN /\ listening' \subseteq listening
                BY <2>2, <3>2, ListenersClose
            <4>. QED
                BY <2>2, <3>2, <4>1, FlagAssumption
                DEF ResolveReady, ScheduleNextPoll, TypeOK, Phase
        <3>. QED
            BY <3>1, <3>2
    <2>. QED
        BY <1>4, <2>1, <2>3, <2>4 DEF PollSucceeds, TypeOK, race
<1>5. CASE Close
    <2>1. outcome' \in Outcome /\ phase' \in Phase
        BY <1>5, RejectedIsOutcome DEF Close, TypeOK, Phase
    <2>. QED
        BY <1>5, <2>1 DEF Close, TypeOK
<1>6. ASSUME NEW event \in Event, Listen(event) PROVE TypeOK'
    <2>1. /\ listening' \subseteq Event /\ mirror' \in Content /\ synced' \in BOOLEAN
          /\ missed' \subseteq Flag
        BY <1>6 DEF Listen, TypeOK, Snapshot
    <2>. QED
        BY <1>6, <2>1 DEF Listen, TypeOK, loop, race
<1>7. CASE ServerChange
    <2>1. server' \in Snapshot
        BY <1>7 DEF ServerChange, TypeOK, Snapshot
    <2>. QED
        BY <1>7, <2>1 DEF ServerChange, TypeOK, loop, race, app
<1>8. ASSUME NEW id \in RequestId, Serve(id) PROVE TypeOK'
    <2>1. requests' \in [RequestId -> Followed]
        BY <1>8 DEF Serve, TypeOK, Followed
    <2>. QED
        BY <1>8, <2>1 DEF Serve, TypeOK, Followed, loop, app
<1>9. ASSUME NEW id \in RequestId, Arrive(id) PROVE TypeOK'
    <2>1. [kind |-> "data", snapshot |-> requests[id].snapshot] \in Outcome
        BY <1>9 DEF TypeOK, Outcome
    <2>. QED
        BY <1>9, <2>1, SettleTypes DEF Arrive
<1>10. ASSUME NEW id \in RequestId, Fail(id) PROVE TypeOK'
    BY <1>10, RejectedIsOutcome, SettleTypes DEF Fail
<1>11. CASE UNCHANGED vars
    BY <1>11 DEF vars, loop, race, app, TypeOK
<1>. QED
    BY <1>1, <1>2, <1>3, <1>4, <1>5, <1>6, <1>7, <1>8, <1>9, <1>10, <1>11 DEF Next

(* The state of the loop stays well typed (TypeOK). *)
THEOREM LoopTypeCorrect == Spec => []TypeOK
<1>. QED
    BY TypeInit, TypeNext, PTL DEF Spec

-----------------------------------------------------------------------------

(* A poll that has its answer: where it leaves the loop, and what it keeps. *)
LEMMA SuccessEnds ==
    ASSUME TypeOK, PollSucceeds
    PROVE /\ store' = outcome.snapshot
          /\ phase' \in {"scheduled", "stopped", "crashed"}
          /\ closed => closed'
          /\ closed' => phase' # "scheduled"
          /\ UNCHANGED <<outcome, current, requests, server, bootstrapped>>
<1>1. PICK r : IF r = "throw"
               THEN Catch("error", 0)
               ELSE ClosedBy({r}) /\ phase' = ScheduleNextPoll
    BY DEF PollSucceeds
<1>2. CASE r = "throw"
    BY <1>1, <1>2, CatchEnds, FlagAssumption DEF PollSucceeds, PollEnds, race
<1>3. CASE r # "throw"
    <2>1. closed => closed'
        BY <1>1, <1>3, ListenersClose
    <2>. QED
        BY <1>1, <1>3, <2>1 DEF PollSucceeds, ScheduleNextPoll, race
<1>. QED
    BY <1>2, <1>3

(* So does a poll that failed. *)
LEMMA FailureEnds ==
    ASSUME TypeOK, PollFails
    PROVE /\ PollEnds(outcome.kind)
          /\ UNCHANGED <<initialized, store, previous, race, mirror, synced, missed,
                         bootstrapped, server>>
<1>1. outcome.kind \in {"error", "unauthorized"} /\ consecutiveErrors \in 0 .. ErrorCap
    BY DEF PollFails, TypeOK
<1>. QED
    BY <1>1, CatchEnds DEF PollFails

(* An answer settles a race with a version that is not older than the       *)
(* store's; any other failure with none.                                    *)
LEMMA SettleKeepsStore ==
    ASSUME StoreInv, NEW id \in RequestId, NEW result \in Outcome, Settle(id, result),
           result.kind = "data" => /\ Had(result.snapshot.version)
                                   /\ id = current /\ phase = "fetching" /\ outcome = Unsettled
                                         => result.snapshot.version >= store.version
    PROVE StoreInv'
<1>1. TypeOK'
    BY SettleTypes DEF StoreInv
<1>2. AnswersAreVersions'
    BY DEF Settle, StoreInv, AnswersAreVersions, Had, TypeOK, Idle
<1>3. AnswersAreLater' /\ PreviousIsStore'
    BY DEF Settle, StoreInv, AnswersAreLater, PreviousIsStore, TypeOK, Idle, loop
<1>. QED
    BY <1>1, <1>2, <1>3 DEF StoreInv

LEMMA StoreInit == Init => StoreInv
<1>. SUFFICES ASSUME Init PROVE StoreInv
    OBVIOUS
<1>1. server.version = 1 /\ store.version = 0 /\ outcome.kind = "none" /\ phase = "deferred"
    BY DEF Init, Unsettled, Empty
<1>2. \A id \in RequestId : requests[id].state = "idle"
    BY DEF Init, Idle
<1>. QED
    BY <1>1, <1>2, TypeInit DEF StoreInv, AnswersAreVersions, AnswersAreLater, PreviousIsStore

LEMMA StoreNext == StoreInv /\ [Next]_vars => StoreInv'
<1>. SUFFICES ASSUME StoreInv, [Next]_vars PROVE StoreInv'
    OBVIOUS
<1>. TypeOK /\ TypeOK'
    BY TypeNext DEF StoreInv
<1>1. CASE Poll
    <2>1. CASE closed
        BY <1>1, <2>1 DEF Poll, StoreInv, AnswersAreVersions, Had, AnswersAreLater,
            PreviousIsStore, race
    <2>2. CASE ~closed
        <3>1. PICK id \in RequestId : current' = id /\ requests' = [requests EXCEPT ![id] = Sent]
            BY <1>1, <2>2 DEF Poll
        <3>2. /\ \A i \in RequestId : requests'[i] = requests[i] \/ requests'[i].state = "sent"
              /\ requests'[current'].state = "sent"
            BY <3>1 DEF TypeOK, Sent
        <3>3. /\ outcome' = Unsettled /\ outcome'.kind = "none" /\ previous' = store
              /\ store' = store /\ server' = server
            BY <1>1, <2>2 DEF Poll, Unsettled
        <3>. QED
            BY <3>2, <3>3 DEF StoreInv, AnswersAreVersions, Had, AnswersAreLater, PreviousIsStore
    <2>. QED
        BY <2>1, <2>2
<1>2. CASE PollTimeout
    BY <1>2, RejectedIsOutcome DEF PollTimeout, Unsettled, StoreInv, AnswersAreVersions, Had,
        AnswersAreLater, PreviousIsStore, loop
<1>3. CASE PollFails
    <2>1. phase' # "fetching" /\ UNCHANGED <<store, race, server>>
        BY <1>3, FailureEnds DEF PollEnds
    <2>. QED
        BY <2>1 DEF StoreInv, AnswersAreVersions, Had, AnswersAreLater, PreviousIsStore, race
<1>4. CASE PollSucceeds
    <2>1. outcome.kind = "data" /\ store' = outcome.snapshot /\ phase' # "fetching"
          /\ UNCHANGED <<outcome, current, requests, server>>
        BY <1>4, SuccessEnds DEF PollSucceeds
    <2>. QED
        BY <2>1 DEF StoreInv, AnswersAreVersions, Had, AnswersAreLater, PreviousIsStore
<1>5. CASE Close
    <2>1. outcome' = outcome \/ outcome' = Rejected("error")
        BY <1>5 DEF Close
    <2>2. outcome'.kind = "data" \/ outcome' = Unsettled => outcome' = outcome
        BY <2>1, RejectedIsOutcome DEF Unsettled
    <2>. QED
        BY <1>5, <2>2 DEF Close, StoreInv, AnswersAreVersions, Had, AnswersAreLater,
            PreviousIsStore
<1>6. ASSUME NEW event \in Event, Listen(event) PROVE StoreInv'
    BY <1>6 DEF Listen, StoreInv, AnswersAreVersions, Had, AnswersAreLater, PreviousIsStore,
        loop, race
<1>7. CASE ServerChange
    <2>1. server.version \in Nat /\ server'.version = server.version + 1
        BY <1>7 DEF ServerChange, TypeOK, Snapshot
    <2>2. \A v : v \in Nat /\ v <= server.version => v <= server'.version
        BY <2>1
    <2>3. AnswersAreVersions'
        BY <1>7, <2>1, <2>2
        DEF ServerChange, StoreInv, AnswersAreVersions, Had, TypeOK, Snapshot, Outcome, race
    <2>. QED
        BY <1>7, <2>3 DEF ServerChange, StoreInv, AnswersAreLater, PreviousIsStore, loop, race
<1>8. ASSUME NEW id \in RequestId, Serve(id) PROVE StoreInv'
    <2>1. /\ \A i \in RequestId : requests'[i] = requests[i] \/ requests'[i].snapshot = server
          /\ UNCHANGED <<loop, store, previous, outcome, current, server>>
        BY <1>8 DEF Serve, TypeOK
    <2>2. server.version \in Nat /\ store.version \in Nat
        BY DEF TypeOK, Snapshot
    <2>3. AnswersAreVersions'
        BY <2>1, <2>2 DEF StoreInv, AnswersAreVersions, Had
    <2>4. AnswersAreLater' /\ PreviousIsStore'
        BY <2>1, <2>2 DEF StoreInv, AnswersAreVersions, AnswersAreLater, PreviousIsStore, TypeOK,
            loop
    <2>. QED
        BY <2>3, <2>4 DEF StoreInv
<1>9. ASSUME NEW id \in RequestId, Arrive(id) PROVE StoreInv'
    <2>. DEFINE result == [kind |-> "data", snapshot |-> requests[id].snapshot]
    <2>1. result \in Outcome
        BY DEF TypeOK, Outcome
    <2>2. Had(result.snapshot.version)
        BY <1>9 DEF Arrive, StoreInv, AnswersAreVersions
    <2>3. id = current /\ phase = "fetching" /\ outcome = Unsettled
             => result.snapshot.version >= store.version
        BY <1>9 DEF Arrive, StoreInv, AnswersAreLater
    <2>. HIDE DEF result
    <2>4. Settle(id, result)
        BY <1>9 DEF Arrive, result
    <2>. QED
        BY <2>1, <2>2, <2>3, <2>4, SettleKeepsStore
<1>10. ASSUME NEW id \in RequestId, Fail(id) PROVE StoreInv'
    <2>1. PICK kind \in {"error", "unauthorized"} : Settle(id, Rejected(kind))
        BY <1>10 DEF Fail
    <2>. QED
        BY <2>1, RejectedIsOutcome, SettleKeepsStore
<1>11. CASE UNCHANGED vars
    BY <1>11 DEF vars, loop, race, StoreInv, AnswersAreVersions, Had, AnswersAreLater,
        PreviousIsStore
<1>. QED
    BY <1>1, <1>2, <1>3, <1>4, <1>5, <1>6, <1>7, <1>8, <1>9, <1>10, <1>11 DEF Next

(* The store never goes back to an older version of the flags, however late *)
(* the answer of an abandoned poll arrives (StoreNeverGoesBack): only the   *)
(* race of the running poll fills it, and that was asked for later.         *)
THEOREM StoreIsMonotonic == Spec => StoreNeverGoesBack
<1>1. StoreInv /\ [Next]_vars => [store'.version >= store.version]_vars
    <2>. SUFFICES ASSUME StoreInv, Next PROVE store'.version >= store.version
        OBVIOUS
    <2>1. store.version \in Nat
        BY DEF StoreInv, TypeOK, Snapshot
    <2>2. CASE PollSucceeds
        <3>1. store' = outcome.snapshot
            BY <2>2, SuccessEnds DEF StoreInv
        <3>. QED
            BY <2>2, <3>1 DEF PollSucceeds, StoreInv, AnswersAreLater
    <2>3. CASE store' = store
        BY <2>1, <2>3
    <2>. QED
        BY <2>2, <2>3 DEF Next, Poll, PollTimeout, PollFails, Close, Listen, ServerChange,
            Serve, Arrive, Fail, Settle
<1>. QED
    BY <1>1, StoreInit, StoreNext, PTL DEF Spec, StoreNeverGoesBack

-----------------------------------------------------------------------------

(* An application that read the flags after the first poll and applied      *)
(* every 'change' event it was told since has the store's flags, but for    *)
(* those a listener that threw kept back (MirrorFollows): no throw costs it *)
(* the change of another poll or of another flag.                           *)
THEOREM EventsSuffice == Spec => []MirrorFollows
<1>1. Init => MirrorInv
    BY StoreInit DEF Init, MirrorInv, SyncedAfterFirst, MirrorFollows
<1>2. MirrorInv /\ [Next]_vars => MirrorInv'
    <2>. SUFFICES ASSUME MirrorInv, [Next]_vars PROVE SyncedAfterFirst' /\ MirrorFollows'
        BY StoreNext DEF MirrorInv
    <2>. StoreInv /\ TypeOK
        BY DEF MirrorInv, StoreInv
    <2>1. CASE PollSucceeds
        <3>. DEFINE changed == Changed(previous, outcome.snapshot)
                    heard == initialized /\ changed # {} /\ "change" \in listening
        <3>1. PICK r \in IF heard THEN Reaction ELSE {"return"},
                   told \in IF heard THEN SUBSET changed ELSE {{}} :
                /\ mirror' = [f \in Flag |-> IF f \in told THEN outcome.snapshot.flags[f]
                                                          ELSE mirror[f]]
                /\ missed' = IF heard THEN (missed \cup changed) \ told ELSE missed
                /\ IF r = "throw"
                   THEN Catch("error", 0) /\ UNCHANGED initialized
                   ELSE ClosedBy({r}) /\ initialized' = TRUE
            BY <2>1 DEF PollSucceeds
        <3>2. synced' = synced /\ listening' \subseteq listening
              /\ (initialized => initialized') /\ store' = outcome.snapshot
            <4>1. store' = outcome.snapshot /\ synced' = synced
                BY <2>1, SuccessEnds DEF PollSucceeds
            <4>2. CASE r = "throw"
                <5>1. Catch("error", 0) /\ initialized' = initialized
                    BY <3>1, <4>2
                <5>. QED
                    BY <4>1, <5>1, CatchEnds, FlagAssumption DEF PollEnds
            <4>3. CASE r # "throw"
                <5>1. ClosedBy({r}) /\ initialized' = TRUE
                    BY <3>1, <4>3
                <5>. QED
                    BY <4>1, <5>1, ListenersClose
            <4>. QED
                BY <4>2, <4>3
        <3>3. SyncedAfterFirst'
            BY <3>2 DEF MirrorInv, SyncedAfterFirst
        <3>4. SUFFICES ASSUME "change" \in listening', synced', NEW f \in Flag, f \notin missed'
                       PROVE mirror'[f] = store'.flags[f]
            BY <3>3 DEF MirrorFollows
        <3>5. "change" \in listening /\ synced /\ initialized
            BY <3>2, <3>4 DEF MirrorInv, SyncedAfterFirst
        <3>6. f \notin changed => previous.flags[f] = outcome.snapshot.flags[f]
            BY DEF Changed
        <3>7. f \notin missed => mirror[f] = previous.flags[f]
            BY <2>1, <3>5 DEF PollSucceeds, MirrorInv, MirrorFollows, StoreInv, PreviousIsStore
        <3>8. mirror'[f] = IF f \in told THEN outcome.snapshot.flags[f] ELSE mirror[f]
            BY <3>1, <3>4
        <3>9. f \in told \/ (f \notin changed /\ f \notin missed)
            <4>1. CASE heard
                BY <3>1, <3>4, <4>1
            <4>2. CASE ~heard
                BY <3>1, <3>4, <3>5, <4>2
            <4>. QED
                BY <4>1, <4>2
        <3>. QED
            BY <3>2, <3>6, <3>7, <3>8, <3>9
    <2>2. CASE PollFails
        <3>1. /\ listening' \subseteq listening
              /\ UNCHANGED <<initialized, store, mirror, synced, missed>>
            BY <2>2, FailureEnds DEF PollEnds
        <3>. QED
            BY <3>1 DEF MirrorInv, SyncedAfterFirst, MirrorFollows
    <2>3. CASE Close
        BY <2>3 DEF Close, MirrorInv, SyncedAfterFirst, MirrorFollows
    <2>4. ASSUME NEW event \in Event, Listen(event) PROVE SyncedAfterFirst' /\ MirrorFollows'
        BY <2>4 DEF Listen, MirrorInv, SyncedAfterFirst, MirrorFollows, loop
    <2>5. CASE UNCHANGED <<app, store, initialized>>
        BY <2>5 DEF MirrorInv, SyncedAfterFirst, MirrorFollows, app
    <2>. QED
        BY <2>1, <2>2, <2>3, <2>4, <2>5 DEF Next, Poll, PollTimeout, ServerChange,
            Serve, Arrive, Fail, Settle, vars, loop
<1>. QED
    BY <1>1, <1>2, PTL DEF Spec, MirrorInv

-----------------------------------------------------------------------------

(* waitUntilReady resolves on flags of the API or of the bootstrap alone,   *)
(* and rejects only when no poll will ever bring any (ReadyMeansFlags).     *)
THEOREM ReadyIsMeant == Spec => []ReadyMeansFlags
<1>1. Init => ReadyInv
    <2>. SUFFICES ASSUME Init PROVE EmptyAtFirst /\ ReadyMeansFlags
        BY StoreInit DEF ReadyInv
    <2>. QED
        BY DEF Init, EmptyAtFirst, ReadyMeansFlags
<1>2. ReadyInv /\ [Next]_vars => ReadyInv'
    <2>. SUFFICES ASSUME ReadyInv, [Next]_vars PROVE EmptyAtFirst' /\ ReadyMeansFlags'
        BY StoreNext DEF ReadyInv
    <2>. StoreInv /\ TypeOK
        BY DEF ReadyInv, StoreInv
    <2>1. CASE PollSucceeds
        <3>1. store' = outcome.snapshot /\ store'.version > 0 /\ bootstrapped' = bootstrapped
            BY <2>1, SuccessEnds DEF PollSucceeds, StoreInv, AnswersAreVersions, Had
        <3>2. PICK r :
                IF r = "throw"
                THEN initialized /\ Catch("error", 0) /\ UNCHANGED initialized
                ELSE initialized' = TRUE /\ ready' = ResolveReady
            BY <2>1 DEF PollSucceeds
        <3>3. ready # "rejected"
            BY <2>1 DEF PollSucceeds, ReadyInv, ReadyMeansFlags
        <3>4. initialized' = TRUE /\ ready' = "resolved"
            <4>1. CASE r = "throw"
                <5>1. initialized /\ initialized' = initialized
                    BY <3>2, <4>1
                <5>2. ready' = ready
                    BY <3>2, <4>1, CatchEnds, FlagAssumption DEF PollEnds
                <5>. QED
                    BY <5>1, <5>2 DEF ReadyInv, ReadyMeansFlags, TypeOK
            <4>2. CASE r # "throw"
                BY <3>2, <3>3, <4>2 DEF ResolveReady, TypeOK
            <4>. QED
                BY <4>1, <4>2
        <3>. QED
            BY <3>1, <3>4 DEF EmptyAtFirst, ReadyMeansFlags
    <2>2. CASE PollFails
        <3>1. PollEnds(outcome.kind) /\ UNCHANGED <<initialized, store, bootstrapped>>
            BY <2>2, FailureEnds
        <3>2. ready # "rejected"
            BY <2>2 DEF PollFails, ReadyInv, ReadyMeansFlags
        <3>3. CASE ready' = ready
            BY <3>1, <3>2, <3>3 DEF ReadyInv, EmptyAtFirst, ReadyMeansFlags
        <3>4. CASE ready' # ready
            <4>1. ~initialized /\ ready = "pending" /\ ready' = "rejected" /\ phase' = "stopped"
                BY <3>1, <3>4 DEF PollEnds
            <4>2. ~bootstrapped /\ store = Empty
                BY <4>1 DEF ReadyInv, EmptyAtFirst, ReadyMeansFlags
            <4>. QED
                BY <3>1, <4>1, <4>2 DEF ReadyInv, EmptyAtFirst, ReadyMeansFlags
        <3>. QED
            BY <3>3, <3>4
    <2>3. CASE /\ UNCHANGED <<initialized, ready, store, bootstrapped>>
               /\ phase' = phase \/ phase \in {"deferred", "scheduled"}
        BY <2>3 DEF ReadyInv, EmptyAtFirst, ReadyMeansFlags
    <2>. QED
        BY <2>1, <2>2, <2>3 DEF Next, Poll, PollTimeout, Close, Listen, ServerChange,
            Serve, Arrive, Fail, Settle, vars, loop
<1>. QED
    BY <1>1, <1>2, PTL DEF Spec, ReadyInv

-----------------------------------------------------------------------------

(* A closed client starts no poll and schedules none (ClosedStartsNothing), *)
(* though close() may come between any two steps of the loop.               *)
THEOREM ClosedIsOver == Spec => ClosedStartsNothing
<1>1. Init => ClosedInv
    BY TypeInit DEF Init, ClosedInv, NoneScheduledWhenClosed
<1>2. ClosedInv /\ [Next]_vars =>
         /\ ClosedInv'
         /\ closed /\ phase' # phase => phase' \notin {"fetching", "scheduled"}
    <2>. SUFFICES ASSUME ClosedInv, [Next]_vars
                  PROVE /\ NoneScheduledWhenClosed'
                        /\ closed /\ phase' # phase => phase' \notin {"fetching", "scheduled"}
        BY TypeNext DEF ClosedInv
    <2>. TypeOK
        BY DEF ClosedInv
    <2>1. CASE Poll
        BY <2>1 DEF Poll, NoneScheduledWhenClosed
    <2>2. CASE PollSucceeds
        BY <2>2, SuccessEnds DEF NoneScheduledWhenClosed
    <2>3. CASE PollFails
        BY <2>3, FailureEnds DEF PollEnds, NoneScheduledWhenClosed
    <2>4. CASE Close
        BY <2>4 DEF Close, NoneScheduledWhenClosed
    <2>5. CASE UNCHANGED <<closed, phase>>
        BY <2>5 DEF ClosedInv, NoneScheduledWhenClosed
    <2>. QED
        BY <2>1, <2>2, <2>3, <2>4, <2>5 DEF Next, PollTimeout, Listen, ServerChange,
            Serve, Arrive, Fail, Settle, vars, loop
<1>3. ClosedInv /\ [Next]_vars =>
         [closed => /\ phase' = "fetching" => phase = "fetching"
                    /\ phase' # "scheduled"]_vars
    BY <1>2 DEF ClosedInv, NoneScheduledWhenClosed
<1>. QED
    BY <1>1, <1>2, <1>3, PTL DEF Spec, ClosedStartsNothing
=============================================================================
