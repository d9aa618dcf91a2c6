-------------------------- MODULE ListenerContract --------------------------
(***************************************************************************)
(* What an event emitter promises, without saying how it keeps its lists:   *)
(* an emission calls the registrations its event had when it began, in the  *)
(* order they were made, whatever the listeners register and remove in the  *)
(* meantime; a removed registration is in no later emission; a `once`       *)
(* registration is gone when its listener starts; an 'error' nobody listens *)
(* to is thrown.                                                            *)
(***************************************************************************)
EXTENDS Naturals, Sequences

CONSTANTS
    Event, Fn,
    MaxRegistration,    \* registrations made (bound)
    MaxDepth            \* emissions that nest (bound)

VARIABLES
    issued,         \* registrations made so far: each has its number
    registered,     \* the registrations in force
    emissions,      \* the emissions that run, the innermost last
    answer          \* how the last emit that ended did

contract == <<issued, registered, emissions, answer>>

Registration == [id : 1 .. MaxRegistration, event : Event, fn : Fn, once : BOOLEAN]
Emission == [event : Event, due : SUBSET Registration, calling : BOOLEAN]
Answer == {"none", "heard", "unheard", "thrown"}

Innermost == emissions[Len(emissions)]
WithInnermost(emission) == [emissions EXCEPT ![Len(emissions)] = emission]
WithoutInnermost == SubSeq(emissions, 1, Len(emissions) - 1)

\* Code that may use the emitter runs: the application's, or a listener's.
CallerRuns == emissions # <<>> => Innermost.calling
EmitRuns == emissions # <<>> /\ ~Innermost.calling

Of(event) == {r \in registered : r.event = event}

Init ==
    /\ issued = 0 /\ registered = {} /\ emissions = <<>> /\ answer = "none"

Register(event, fn, once) ==
    /\ CallerRuns /\ issued < MaxRegistration
    /\ issued' = issued + 1
    /\ registered' = registered \cup
            {[id |-> issued + 1, event |-> event, fn |-> fn, once |-> once]}
    /\ UNCHANGED <<emissions, answer>>

Unregister(dropped) ==
    /\ CallerRuns
    /\ registered' = registered \ dropped
    /\ UNCHANGED <<issued, emissions, answer>>

Begin(event) ==
    /\ CallerRuns
    /\ IF Of(event) = {}
       THEN /\ answer' = IF event = "error" THEN "thrown" ELSE "unheard"
            /\ UNCHANGED emissions
       ELSE /\ Len(emissions) < MaxDepth
            /\ emissions' = Append(emissions,
                    [event |-> event, due |-> Of(event), calling |-> FALSE])
            /\ UNCHANGED answer
    /\ UNCHANGED <<issued, registered>>

Call ==
    /\ EmitRuns
    /\ \E r \in Innermost.due :
          /\ \A other \in Innermost.due : r.id <= other.id
          /\ emissions' = WithInnermost([Innermost EXCEPT !.due = @ \ {r}, !.calling = TRUE])
          /\ registered' = IF r.once THEN registered \ {r} ELSE registered
    /\ UNCHANGED <<issued, answer>>

\* The listener returns, and the emission goes on.
Returns ==
    /\ emissions # <<>> /\ Innermost.calling
    /\ emissions' = WithInnermost([Innermost EXCEPT !.calling = FALSE])
    /\ UNCHANGED <<issued, registered, answer>>

\* The listener throws, and its emission with it.
Throws ==
    /\ emissions # <<>> /\ Innermost.calling
    /\ emissions' = WithoutInnermost
    /\ answer' = "thrown"
    /\ UNCHANGED <<issued, registered>>

End ==
    /\ EmitRuns /\ Innermost.due = {}
    /\ emissions' = WithoutInnermost
    /\ answer' = "heard"
    /\ UNCHANGED <<issued, registered>>

Next ==
    \/ \E event \in Event, fn \in Fn, once \in BOOLEAN : Register(event, fn, once)
    \/ \E event \in Event, fn \in Fn : Unregister({r \in Of(event) : r.fn = fn})
    \/ \E event \in Event : Unregister(Of(event)) \/ Begin(event)
    \/ Unregister(registered)
    \/ Call \/ Returns \/ Throws \/ End

Contract == Init /\ [][Next]_contract
=============================================================================
