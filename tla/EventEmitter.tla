---------------------------- MODULE EventEmitter ----------------------------
(***************************************************************************)
(* EventEmitter (feature-flags/event-emitter.ts).  emit is synchronous, and *)
(* a listener may itself register, remove and emit: the state has the stack *)
(* of the emissions that run, each with the copy of the list it iterates.   *)
(* The listeners, and the application around them, are the environment:     *)
(* what they do between two steps of emit is any sequence of operations.    *)
(*                                                                         *)
(* addListener and removeListener are on and off; listenerCount, listeners  *)
(* and eventNames read `handlers`.                                          *)
(***************************************************************************)
EXTENDS Naturals, Sequences, Ranking

CONSTANTS
    Event,              \* names of events, "error" among them
    Fn,                 \* listener functions
    MaxRegistration,    \* calls of on and once (bound)
    MaxDepth,           \* emissions that nest (bound)
    MaxEmission         \* emissions that have a listener (bound)

ASSUME EmitterAssumption ==
    /\ "error" \in Event
    /\ MaxRegistration \in Nat \ {0} /\ MaxDepth \in Nat \ {0} /\ MaxEmission \in Nat \ {0}

VARIABLES
    issued,         \* Handler objects created: `id` is the identity of each
    handlers,       \* the Map: an event without listeners has no slot
    stack,          \* the emissions that run, the innermost last
    answer,         \* how the last emit that ended did
    emitted,        \* emissions begun so far
    fired           \* for properties: the emission that first called a registration

vars == <<issued, handlers, stack, answer, emitted, fired>>

Id == 1 .. MaxRegistration
Handler == [id : Id, fn : Fn, once : BOOLEAN]
Answer == {"none", "heard", "unheard", "thrown"}

Slot(event) == IF event \in DOMAIN handlers THEN handlers[event] ELSE <<>>

WithSlot(event, list) ==
    [e \in DOMAIN handlers \cup {event} |-> IF e = event THEN list ELSE handlers[e]]

WithoutSlot(event) == [e \in DOMAIN handlers \ {event} |-> handlers[e]]

(* `list.filter` *)
Filter(list, dropped) == ElementsAt(list, {i \in DOMAIN list : list[i] \notin dropped})

(* Mutant: the slot of an event that lost its last listener stays. *)
RemoveKeepingSlot(event, dropped) ==
    IF event \notin DOMAIN handlers THEN handlers
    ELSE WithSlot(event, Filter(handlers[event], dropped))

(* remove: a filtered copy replaces the list, or the slot goes. *)
Remove(event, dropped) ==
    LET next == Filter(Slot(event), dropped)
    IN IF next = <<>> THEN WithoutSlot(event) ELSE WithSlot(event, next)

Top == stack[Len(stack)]
WithTop(frame) == [stack EXCEPT ![Len(stack)] = frame]
WithoutTop == SubSeq(stack, 1, Len(stack) - 1)

CallerRuns == stack # <<>> => Top.calling
EmitRuns == stack # <<>> /\ ~Top.calling

Init ==
    /\ issued = 0 /\ handlers = <<>>
    /\ stack = <<>> /\ answer = "none"
    /\ emitted = 0 /\ fired = [id \in Id |-> 0]

(* on and once: add pushes onto the list that is in the slot. *)
Add(event, fn, once) ==
    /\ CallerRuns /\ issued < MaxRegistration
    /\ issued' = issued + 1
    /\ handlers' = WithSlot(event,
            Append(Slot(event), [id |-> issued + 1, fn |-> fn, once |-> once]))
    /\ UNCHANGED <<stack, answer, emitted, fired>>

(* off drops every registration of fn. *)
Off(event, fn) ==
    /\ CallerRuns
    /\ handlers' = Remove(event, {h \in Handler : h.fn = fn})
    /\ UNCHANGED <<issued, stack, answer, emitted, fired>>

RemoveAllListeners(events) ==
    /\ CallerRuns
    /\ handlers' = [e \in DOMAIN handlers \ events |-> handlers[e]]
    /\ UNCHANGED <<issued, stack, answer, emitted, fired>>

(* emit up to its loop: without a listener it returns false, or throws an   *)
(* 'error'; else it copies the list.                                        *)
Emit(event) ==
    /\ CallerRuns
    /\ IF Slot(event) = <<>>
       THEN /\ answer' = IF event = "error" THEN "thrown" ELSE "unheard"
            /\ UNCHANGED <<stack, emitted>>
       ELSE /\ Len(stack) < MaxDepth /\ emitted < MaxEmission
            /\ emitted' = emitted + 1
            /\ stack' = Append(stack, [event |-> event, list |-> Slot(event), next |-> 1,
                                       calling |-> FALSE, number |-> emitted + 1])
            /\ UNCHANGED answer
    /\ UNCHANGED <<issued, handlers, fired>>

(* Mutant: a `once` registration is kept. *)
DropOnceNever(event, h) == handlers

(* Mutant: the registration is found by its function. *)
DropOnceByFn(event, h) ==
    IF h.once THEN Remove(event, {existing \in Handler : existing.fn = h.fn}) ELSE handlers

(* A `once` registration is removed by identity before its call. *)
DropOnce(event, h) ==
    IF h.once THEN Remove(event, {h}) ELSE handlers

(* One turn of the loop, up to the call of the listener. *)
Dispatch ==
    /\ EmitRuns /\ Top.next <= Len(Top.list)
    /\ LET h == Top.list[Top.next]
       IN /\ handlers' = DropOnce(Top.event, h)
          /\ fired' = IF fired[h.id] = 0 THEN [fired EXCEPT ![h.id] = Top.number] ELSE fired
    /\ stack' = WithTop([Top EXCEPT !.next = @ + 1, !.calling = TRUE])
    /\ UNCHANGED <<issued, answer, emitted>>

(* The listener returns to the loop. *)
Return ==
    /\ stack # <<>> /\ Top.calling
    /\ stack' = WithTop([Top EXCEPT !.calling = FALSE])
    /\ UNCHANGED <<issued, handlers, answer, emitted, fired>>

(* The listener throws through emit to whoever emitted, who may catch it or *)
(* throw in turn.                                                           *)
Throw ==
    /\ stack # <<>> /\ Top.calling
    /\ stack' = WithoutTop
    /\ answer' = "thrown"
    /\ UNCHANGED <<issued, handlers, emitted, fired>>

(* The loop has run over its list: emit returns true. *)
Finish ==
    /\ EmitRuns /\ Top.next > Len(Top.list)
    /\ stack' = WithoutTop
    /\ answer' = "heard"
    /\ UNCHANGED <<issued, handlers, emitted, fired>>

Next ==
    \/ \E event \in Event, fn \in Fn, once \in BOOLEAN : Add(event, fn, once)
    \/ \E event \in Event, fn \in Fn : Off(event, fn)
    \/ \E event \in Event : RemoveAllListeners({event}) \/ Emit(event)
    \/ RemoveAllListeners(Event)
    \/ Dispatch \/ Return \/ Throw \/ Finish

Spec == Init /\ [][Next]_vars

-----------------------------------------------------------------------------

(* The state is well typed, no slot is empty (eventNames lists events that  *)
(* have listeners), and a list is in the order of registration.             *)
TypeOK ==
    /\ issued \in 0 .. MaxRegistration /\ emitted \in 0 .. MaxEmission
    /\ DOMAIN handlers \subseteq Event
    /\ \A e \in DOMAIN handlers :
          /\ handlers[e] \in Seq(Handler) \ {<<>>}
          /\ \A i, j \in DOMAIN handlers[e] :
                i < j => handlers[e][i].id < handlers[e][j].id
    /\ answer \in Answer
    /\ Len(stack) <= MaxDepth
    /\ \A i \in DOMAIN stack :
          stack[i] \in [event : Event, list : Seq(Handler), next : Nat,
                        calling : BOOLEAN, number : 1 .. MaxEmission]
    /\ fired \in [Id -> 0 .. MaxEmission]

Registered(event, h) == [id |-> h.id, event |-> event, fn |-> h.fn, once |-> h.once]
Due(frame) ==
    {Registered(frame.event, frame.list[i]) : i \in frame.next .. Len(frame.list)}

Promise == INSTANCE ListenerContract WITH
    registered <- UNION {{Registered(e, handlers[e][i]) : i \in DOMAIN handlers[e]} :
                         e \in DOMAIN handlers},
    emissions <- [i \in DOMAIN stack |->
        [event |-> stack[i].event, due |-> Due(stack[i]), calling |-> stack[i].calling]]

(* The emitter keeps the contract: every emission calls, in order, exactly  *)
(* the listeners registered when it began, though listeners register,       *)
(* remove, emit and throw while it runs.                                    *)
KeepsContract == Promise!Contract

(* No emission that begins after a `once` listener was called has it again: *)
(* only an emission that was already running, around the one that called    *)
(* it, still will.                                                          *)
OnceOnlyAgainOutside ==
    \A i \in DOMAIN stack : \A j \in stack[i].next .. Len(stack[i].list) :
        LET h == stack[i].list[j]
        IN h.once /\ fired[h.id] > 0 => stack[i].number < fired[h.id]
=============================================================================
