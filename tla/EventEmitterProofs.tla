------------------------- MODULE EventEmitterProofs -------------------------
(***************************************************************************)
(* An emitter of any number of events, listeners, registrations and nested  *)
(* emissions keeps the contract of ListenerContract: whatever a listener    *)
(* does while an emission runs, the emission calls the listeners its event  *)
(* had when it began.                                                       *)
(***************************************************************************)
EXTENDS EventEmitter, RankingProofs, SequenceTheorems

Frame == [event : Event, list : Seq(Handler), next : Nat,
          calling : BOOLEAN, number : 1 .. MaxEmission]

ById(list) == \A i, j \in DOMAIN list : i < j => list[i].id < list[j].id

(* Each slot has listeners, in the order they were registered.              *)
SlotsOK ==
    /\ DOMAIN handlers \subseteq Event
    /\ \A e \in DOMAIN handlers : handlers[e] \in Seq(Handler) \ {<<>>} /\ ById(handlers[e])

(* So has the copy of each emission, which is somewhere in it; an emission  *)
(* began after those around it.                                             *)
StackOK ==
    /\ stack \in Seq(Frame) /\ Len(stack) <= MaxDepth
    /\ \A i \in 1 .. Len(stack) :
          /\ ById(stack[i].list) /\ stack[i].next \in 1 .. Len(stack[i].list) + 1
          /\ stack[i].number <= emitted
          /\ \A j \in 1 .. Len(stack) : i < j => stack[i].number < stack[j].number

CountsOK ==
    /\ issued \in 0 .. MaxRegistration /\ emitted \in 0 .. MaxEmission /\ answer \in Answer
    /\ fired \in [Id -> 0 .. MaxEmission]

(* The registrations that a slot or an emission has, each with its event:   *)
(* the Handler object tells them apart, as its identity does in the code.   *)
InSlots == UNION {{<<e, handlers[e][i]>> : i \in DOMAIN handlers[e]} : e \in DOMAIN handlers}
InFrames ==
    UNION {{<<stack[k].event, stack[k].list[j]>> : j \in DOMAIN stack[k].list} : k \in DOMAIN stack}
Known == InSlots \cup InFrames
IdsIdentify ==
    /\ \A p \in Known : p[2].id <= issued
    /\ \A p, q \in Known : p[2].id = q[2].id => p = q

(* A registration not yet made was not called, and a `once` registration    *)
(* that was called is in no slot.                                           *)
CalledOnceIsGone ==
    /\ \A id \in Id : id > issued => fired[id] = 0
    /\ \A p \in InSlots : p[2].once => fired[p[2].id] = 0

EmitterInv ==
    SlotsOK /\ StackOK /\ CountsOK /\ IdsIdentify /\ CalledOnceIsGone /\ OnceOnlyAgainOutside

-----------------------------------------------------------------------------
(* What the operations make of the slots. *)

LEMMA FilterProperties ==
    ASSUME NEW list \in Seq(Handler), NEW dropped
    PROVE LET next == Filter(list, dropped)
          IN /\ next \in Seq(Handler) /\ Range(next) = Range(list) \ dropped
             /\ ById(list) => ById(next)
<1>. DEFINE positions == {i \in DOMAIN list : list[i] \notin dropped}
            count == Cardinality(positions)
            next == [k \in 1 .. count |-> list[Nth(positions, k)]]
<1>1. Len(list) \in Nat /\ DOMAIN list = 1 .. Len(list) /\ \A i \in 1 .. Len(list) : list[i] \in Handler
    BY LenProperties, ElementOfSeq
<1>2. positions \in SUBSET Nat /\ \A i \in positions : i <= Len(list)
    BY <1>1
<1>3. IsFiniteSet(positions)
    BY <1>1, <1>2, FS_BoundedSetOfNaturals
<1>4. /\ count \in Nat
      /\ \A k \in 1 .. count : Nth(positions, k) \in positions
      /\ \A j, k \in 1 .. count : j < k => Nth(positions, j) < Nth(positions, k)
      /\ \A i \in positions : \E k \in 1 .. count : Nth(positions, k) = i
    BY <1>2, <1>3, NthProperties
<1>5. Filter(list, dropped) = next
    BY DEF Filter, ElementsAt
<1>. HIDE DEF count
<1>6. /\ \A k \in 1 .. count : Nth(positions, k) \in DOMAIN list /\ next[k] \notin dropped
                                /\ next[k] \in Handler
      /\ Len(next) = count /\ DOMAIN next = 1 .. count /\ next \in Seq(Handler)
    BY <1>1, <1>4
<1>7. Range(next) = Range(list) \ dropped
    <2>1. ASSUME NEW h \in Range(list) \ dropped PROVE h \in Range(next)
        <3>1. PICK i \in positions : list[i] = h
            BY DEF Range
        <3>2. PICK k \in 1 .. count : Nth(positions, k) = i
            BY <1>4
        <3>. QED
            BY <1>6, <3>1, <3>2 DEF Range
    <2>2. Range(next) \subseteq Range(list) \ dropped
        BY <1>6 DEF Range
    <2>. QED
        BY <2>1, <2>2
<1>8. ASSUME ById(list) PROVE ById(next)
    BY <1>4, <1>6, <1>8 DEF ById
<1>. QED
    BY <1>5, <1>6, <1>7, <1>8

LEMMA SlotMembers ==
    ASSUME NEW p
    PROVE p \in InSlots <=> \E e \in DOMAIN handlers : \E h \in Range(handlers[e]) : p = <<e, h>>
BY DEF InSlots, Range

LEMMA SlotMembersNext ==
    ASSUME NEW p
    PROVE p \in InSlots' <=> \E e \in DOMAIN handlers' : \E h \in Range(handlers'[e]) : p = <<e, h>>
BY DEF InSlots, Range

(* A slot that is replaced by a list, or dropped for want of one. *)
LEMMA SlotReplaced ==
    ASSUME SlotsOK, NEW event \in Event, NEW list \in Seq(Handler), ById(list),
           handlers' = IF list = <<>> THEN WithoutSlot(event) ELSE WithSlot(event, list)
    PROVE /\ SlotsOK'
          /\ \A p : p \in InSlots' <=>
                \/ p \in InSlots /\ p[1] # event
                \/ \E h \in Range(list) : p = <<event, h>>
<1>1. CASE list = <<>>
    <2>1. Range(list) = {}
        BY <1>1 DEF Range
    <2>2. DOMAIN handlers' = DOMAIN handlers \ {event}
          /\ \A e \in DOMAIN handlers \ {event} : handlers'[e] = handlers[e]
        BY <1>1 DEF WithoutSlot
    <2>3. SlotsOK'
        BY <2>2 DEF SlotsOK
    <2>4. ASSUME NEW p PROVE p \in InSlots' <=> p \in InSlots /\ p[1] # event
        BY <2>2, SlotMembers, SlotMembersNext
    <2>. QED
        BY <2>1, <2>3, <2>4
<1>2. CASE list # <<>>
    <2>1. /\ DOMAIN handlers' = DOMAIN handlers \cup {event} /\ handlers'[event] = list
          /\ \A e \in DOMAIN handlers \ {event} : handlers'[e] = handlers[e]
        BY <1>2 DEF WithSlot
    <2>2. SlotsOK'
        BY <1>2, <2>1 DEF SlotsOK
    <2>3. ASSUME NEW p
          PROVE p \in InSlots' <=> \/ (p \in InSlots /\ p[1] # event)
                                   \/ \E h \in Range(list) : p = <<event, h>>
        BY <2>1, SlotMembers, SlotMembersNext
    <2>. QED
        BY <2>2, <2>3
<1>. QED
    BY <1>1, <1>2

LEMMA SlotProperties ==
    ASSUME SlotsOK, NEW event
    PROVE /\ Slot(event) \in Seq(Handler) /\ ById(Slot(event))
          /\ \A h : h \in Range(Slot(event)) <=> <<event, h>> \in InSlots
          /\ \A p \in InSlots : p = <<p[1], p[2]>> /\ p[1] \in Event /\ p[2] \in Handler
<1>1. ById(<<>>) /\ <<>> \in Seq(Handler) /\ Range(<<>>) = {}
    BY DEF ById, Range
<1>2. Slot(event) \in Seq(Handler) /\ ById(Slot(event))
    BY <1>1 DEF Slot, SlotsOK
<1>3. ASSUME NEW h PROVE h \in Range(Slot(event)) <=> <<event, h>> \in InSlots
    BY <1>1, SlotMembers DEF Slot
<1>4. ASSUME NEW p \in InSlots PROVE p = <<p[1], p[2]>> /\ p[1] \in Event /\ p[2] \in Handler
    <2>1. PICK e \in DOMAIN handlers : \E h \in Range(handlers[e]) : p = <<e, h>>
        BY SlotMembers
    <2>2. handlers[e] \in Seq(Handler) /\ e \in Event
        BY DEF SlotsOK
    <2>3. Range(handlers[e]) \subseteq Handler
        BY <2>2, RangeOfSeq
    <2>. QED
        BY <2>1, <2>2, <2>3
<1>. QED
    BY <1>2, <1>3, <1>4

(* remove takes out of one slot what it is told to, and nothing else. *)
LEMMA RemoveFromSlot ==
    ASSUME SlotsOK, NEW event \in Event, NEW dropped, handlers' = Remove(event, dropped)
    PROVE /\ SlotsOK'
          /\ InSlots' = {p \in InSlots : p[1] # event \/ p[2] \notin dropped}
<1>. DEFINE next == Filter(Slot(event), dropped)
<1>1. /\ Slot(event) \in Seq(Handler) /\ ById(Slot(event))
      /\ \A h : h \in Range(Slot(event)) <=> <<event, h>> \in InSlots
      /\ \A p \in InSlots : p = <<p[1], p[2]>>
    BY SlotProperties
<1>2. /\ next \in Seq(Handler) /\ ById(next) /\ Range(next) = Range(Slot(event)) \ dropped
    BY <1>1, FilterProperties
<1>3. handlers' = IF next = <<>> THEN WithoutSlot(event) ELSE WithSlot(event, next)
    BY DEF Remove
<1>. HIDE DEF next
<1>4. /\ SlotsOK'
      /\ \A p : p \in InSlots' <=> \/ (p \in InSlots /\ p[1] # event)
                                    \/ \E h \in Range(next) : p = <<event, h>>
    BY <1>2, <1>3, SlotReplaced
<1>5. ASSUME NEW p
      PROVE (\E h \in Range(next) : p = <<event, h>>)
               <=> p \in InSlots /\ p[1] = event /\ p[2] \notin dropped
    BY <1>1, <1>2
<1>. QED
    BY <1>4, <1>5

LEMMA DropOnceTakes ==
    ASSUME SlotsOK, NEW event \in Event, NEW h, handlers' = DropOnce(event, h)
    PROVE SlotsOK' /\ InSlots' = {p \in InSlots : ~ (h.once /\ p[1] = event /\ p[2] = h)}
<1>1. CASE h.once
    <2>1. handlers' = Remove(event, {h})
        BY <1>1 DEF DropOnce
    <2>2. SlotsOK' /\ InSlots' = {p \in InSlots : p[1] # event \/ p[2] \notin {h}}
        BY <2>1, RemoveFromSlot
    <2>. QED
        BY <1>1, <2>2
<1>2. CASE ~ h.once
    <2>1. handlers' = handlers
        BY <1>2 DEF DropOnce
    <2>. QED
        BY <1>2, <2>1 DEF SlotsOK, InSlots
<1>. QED
    BY <1>1, <1>2

LEMMA RemoveWholeSlots ==
    ASSUME SlotsOK, NEW events, handlers' = [e \in DOMAIN handlers \ events |-> handlers[e]]
    PROVE SlotsOK' /\ InSlots' = {p \in InSlots : p[1] \notin events}
<1>1. DOMAIN handlers' = DOMAIN handlers \ events
      /\ \A e \in DOMAIN handlers \ events : handlers'[e] = handlers[e]
    OBVIOUS
<1>2. SlotsOK'
    BY <1>1 DEF SlotsOK
<1>3. ASSUME NEW p PROVE p \in InSlots' <=> p \in InSlots /\ p[1] \notin events
    BY <1>1, SlotMembers, SlotMembersNext
<1>. QED
    BY <1>2, <1>3

(* add pushes a registration onto the slot. *)
LEMMA AddToSlot ==
    ASSUME SlotsOK, IdsIdentify, CountsOK, NEW event \in Event, NEW fn \in Fn, NEW once \in BOOLEAN,
           Add(event, fn, once)
    PROVE LET h == [id |-> issued + 1, fn |-> fn, once |-> once]
          IN h \in Handler /\ SlotsOK' /\ InSlots' = InSlots \cup {<<event, h>>}
<1>. DEFINE h == [id |-> issued + 1, fn |-> fn, once |-> once]
            list == Append(Slot(event), h)
<1>1. /\ Slot(event) \in Seq(Handler) /\ ById(Slot(event))
      /\ \A g : g \in Range(Slot(event)) <=> <<event, g>> \in InSlots
      /\ \A p \in InSlots : p = <<p[1], p[2]>>
    BY SlotProperties
<1>2. h \in Handler
    BY EmitterAssumption DEF Add, CountsOK, Handler, Id
<1>. HIDE DEF h
<1>3. /\ list \in Seq(Handler) /\ list # <<>> /\ Len(list) = Len(Slot(event)) + 1
      /\ \A i \in 1 .. Len(Slot(event)) : list[i] = Slot(event)[i]
      /\ list[Len(Slot(event)) + 1] = h /\ Len(Slot(event)) \in Nat
      /\ DOMAIN list = 1 .. Len(list) /\ DOMAIN Slot(event) = 1 .. Len(Slot(event))
    BY <1>1, <1>2, AppendProperties, LenProperties
<1>4. handlers' = IF list = <<>> THEN WithoutSlot(event) ELSE WithSlot(event, list)
    BY <1>3 DEF Add, h
<1>. HIDE DEF list
<1>5. ById(list)
    <2>1. \A i \in 1 .. Len(Slot(event)) : Slot(event)[i].id <= issued /\ Slot(event)[i].id \in Nat
        <3>. SUFFICES ASSUME NEW i \in 1 .. Len(Slot(event))
                      PROVE Slot(event)[i].id <= issued /\ Slot(event)[i].id \in Nat
            OBVIOUS
        <3>1. Slot(event)[i] \in Range(Slot(event)) /\ Slot(event)[i] \in Handler
            BY <1>1, <1>3, ElementOfSeq DEF Range
        <3>2. <<event, Slot(event)[i]>> \in Known
            BY <1>1, <3>1 DEF Known
        <3>. QED
            BY <3>1, <3>2 DEF IdsIdentify, Handler, Id
    <2>2. h.id = issued + 1 /\ issued \in Nat
        BY DEF h, CountsOK
    <2>. QED
        BY <1>1, <1>3, <2>1, <2>2 DEF ById
<1>6. /\ SlotsOK'
      /\ \A p : p \in InSlots' <=> \/ (p \in InSlots /\ p[1] # event)
                                    \/ \E g \in Range(list) : p = <<event, g>>
    BY <1>3, <1>4, <1>5, SlotReplaced
<1>7. \A g : g \in Range(list) <=> g \in Range(Slot(event)) \/ g = h
    BY <1>3 DEF Range
<1>8. InSlots' = InSlots \cup {<<event, h>>}
    BY <1>1, <1>6, <1>7
<1>. QED
    BY <1>2, <1>6, <1>8 DEF h

-----------------------------------------------------------------------------
(* What the operations make of the stack. *)

LEMMA StackProperties ==
    ASSUME StackOK
    PROVE /\ Len(stack) \in Nat /\ DOMAIN stack = 1 .. Len(stack)
          /\ \A i \in 1 .. Len(stack) :
                /\ stack[i] \in Frame /\ stack[i].list \in Seq(Handler)
                /\ Len(stack[i].list) \in Nat
                /\ DOMAIN stack[i].list = 1 .. Len(stack[i].list)
                /\ \A j \in 1 .. Len(stack[i].list) : stack[i].list[j] \in Handler
                /\ stack[i].number \in Nat /\ stack[i].number <= emitted
          /\ stack # <<>> => Len(stack) \in 1 .. Len(stack) /\ Top = stack[Len(stack)] /\ Top \in Frame
<1>1. Len(stack) \in Nat /\ DOMAIN stack = 1 .. Len(stack)
    BY LenProperties DEF StackOK
<1>2. ASSUME NEW i \in 1 .. Len(stack)
      PROVE /\ stack[i] \in Frame /\ stack[i].list \in Seq(Handler)
            /\ Len(stack[i].list) \in Nat
            /\ DOMAIN stack[i].list = 1 .. Len(stack[i].list)
            /\ \A j \in 1 .. Len(stack[i].list) : stack[i].list[j] \in Handler
            /\ stack[i].number \in Nat /\ stack[i].number <= emitted
    <2>1. stack[i] \in Frame
        BY ElementOfSeq DEF StackOK
    <2>2. stack[i].list \in Seq(Handler) /\ stack[i].number \in Nat
        BY <2>1 DEF Frame
    <2>3. stack[i].number <= emitted
        BY DEF StackOK
    <2>. QED
        BY <2>1, <2>2, <2>3, LenProperties, ElementOfSeq
<1>3. stack # <<>> => Len(stack) # 0
    BY EmptySeq DEF StackOK
<1>. QED
    BY <1>1, <1>2, <1>3 DEF Top

LEMMA FrameMembers ==
    ASSUME NEW p
    PROVE p \in InFrames <=>
            \E k \in DOMAIN stack : \E j \in DOMAIN stack[k].list : p = <<stack[k].event, stack[k].list[j]>>
BY DEF InFrames

LEMMA FrameMembersNext ==
    ASSUME NEW p
    PROVE p \in InFrames' <=>
            \E k \in DOMAIN stack' :
                \E j \in DOMAIN stack'[k].list : p = <<stack'[k].event, stack'[k].list[j]>>
BY DEF InFrames

(* The innermost emission ends. *)
LEMMA PopKeeps ==
    ASSUME StackOK, OnceOnlyAgainOutside, stack # <<>>, stack' = WithoutTop,
           UNCHANGED <<emitted, fired>>
    PROVE StackOK' /\ InFrames' \subseteq InFrames /\ OnceOnlyAgainOutside'
<1>1. /\ Len(stack) \in Nat \ {0} /\ DOMAIN stack = 1 .. Len(stack)
      /\ \A i \in 1 .. Len(stack) - 1 : stack[i] \in Frame
    BY StackProperties
<1>2. /\ stack' \in Seq(Frame) /\ Len(stack') = Len(stack) - 1
      /\ \A i \in 1 .. Len(stack') : stack'[i] = stack[i] /\ i \in 1 .. Len(stack)
      /\ DOMAIN stack' = 1 .. Len(stack')
    <2>1. /\ stack' \in Seq(Frame) /\ Len(stack') = Len(stack) - 1
          /\ \A i \in 1 .. Len(stack) - 1 : stack'[i] = stack[i]
        BY <1>1, SubSeqProperties DEF WithoutTop
    <2>. QED
        BY <1>1, <2>1, LenProperties
<1>3. StackOK'
    <2>1. Len(stack') <= MaxDepth
        BY <1>1, <1>2, EmitterAssumption DEF StackOK
    <2>. QED
        BY <1>1, <1>2, <2>1 DEF StackOK
<1>4. InFrames' \subseteq InFrames
    BY <1>1, <1>2, FrameMembers, FrameMembersNext
<1>5. OnceOnlyAgainOutside'
    <2>. SUFFICES ASSUME NEW i \in DOMAIN stack',
                         NEW j \in stack'[i].next .. Len(stack'[i].list),
                         stack'[i].list[j].once, fired[stack'[i].list[j].id] > 0
                  PROVE stack'[i].number < fired[stack'[i].list[j].id]
        BY DEF OnceOnlyAgainOutside
    <2>1. i \in DOMAIN stack /\ stack'[i] = stack[i]
        BY <1>1, <1>2
    <2>. QED
        BY <2>1 DEF OnceOnlyAgainOutside
<1>. QED
    BY <1>3, <1>4, <1>5

(* The innermost emission goes on. *)
LEMMA TopGoesOn ==
    ASSUME StackOK, stack # <<>>, UNCHANGED emitted,
           NEW next \in Top.next .. Len(Top.list) + 1, NEW calling \in BOOLEAN,
           stack' = WithTop([Top EXCEPT !.next = next, !.calling = calling])
    PROVE /\ StackOK' /\ InFrames' = InFrames
          /\ Len(stack') = Len(stack) /\ DOMAIN stack' = DOMAIN stack
          /\ \A i \in DOMAIN stack : /\ stack'[i].list = stack[i].list
                                    /\ stack'[i].number = stack[i].number
                                    /\ stack'[i].event = stack[i].event
          /\ \A i \in DOMAIN stack : i # Len(stack) => stack'[i] = stack[i]
          /\ stack'[Len(stack)].next = next /\ stack'[Len(stack)].calling = calling
<1>. DEFINE frame == [Top EXCEPT !.next = next, !.calling = calling]
<1>1. /\ Len(stack) \in Nat /\ DOMAIN stack = 1 .. Len(stack) /\ Len(stack) \in 1 .. Len(stack)
      /\ Top = stack[Len(stack)] /\ Top \in Frame /\ Len(Top.list) \in Nat
    BY StackProperties
<1>2. Top.next \in 1 .. Len(Top.list) + 1
    BY <1>1 DEF StackOK
<1>3. next \in 1 .. Len(Top.list) + 1 /\ next \in Nat
    BY <1>1, <1>2
<1>4. /\ frame \in Frame /\ frame.list = Top.list /\ frame.number = Top.number
      /\ frame.event = Top.event /\ frame.next = next /\ frame.calling = calling
    BY <1>1, <1>3 DEF Frame
<1>. HIDE DEF frame
<1>5. /\ stack' \in Seq(Frame) /\ Len(stack') = Len(stack)
      /\ \A i \in 1 .. Len(stack) : stack'[i] = IF i = Len(stack) THEN frame ELSE stack[i]
    <2>1. stack' = [stack EXCEPT ![Len(stack)] = frame]
        BY DEF WithTop, frame
    <2>2. stack \in Seq(Frame)
        BY DEF StackOK
    <2>. QED
        BY <1>1, <1>4, <2>1, <2>2, ExceptSeq
<1>6. DOMAIN stack' = 1 .. Len(stack)
    BY <1>5, LenProperties
<1>7. \A i \in 1 .. Len(stack) : /\ stack'[i].list = stack[i].list
                                /\ stack'[i].number = stack[i].number
                                /\ stack'[i].event = stack[i].event
    BY <1>1, <1>4, <1>5
<1>8. StackOK'
    <2>1. \A i \in 1 .. Len(stack) : stack'[i].next \in 1 .. Len(stack[i].list) + 1
        BY <1>1, <1>3, <1>4, <1>5 DEF StackOK
    <2>. QED
        BY <1>5, <1>7, <2>1 DEF StackOK
<1>9. InFrames' = InFrames
    <2>1. DOMAIN stack' = DOMAIN stack
          /\ \A k \in DOMAIN stack : stack'[k].event = stack[k].event /\ stack'[k].list = stack[k].list
        BY <1>1, <1>6, <1>7
    <2>2. ASSUME NEW p \in InFrames PROVE p \in InFrames'
        BY <2>1, FrameMembers, FrameMembersNext
    <2>3. ASSUME NEW p \in InFrames' PROVE p \in InFrames
        BY <2>1, FrameMembers, FrameMembersNext
    <2>. QED
        BY <2>2, <2>3
<1>. QED
    BY <1>1, <1>4, <1>5, <1>6, <1>7, <1>8, <1>9

(* An emission begins with a copy of its slot. *)
LEMMA EmissionBegins ==
    ASSUME EmitterInv, NEW event \in Event, Slot(event) # <<>>, Emit(event)
    PROVE /\ StackOK' /\ InFrames' \subseteq InFrames \cup InSlots /\ OnceOnlyAgainOutside'
          /\ emitted' \in 0 .. MaxEmission
<1>. DEFINE frame == [event |-> event, list |-> Slot(event), next |-> 1, calling |-> FALSE,
                      number |-> emitted + 1]
<1>1. /\ stack' = Append(stack, frame) /\ emitted' = emitted + 1 /\ UNCHANGED <<fired, handlers, issued>>
      /\ Len(stack) < MaxDepth /\ emitted < MaxEmission
    BY DEF Emit
<1>2. /\ StackOK /\ SlotsOK /\ CountsOK /\ CalledOnceIsGone /\ OnceOnlyAgainOutside
      /\ emitted \in Nat /\ MaxEmission \in Nat /\ MaxDepth \in Nat
    BY EmitterAssumption DEF EmitterInv, CountsOK
<1>3. /\ Slot(event) \in Seq(Handler) /\ ById(Slot(event)) /\ Len(Slot(event)) \in Nat
      /\ \A h \in Range(Slot(event)) : <<event, h>> \in InSlots
      /\ DOMAIN Slot(event) = 1 .. Len(Slot(event))
    BY <1>2, SlotProperties, LenProperties
<1>4. /\ frame \in Frame /\ frame.event = event /\ frame.list = Slot(event)
      /\ frame.next = 1 /\ frame.number = emitted + 1
    BY <1>1, <1>2, <1>3 DEF Frame
<1>. HIDE DEF frame
<1>5. /\ stack' \in Seq(Frame) /\ Len(stack') = Len(stack) + 1
      /\ \A i \in 1 .. Len(stack) : stack'[i] = stack[i]
      /\ stack'[Len(stack) + 1] = frame
      /\ Len(stack) \in Nat /\ DOMAIN stack = 1 .. Len(stack) /\ DOMAIN stack' = 1 .. Len(stack')
    BY <1>1, <1>2, <1>4, AppendProperties, LenProperties, StackProperties DEF StackOK
<1>6. \A i \in 1 .. Len(stack') : i \in 1 .. Len(stack) \/ i = Len(stack) + 1
    BY <1>5
<1>7. StackOK'
    <2>1. ASSUME NEW i \in 1 .. Len(stack')
          PROVE /\ ById(stack'[i].list) /\ stack'[i].next \in 1 .. Len(stack'[i].list) + 1
                /\ stack'[i].number <= emitted'
        <3>1. CASE i \in 1 .. Len(stack)
            <4>1. stack[i].number <= emitted /\ stack[i].number \in Nat
                BY <1>2, <3>1, StackProperties
            <4>2. ById(stack[i].list) /\ stack[i].next \in 1 .. Len(stack[i].list) + 1
                BY <1>2, <3>1 DEF StackOK
            <4>3. stack'[i] = stack[i] /\ emitted' = emitted + 1
                BY <1>1, <1>5, <3>1
            <4>. QED
                BY <1>2, <4>1, <4>2, <4>3
        <3>2. CASE i = Len(stack) + 1
            BY <1>1, <1>2, <1>3, <1>4, <1>5, <3>2
        <3>. QED
            BY <1>6, <3>1, <3>2
    <2>2. ASSUME NEW i \in 1 .. Len(stack'), NEW j \in 1 .. Len(stack'), i < j
          PROVE stack'[i].number < stack'[j].number
        <3>1. i \in 1 .. Len(stack)
            BY <1>5, <2>2
        <3>2. stack[i].number <= emitted /\ stack[i].number \in Nat
            BY <1>2, <3>1, StackProperties
        <3>3. CASE j \in 1 .. Len(stack)
            <4>1. stack[i].number < stack[j].number
                BY <1>2, <2>2, <3>1, <3>3 DEF StackOK
            <4>. QED
                BY <1>5, <3>1, <3>3, <4>1
        <3>4. CASE j = Len(stack) + 1
            BY <1>2, <1>4, <1>5, <3>1, <3>2, <3>4
        <3>. QED
            BY <1>6, <3>3, <3>4
    <2>. QED
        BY <1>1, <1>2, <1>5, <2>1, <2>2 DEF StackOK
<1>8. InFrames' \subseteq InFrames \cup InSlots
    <2>. SUFFICES ASSUME NEW p \in InFrames' PROVE p \in InFrames \cup InSlots
        OBVIOUS
    <2>1. PICK k \in DOMAIN stack' : \E j \in DOMAIN stack'[k].list :
                p = <<stack'[k].event, stack'[k].list[j]>>
        BY FrameMembersNext
    <2>2. CASE k \in 1 .. Len(stack)
        BY <1>5, <2>1, <2>2, FrameMembers
    <2>3. CASE k = Len(stack) + 1
        BY <1>3, <1>4, <1>5, <2>1, <2>3 DEF Range
    <2>. QED
        BY <1>5, <1>6, <2>1, <2>2, <2>3
<1>9. OnceOnlyAgainOutside'
    <2>. SUFFICES ASSUME NEW i \in 1 .. Len(stack'), NEW j \in stack'[i].next .. Len(stack'[i].list),
                         stack'[i].list[j].once, fired[stack'[i].list[j].id] > 0
                  PROVE stack'[i].number < fired[stack'[i].list[j].id]
        BY <1>1, <1>5 DEF OnceOnlyAgainOutside
    <2>1. CASE i \in 1 .. Len(stack)
        BY <1>2, <1>5, <2>1 DEF OnceOnlyAgainOutside
    <2>2. CASE i = Len(stack) + 1
        <3>1. j \in 1 .. Len(Slot(event)) /\ stack'[i].list[j] = Slot(event)[j]
            BY <1>3, <1>4, <1>5, <2>2
        <3>2. <<event, Slot(event)[j]>> \in InSlots
            BY <1>3, <3>1 DEF Range
        <3>. QED
            BY <1>2, <3>1, <3>2 DEF CalledOnceIsGone
    <2>. QED
        BY <1>6, <2>1, <2>2
<1>. QED
    BY <1>1, <1>2, <1>7, <1>8, <1>9

(* The loop calls a listener. *)
LEMMA DispatchKeeps == ASSUME EmitterInv, Dispatch PROVE EmitterInv'
<1>. DEFINE h == Top.list[Top.next]
            event == Top.event
            top == Len(stack)
<1>1. /\ stack # <<>> /\ Top.next <= Len(Top.list) /\ handlers' = DropOnce(event, h)
      /\ fired' = IF fired[h.id] = 0 THEN [fired EXCEPT ![h.id] = Top.number] ELSE fired
      /\ stack' = WithTop([Top EXCEPT !.next = Top.next + 1, !.calling = TRUE])
      /\ UNCHANGED <<issued, answer, emitted>>
    BY DEF Dispatch, EmitRuns
<1>2. /\ SlotsOK /\ StackOK /\ CountsOK /\ IdsIdentify /\ CalledOnceIsGone /\ OnceOnlyAgainOutside
    BY DEF EmitterInv
<1>3. /\ top \in 1 .. top /\ DOMAIN stack = 1 .. top /\ Top = stack[top] /\ Top \in Frame
      /\ Top.next \in 1 .. Len(Top.list) /\ Len(Top.list) \in Nat /\ ById(Top.list)
      /\ h \in Handler /\ event \in Event /\ Top.number \in 1 .. MaxEmission
      /\ DOMAIN Top.list = 1 .. Len(Top.list) /\ top \in Nat
    <2>1. /\ top \in 1 .. top /\ DOMAIN stack = 1 .. top /\ Top = stack[top] /\ Top \in Frame
          /\ Len(Top.list) \in Nat /\ DOMAIN Top.list = 1 .. Len(Top.list) /\ top \in Nat
          /\ \A j \in 1 .. Len(Top.list) : Top.list[j] \in Handler
        BY <1>1, <1>2, StackProperties
    <2>2. Top.next \in 1 .. Len(Top.list) + 1 /\ ById(Top.list)
        BY <1>2, <2>1 DEF StackOK
    <2>. QED
        BY <1>1, <2>1, <2>2 DEF Frame
<1>4. <<event, h>> \in InFrames
    BY <1>3, FrameMembers
<1>. HIDE DEF h, event, top
<1>5. /\ StackOK' /\ InFrames' = InFrames /\ Len(stack') = top /\ DOMAIN stack' = DOMAIN stack
      /\ \A i \in DOMAIN stack : /\ stack'[i].list = stack[i].list
                                /\ stack'[i].number = stack[i].number
      /\ \A i \in DOMAIN stack : i # top => stack'[i] = stack[i]
      /\ stack'[top].next = Top.next + 1
    <2>1. Top.next + 1 \in Top.next .. Len(Top.list) + 1
        BY <1>3
    <2>. QED
        BY <1>1, <1>2, <2>1, TopGoesOn DEF top
<1>6. SlotsOK' /\ InSlots' = {p \in InSlots : ~ (h.once /\ p[1] = event /\ p[2] = h)}
    BY <1>1, <1>2, <1>3, DropOnceTakes
<1>7. h.id \in Id /\ h.id <= issued /\ issued \in Nat
    BY <1>2, <1>3, <1>4 DEF Handler, Known, IdsIdentify, CountsOK
<1>8. /\ fired' \in [Id -> 0 .. MaxEmission]
      /\ \A id \in Id : id # h.id => fired'[id] = fired[id]
      /\ fired[h.id] # 0 => fired' = fired
      /\ fired[h.id] = 0 => fired'[h.id] = Top.number
    BY <1>1, <1>2, <1>3, <1>7 DEF CountsOK
<1>9. CountsOK'
    BY <1>1, <1>2, <1>8 DEF CountsOK
<1>10. IdsIdentify'
    <2>1. Known' \subseteq Known
        BY <1>5, <1>6 DEF Known
    <2>. QED
        BY <1>1, <1>2, <2>1 DEF IdsIdentify
<1>11. CalledOnceIsGone'
    <2>1. ASSUME NEW id \in Id, id > issued PROVE fired'[id] = 0
        <3>1. id # h.id
            BY <1>7, <2>1 DEF Id
        <3>. QED
            BY <1>2, <1>8, <2>1, <3>1 DEF CalledOnceIsGone
    <2>2. ASSUME NEW p \in InSlots', p[2].once PROVE fired'[p[2].id] = 0
        <3>1. p \in InSlots /\ ~ (h.once /\ p[1] = event /\ p[2] = h)
            BY <1>6
        <3>2. fired[p[2].id] = 0 /\ p[2].id \in Id
            BY <1>2, <2>2, <3>1, SlotProperties DEF CalledOnceIsGone, Handler
        <3>3. p[2].id # h.id
            <4>. SUFFICES ASSUME p[2].id = h.id PROVE FALSE
                OBVIOUS
            <4>1. p = <<event, h>>
                BY <1>2, <1>4, <3>1 DEF IdsIdentify, Known
            <4>. QED
                BY <2>2, <3>1, <4>1
        <3>. QED
            BY <1>8, <3>2, <3>3
    <2>. QED
        BY <1>1, <2>1, <2>2 DEF CalledOnceIsGone
<1>12. OnceOnlyAgainOutside'
    <2>. SUFFICES ASSUME NEW i \in DOMAIN stack,
                         NEW j \in stack'[i].next .. Len(stack[i].list),
                         stack[i].list[j].once, fired'[stack[i].list[j].id] > 0
                  PROVE stack[i].number < fired'[stack[i].list[j].id]
        BY <1>5 DEF OnceOnlyAgainOutside
    <2>. DEFINE g == stack[i].list[j]
    <2>1. stack[i].next \in 1 .. Len(stack[i].list) + 1 /\ Len(stack[i].list) \in Nat
        BY <1>2, <1>3, StackProperties DEF StackOK
    <2>2. j \in stack[i].next .. Len(stack[i].list) /\ (i = top => j > Top.next)
        BY <1>3, <1>5, <2>1
    <2>3. fired[g.id] > 0 => stack[i].number < fired[g.id]
        BY <1>2, <2>2 DEF OnceOnlyAgainOutside
    <2>4. g \in Handler /\ g.id \in Id
        BY <1>2, <1>3, <2>1, <2>2, StackProperties DEF Handler
    <2>5. CASE g.id # h.id \/ fired[h.id] # 0
        BY <1>8, <2>3, <2>4, <2>5
    <2>6. CASE g.id = h.id /\ fired[h.id] = 0
        <3>1. i # top
            <4>. SUFFICES ASSUME i = top PROVE FALSE
                OBVIOUS
            <4>1. j \in 1 .. Len(Top.list) /\ Top.next < j
                BY <1>3, <2>1, <2>2
            <4>2. h.id < g.id
                BY <1>3, <4>1 DEF ById, h
            <4>. QED
                BY <1>7, <2>6, <4>2 DEF Id
        <3>2. i < top /\ i \in 1 .. Len(stack) /\ top \in 1 .. Len(stack)
            BY <1>3, <3>1 DEF top
        <3>3. stack[i].number < Top.number
            BY <1>2, <1>3, <3>2 DEF StackOK
        <3>. QED
            BY <1>8, <2>6, <3>3
    <2>. QED
        BY <2>5, <2>6
<1>. QED
    BY <1>5, <1>6, <1>9, <1>10, <1>11, <1>12 DEF EmitterInv

-----------------------------------------------------------------------------

LEMMA EmitterInit == Init => EmitterInv
<1>. SUFFICES ASSUME Init PROVE EmitterInv
    OBVIOUS
<1>1. /\ issued = 0 /\ handlers = <<>> /\ stack = <<>> /\ answer = "none" /\ emitted = 0
      /\ fired = [id \in Id |-> 0] /\ Len(<<>>) = 0 /\ <<>> \in Seq(Frame) /\ DOMAIN <<>> = {}
      /\ MaxRegistration \in Nat /\ MaxEmission \in Nat /\ MaxDepth \in Nat
    BY EmitterAssumption DEF Init
<1>2. InSlots = {} /\ InFrames = {}
    BY <1>1 DEF InSlots, InFrames
<1>3. SlotsOK /\ StackOK /\ CountsOK
    BY <1>1 DEF SlotsOK, StackOK, CountsOK, Answer
<1>4. IdsIdentify /\ CalledOnceIsGone
    BY <1>1, <1>2 DEF IdsIdentify, Known, CalledOnceIsGone
<1>5. OnceOnlyAgainOutside
    BY <1>1 DEF OnceOnlyAgainOutside
<1>. QED
    BY <1>3, <1>4, <1>5 DEF EmitterInv

(* Taking registrations out of slots disturbs nothing else. *)
LEMMA RemovalKeeps ==
    ASSUME EmitterInv, SlotsOK', InSlots' \subseteq InSlots,
           UNCHANGED <<issued, stack, answer, emitted, fired>>
    PROVE EmitterInv'
<1>1. /\ StackOK /\ CountsOK /\ IdsIdentify /\ CalledOnceIsGone /\ OnceOnlyAgainOutside
      /\ InFrames' = InFrames
    BY DEF EmitterInv, InFrames
<1>2. StackOK' /\ CountsOK' /\ OnceOnlyAgainOutside'
    BY <1>1 DEF StackOK, CountsOK, OnceOnlyAgainOutside
<1>3. Known' \subseteq Known
    BY <1>1 DEF Known
<1>4. IdsIdentify' /\ CalledOnceIsGone'
    BY <1>1, <1>3 DEF IdsIdentify, CalledOnceIsGone
<1>. QED
    BY <1>2, <1>4 DEF EmitterInv

(* An operation of an emission that leaves the slots alone. *)
LEMMA StackStepKeeps ==
    ASSUME EmitterInv, StackOK', OnceOnlyAgainOutside', InFrames' \subseteq Known,
           emitted' \in 0 .. MaxEmission, answer' \in Answer, UNCHANGED <<issued, handlers, fired>>
    PROVE EmitterInv'
<1>1. SlotsOK /\ CountsOK /\ IdsIdentify /\ CalledOnceIsGone /\ InSlots' = InSlots
    BY DEF EmitterInv, InSlots
<1>2. SlotsOK' /\ CountsOK' /\ CalledOnceIsGone'
    BY <1>1 DEF SlotsOK, CountsOK, CalledOnceIsGone
<1>3. Known' \subseteq Known
    BY <1>1 DEF Known
<1>4. IdsIdentify'
    BY <1>1, <1>3 DEF IdsIdentify
<1>. QED
    BY <1>2, <1>4 DEF EmitterInv

LEMMA AddKeeps ==
    ASSUME EmitterInv, NEW event \in Event, NEW fn \in Fn, NEW once \in BOOLEAN,
           Add(event, fn, once)
    PROVE EmitterInv'
<1>. DEFINE h == [id |-> issued + 1, fn |-> fn, once |-> once]
<1>1. /\ SlotsOK /\ StackOK /\ CountsOK /\ IdsIdentify /\ CalledOnceIsGone /\ OnceOnlyAgainOutside
      /\ issued' = issued + 1 /\ issued < MaxRegistration
      /\ UNCHANGED <<stack, answer, emitted, fired>> /\ InFrames' = InFrames
    BY DEF EmitterInv, Add, InFrames
<1>2. h \in Handler /\ SlotsOK' /\ InSlots' = InSlots \cup {<<event, h>>}
    BY <1>1, AddToSlot
<1>3. h.id = issued + 1 /\ issued \in Nat /\ issued' \in 0 .. MaxRegistration
    BY <1>1, EmitterAssumption DEF CountsOK
<1>. HIDE DEF h
<1>4. StackOK' /\ CountsOK' /\ OnceOnlyAgainOutside'
    BY <1>1, <1>3 DEF StackOK, CountsOK, OnceOnlyAgainOutside
<1>5. \A p \in Known : p[2].id <= issued /\ p[2].id \in Nat
    <2>1. \A p \in InSlots : p[2] \in Handler
        BY <1>1, SlotProperties
    <2>2. ASSUME NEW p \in InFrames PROVE p[2] \in Handler
        <3>1. PICK k \in DOMAIN stack : \E j \in DOMAIN stack[k].list :
                    p = <<stack[k].event, stack[k].list[j]>>
            BY FrameMembers
        <3>2. \A j \in DOMAIN stack[k].list : stack[k].list[j] \in Handler
            BY <1>1, StackProperties
        <3>. QED
            BY <3>1, <3>2
    <2>. QED
        BY <1>1, <2>1, <2>2 DEF Known, IdsIdentify, Handler, Id
<1>6. IdsIdentify'
    <2>1. Known' = Known \cup {<<event, h>>}
        BY <1>1, <1>2 DEF Known
    <2>2. \A p \in Known : p[2].id < h.id /\ p[2].id <= issued' /\ p[2].id # h.id
        BY <1>1, <1>3, <1>5
    <2>. QED
        BY <1>1, <1>3, <2>1, <2>2 DEF IdsIdentify
<1>7. CalledOnceIsGone'
    <2>1. h.id \in Id /\ fired[h.id] = 0
        BY <1>1, <1>2, <1>3 DEF CalledOnceIsGone, Handler
    <2>2. \A id \in Id : id > issued' => fired[id] = 0
        BY <1>1, <1>3 DEF CalledOnceIsGone, Id
    <2>. QED
        BY <1>1, <1>2, <2>1, <2>2 DEF CalledOnceIsGone
<1>. QED
    BY <1>2, <1>4, <1>6, <1>7 DEF EmitterInv

LEMMA EmitterNext == EmitterInv /\ [Next]_vars => EmitterInv'
<1>. SUFFICES ASSUME EmitterInv, [Next]_vars PROVE EmitterInv'
    OBVIOUS
<1>1. SlotsOK /\ StackOK /\ CountsOK /\ OnceOnlyAgainOutside /\ emitted \in 0 .. MaxEmission
      /\ answer \in Answer
    BY DEF EmitterInv, CountsOK
<1>2. ASSUME NEW event \in Event, NEW fn \in Fn, NEW once \in BOOLEAN, Add(event, fn, once)
      PROVE EmitterInv'
    BY <1>2, AddKeeps
<1>3. ASSUME NEW event \in Event, NEW fn \in Fn, Off(event, fn) PROVE EmitterInv'
    <2>1. SlotsOK' /\ InSlots' \subseteq InSlots
        BY <1>1, <1>3, RemoveFromSlot DEF Off
    <2>. QED
        BY <1>3, <2>1, RemovalKeeps DEF Off
<1>4. ASSUME NEW events, RemoveAllListeners(events) PROVE EmitterInv'
    <2>1. SlotsOK' /\ InSlots' \subseteq InSlots
        BY <1>1, <1>4, RemoveWholeSlots DEF RemoveAllListeners
    <2>. QED
        BY <1>4, <2>1, RemovalKeeps DEF RemoveAllListeners
<1>5. ASSUME NEW event \in Event, Emit(event) PROVE EmitterInv'
    <2>1. CASE Slot(event) = <<>>
        <3>1. UNCHANGED <<issued, handlers, stack, emitted, fired>> /\ answer' \in Answer
            BY <1>5, <2>1 DEF Emit, Answer
        <3>2. StackOK' /\ OnceOnlyAgainOutside' /\ InFrames' \subseteq Known
            BY <1>1, <3>1 DEF StackOK, OnceOnlyAgainOutside, InFrames, Known
        <3>. QED
            BY <1>1, <3>1, <3>2, StackStepKeeps
    <2>2. CASE Slot(event) # <<>>
        <3>1. /\ StackOK' /\ InFrames' \subseteq Known /\ OnceOnlyAgainOutside'
              /\ emitted' \in 0 .. MaxEmission
            BY <1>5, <2>2, EmissionBegins DEF Known
        <3>2. UNCHANGED <<issued, handlers, fired, answer>>
            BY <1>5, <2>2 DEF Emit
        <3>. QED
            BY <1>1, <3>1, <3>2, StackStepKeeps
    <2>. QED
        BY <2>1, <2>2
<1>6. CASE Dispatch
    BY <1>6, DispatchKeeps
<1>7. CASE Return
    <2>1. /\ stack # <<>> /\ stack' = WithTop([Top EXCEPT !.calling = FALSE])
          /\ UNCHANGED <<issued, handlers, answer, emitted, fired>>
        BY <1>7 DEF Return
    <2>2. Top.next \in Top.next .. Len(Top.list) + 1
        <3>1. Len(stack) \in DOMAIN stack /\ Top \in Frame
            BY <1>1, <2>1, StackProperties
        <3>2. Top.next \in 1 .. Len(Top.list) + 1
            BY <1>1, <3>1 DEF StackOK, Top
        <3>3. Top.list \in Seq(Handler)
            BY <3>1 DEF Frame
        <3>. QED
            BY <3>2, <3>3
    <2>3. stack' = WithTop([Top EXCEPT !.next = Top.next, !.calling = FALSE])
        <3>1. Top \in Frame
            BY <1>1, <2>1, StackProperties
        <3>2. [Top EXCEPT !.next = Top.next, !.calling = FALSE] = [Top EXCEPT !.calling = FALSE]
            BY <3>1 DEF Frame
        <3>. QED
            BY <2>1, <3>2
    <2>4. /\ StackOK' /\ InFrames' = InFrames /\ DOMAIN stack' = DOMAIN stack
          /\ \A i \in DOMAIN stack : /\ stack'[i].list = stack[i].list
                                    /\ stack'[i].number = stack[i].number
                                    /\ stack'[i].next = stack[i].next
        BY <1>1, <2>1, <2>2, <2>3, TopGoesOn, StackProperties
    <2>5. OnceOnlyAgainOutside'
        BY <1>1, <2>1, <2>4, ZenonT(30) DEF OnceOnlyAgainOutside
    <2>. QED
        BY <1>1, <2>1, <2>4, <2>5, StackStepKeeps DEF Known
<1>8. CASE Throw \/ Finish
    <2>1. /\ stack # <<>> /\ stack' = WithoutTop /\ answer' \in Answer
          /\ UNCHANGED <<issued, handlers, emitted, fired>>
        BY <1>8 DEF Throw, Finish, EmitRuns, Answer
    <2>2. StackOK' /\ InFrames' \subseteq InFrames /\ OnceOnlyAgainOutside'
        BY <1>1, <2>1, PopKeeps
    <2>. QED
        BY <1>1, <2>1, <2>2, StackStepKeeps DEF Known
<1>9. CASE UNCHANGED vars
    BY <1>9 DEF vars, EmitterInv, SlotsOK, StackOK, CountsOK, IdsIdentify, CalledOnceIsGone,
        OnceOnlyAgainOutside, Known, InSlots, InFrames
<1>. QED
    BY <1>2, <1>3, <1>4, <1>5, <1>6, <1>7, <1>8, <1>9 DEF Next

(* No slot is ever empty, and every slot and every copy an emission         *)
(* iterates is in the order of registration, whatever listeners do while it *)
(* runs (TypeOK).                                                           *)
THEOREM EmitterTypeOK == Spec => []TypeOK
<1>1. EmitterInv => TypeOK
    <2>. SUFFICES ASSUME EmitterInv PROVE TypeOK
        OBVIOUS
    <2>1. SlotsOK /\ StackOK /\ CountsOK
        BY DEF EmitterInv
    <2>2. \A i \in DOMAIN stack : stack[i] \in Frame
        BY <2>1, StackProperties
    <2>. QED
        BY <2>1, <2>2 DEF TypeOK, SlotsOK, StackOK, CountsOK, ById, Frame
<1>. QED
    BY <1>1, EmitterInit, EmitterNext, PTL DEF Spec

(* Only an emission that was already running around the one that called a   *)
(* `once` listener can call it again (OnceOnlyAgainOutside).                *)
THEOREM OnceIsCalledOnce == Spec => []OnceOnlyAgainOutside
<1>1. EmitterInv => OnceOnlyAgainOutside
    BY DEF EmitterInv
<1>. QED
    BY <1>1, EmitterInit, EmitterNext, PTL DEF Spec

-----------------------------------------------------------------------------
(* The contract's view of the emitter: the registrations in its slots, and  *)
(* of each emission what is still due.                                      *)

InForce == UNION {{Registered(e, handlers[e][i]) : i \in DOMAIN handlers[e]} : e \in DOMAIN handlers}

View(frame) == [event |-> frame.event, due |-> Due(frame), calling |-> frame.calling]
Views(frames) == [i \in DOMAIN frames |-> View(frames[i])]
Emissions == Views(stack)

LEMMA ViewsProperties ==
    ASSUME NEW s \in Seq(Frame)
    PROVE /\ Views(s) \in Seq({View(f) : f \in Frame}) /\ Len(Views(s)) = Len(s)
          /\ Len(s) \in Nat /\ DOMAIN s = 1 .. Len(s) /\ (s = <<>> <=> Len(s) = 0)
          /\ \A i \in 1 .. Len(s) : s[i] \in Frame /\ Views(s)[i] = View(s[i])
          /\ s = <<>> <=> Views(s) = <<>>
<1>1. Len(s) \in Nat /\ DOMAIN s = 1 .. Len(s)
    BY LenProperties
<1>2. \A i \in 1 .. Len(s) : s[i] \in Frame
    BY ElementOfSeq
<1>3. Views(s) = [i \in 1 .. Len(s) |-> View(s[i])]
    BY <1>1 DEF Views
<1>4. Views(s) \in [1 .. Len(s) -> {View(f) : f \in Frame}]
    BY <1>2, <1>3
<1>5. Views(s) \in Seq({View(f) : f \in Frame})
    BY <1>1, <1>4, SeqDef
<1>6. Len(Views(s)) = Len(s)
    BY <1>1, <1>3
<1>7. s = <<>> <=> Len(s) = 0
    BY EmptySeq
<1>8. Views(s) = <<>> <=> Len(Views(s)) = 0
    BY <1>5, EmptySeq
<1>. QED
    BY <1>1, <1>2, <1>3, <1>5, <1>6, <1>7, <1>8

LEMMA ViewsOfPushed ==
    ASSUME NEW s \in Seq(Frame), NEW f \in Frame
    PROVE Views(Append(s, f)) = Append(Views(s), View(f))
<1>. DEFINE pushed == Append(s, f)
            V == {View(g) : g \in Frame}
<1>1. /\ pushed \in Seq(Frame) /\ Len(pushed) = Len(s) + 1 /\ pushed[Len(s) + 1] = f
      /\ \A i \in 1 .. Len(s) : pushed[i] = s[i]
    BY AppendProperties
<1>2. /\ Views(s) \in Seq(V) /\ Len(Views(s)) = Len(s) /\ Len(s) \in Nat
      /\ \A i \in 1 .. Len(s) : Views(s)[i] = View(s[i])
    BY ViewsProperties
<1>3. /\ Views(pushed) \in Seq(V) /\ Len(Views(pushed)) = Len(pushed)
      /\ \A i \in 1 .. Len(pushed) : Views(pushed)[i] = View(pushed[i])
    BY <1>1, ViewsProperties
<1>4. /\ Append(Views(s), View(f)) \in Seq(V) /\ Len(Append(Views(s), View(f))) = Len(s) + 1
      /\ Append(Views(s), View(f))[Len(s) + 1] = View(f)
      /\ \A i \in 1 .. Len(s) : Append(Views(s), View(f))[i] = Views(s)[i]
    <2>1. View(f) \in V
        OBVIOUS
    <2>. HIDE DEF V
    <2>. QED
        BY <1>2, <2>1, AppendProperties
<1>. HIDE DEF pushed, V
<1>5. ASSUME NEW i \in 1 .. Len(s) + 1 PROVE Views(pushed)[i] = Append(Views(s), View(f))[i]
    <2>1. CASE i \in 1 .. Len(s)
        BY <1>1, <1>2, <1>3, <1>4, <2>1
    <2>2. CASE i = Len(s) + 1
        BY <1>1, <1>2, <1>3, <1>4, <2>2
    <2>. QED
        BY <1>2, <2>1, <2>2
<1>6. Views(pushed) = Append(Views(s), View(f))
    BY <1>1, <1>3, <1>4, <1>5, SeqEqual
<1>. QED
    BY <1>6 DEF pushed

LEMMA ViewsOfTop ==
    ASSUME NEW s \in Seq(Frame), s # <<>>, NEW f \in Frame
    PROVE /\ Views([s EXCEPT ![Len(s)] = f]) = [Views(s) EXCEPT ![Len(Views(s))] = View(f)]
          /\ Views(s)[Len(Views(s))] = View(s[Len(s)])
<1>. DEFINE t == [s EXCEPT ![Len(s)] = f]
<1>1. /\ Len(s) \in 1 .. Len(s) /\ Len(Views(s)) = Len(s) /\ DOMAIN s = 1 .. Len(s)
      /\ \A i \in 1 .. Len(s) : Views(s)[i] = View(s[i])
    <2>. HIDE DEF t
    <2>1. /\ Len(s) \in Nat /\ Len(s) # 0 /\ Len(Views(s)) = Len(s) /\ DOMAIN s = 1 .. Len(s)
          /\ \A i \in 1 .. Len(s) : Views(s)[i] = View(s[i])
        BY ViewsProperties
    <2>. QED
        BY <2>1
<1>2. DOMAIN t = DOMAIN s /\ \A i \in DOMAIN s : t[i] = IF i = Len(s) THEN f ELSE s[i]
    OBVIOUS
<1>3. Views(t) = [i \in DOMAIN s |-> IF i = Len(s) THEN View(f) ELSE View(s[i])]
    BY <1>2 DEF Views
<1>4. [Views(s) EXCEPT ![Len(s)] = View(f)] = [i \in DOMAIN s |-> IF i = Len(s) THEN View(f) ELSE View(s[i])]
    BY DEF Views
<1>. QED
    BY <1>1, <1>3, <1>4

LEMMA ViewsOfPopped ==
    ASSUME NEW s \in Seq(Frame), s # <<>>
    PROVE Views(SubSeq(s, 1, Len(s) - 1)) = SubSeq(Views(s), 1, Len(Views(s)) - 1)
<1>. DEFINE t == SubSeq(s, 1, Len(s) - 1)
            V == {View(g) : g \in Frame}
            u == SubSeq(Views(s), 1, Len(s) - 1)
<1>1. /\ Len(s) \in Nat \ {0} /\ Len(Views(s)) = Len(s) /\ Views(s) \in Seq(V)
      /\ \A i \in 1 .. Len(s) : s[i] \in Frame /\ Views(s)[i] = View(s[i])
    BY ViewsProperties
<1>2. \A i \in 1 .. Len(s) - 1 : s[i] \in Frame /\ Views(s)[i] = View(s[i]) /\ Views(s)[i] \in V
    BY <1>1
<1>3. t \in Seq(Frame) /\ Len(t) = Len(s) - 1 /\ \A i \in 1 .. Len(s) - 1 : t[i] = s[i]
    BY <1>1, <1>2, SubSeqProperties
<1>. HIDE DEF V
<1>4. u \in Seq(V) /\ Len(u) = Len(s) - 1 /\ \A i \in 1 .. Len(s) - 1 : u[i] = Views(s)[i]
    BY <1>1, <1>2, SubSeqProperties
<1>. HIDE DEF t, u
<1>5. Views(t) \in Seq(V) /\ Len(Views(t)) = Len(t) /\ \A i \in 1 .. Len(t) : Views(t)[i] = View(t[i])
    BY <1>3, ViewsProperties DEF V
<1>6. Views(t) = u
    BY <1>2, <1>3, <1>4, <1>5, SeqEqual
<1>. QED
    BY <1>1, <1>6 DEF t, u

(* What is in force is what is in the slots, and tells them apart. *)
LEMMA InForceMembers ==
    ASSUME NEW r PROVE r \in InForce <=> \E p \in InSlots : r = Registered(p[1], p[2])
<1>1. r \in InForce <=> \E e \in DOMAIN handlers : \E i \in DOMAIN handlers[e] :
                            r = Registered(e, handlers[e][i])
    BY DEF InForce
<1>2. ASSUME NEW e \in DOMAIN handlers, NEW i \in DOMAIN handlers[e]
      PROVE <<e, handlers[e][i]>> \in InSlots
    BY DEF InSlots
<1>3. ASSUME NEW p \in InSlots
      PROVE \E e \in DOMAIN handlers : \E i \in DOMAIN handlers[e] : p = <<e, handlers[e][i]>>
    BY DEF InSlots
<1>4. ASSUME r \in InForce PROVE \E p \in InSlots : r = Registered(p[1], p[2])
    <2>1. PICK e \in DOMAIN handlers : \E i \in DOMAIN handlers[e] : r = Registered(e, handlers[e][i])
        BY <1>1, <1>4
    <2>2. PICK i \in DOMAIN handlers[e] : r = Registered(e, handlers[e][i])
        BY <2>1
    <2>3. <<e, handlers[e][i]>> \in InSlots
        BY <1>2
    <2>. QED
        BY <2>2, <2>3
<1>5. ASSUME NEW p \in InSlots, r = Registered(p[1], p[2]) PROVE r \in InForce
    <2>1. PICK e \in DOMAIN handlers : \E i \in DOMAIN handlers[e] : p = <<e, handlers[e][i]>>
        BY <1>3
    <2>2. \E i \in DOMAIN handlers[e] : r = Registered(e, handlers[e][i])
        BY <1>5, <2>1
    <2>. QED
        BY <1>1, <2>2
<1>. QED
    BY <1>4, <1>5

LEMMA InForceMembersNext ==
    ASSUME NEW r PROVE r \in InForce' <=> \E p \in InSlots' : r = Registered(p[1], p[2])
<1>1. r \in InForce' <=> \E e \in DOMAIN handlers' : \E i \in DOMAIN handlers'[e] :
                            r = Registered(e, handlers'[e][i])
    BY DEF InForce, Registered
<1>2. ASSUME NEW e \in DOMAIN handlers', NEW i \in DOMAIN handlers'[e]
      PROVE <<e, handlers'[e][i]>> \in InSlots'
    BY DEF InSlots
<1>3. ASSUME NEW p \in InSlots'
      PROVE \E e \in DOMAIN handlers' : \E i \in DOMAIN handlers'[e] : p = <<e, handlers'[e][i]>>
    BY DEF InSlots
<1>4. ASSUME r \in InForce' PROVE \E p \in InSlots' : r = Registered(p[1], p[2])
    <2>1. PICK e \in DOMAIN handlers' : \E i \in DOMAIN handlers'[e] : r = Registered(e, handlers'[e][i])
        BY <1>1, <1>4
    <2>2. PICK i \in DOMAIN handlers'[e] : r = Registered(e, handlers'[e][i])
        BY <2>1
    <2>3. <<e, handlers'[e][i]>> \in InSlots'
        BY <1>2
    <2>. QED
        BY <2>2, <2>3
<1>5. ASSUME NEW p \in InSlots', r = Registered(p[1], p[2]) PROVE r \in InForce'
    <2>1. PICK e \in DOMAIN handlers' : \E i \in DOMAIN handlers'[e] : p = <<e, handlers'[e][i]>>
        BY <1>3
    <2>2. \E i \in DOMAIN handlers'[e] : r = Registered(e, handlers'[e][i])
        BY <1>5, <2>1
    <2>. QED
        BY <1>1, <2>2
<1>. QED
    BY <1>4, <1>5

LEMMA RegisteredTells ==
    ASSUME NEW e, NEW h \in Handler
    PROVE /\ Registered(e, h).id = h.id /\ Registered(e, h).event = e
          /\ Registered(e, h).fn = h.fn /\ Registered(e, h).once = h.once
          /\ \A d, g : g \in Handler /\ Registered(d, g) = Registered(e, h) => d = e /\ g = h
<1>1. /\ Registered(e, h).id = h.id /\ Registered(e, h).event = e
      /\ Registered(e, h).fn = h.fn /\ Registered(e, h).once = h.once
    BY DEF Registered
<1>2. ASSUME NEW d, NEW g \in Handler, Registered(d, g) = Registered(e, h) PROVE d = e /\ g = h
    <2>1. d = e /\ g.id = h.id /\ g.fn = h.fn /\ g.once = h.once
        BY <1>2 DEF Registered
    <2>. QED
        BY <2>1 DEF Handler
<1>. QED
    BY <1>1, <1>2

LEMMA InForceKnown ==
    ASSUME SlotsOK, NEW p \in InSlots
    PROVE /\ p = <<p[1], p[2]>> /\ p[1] \in Event /\ p[2] \in Handler
          /\ Registered(p[1], p[2]) \in InForce
          /\ Registered(p[1], p[2]).event = p[1] /\ Registered(p[1], p[2]).fn = p[2].fn
<1>1. p = <<p[1], p[2]>> /\ p[1] \in Event /\ p[2] \in Handler
    BY SlotProperties
<1>. QED
    BY <1>1, InForceMembers, RegisteredTells

(* Slots that lose some of what they have lose it from what is in force. *)
LEMMA InForceLoses ==
    ASSUME SlotsOK, NEW lost, InSlots' = InSlots \ lost
    PROVE InForce' = InForce \ {Registered(p[1], p[2]) : p \in lost \cap InSlots}
<1>1. ASSUME NEW r PROVE r \in InForce' <=> r \in InForce
                               /\ ~ \E p \in lost \cap InSlots : r = Registered(p[1], p[2])
    <2>1. ASSUME NEW p \in InSlots, NEW q \in InSlots, Registered(p[1], p[2]) = Registered(q[1], q[2])
          PROVE p = q
        <3>1. /\ p = <<p[1], p[2]>> /\ q = <<q[1], q[2]>> /\ p[2] \in Handler /\ q[2] \in Handler
            BY InForceKnown
        <3>2. p[1] = q[1] /\ p[2] = q[2]
            BY <2>1, <3>1, RegisteredTells
        <3>. QED
            BY <3>1, <3>2
    <2>2. r \in InForce' <=> \E p \in InSlots \ lost : r = Registered(p[1], p[2])
        BY InForceMembersNext
    <2>3. r \in InForce <=> \E p \in InSlots : r = Registered(p[1], p[2])
        BY InForceMembers
    <2>. QED
        BY <2>1, <2>2, <2>3
<1>. QED
    BY <1>1

-----------------------------------------------------------------------------
(* The state of the contract, in terms of its view. *)

LEMMA ContractState ==
    ASSUME StackOK
    PROVE /\ Promise!CallerRuns <=> CallerRuns
          /\ Promise!EmitRuns <=> EmitRuns
          /\ stack # <<>> <=> Emissions # <<>>
          /\ stack # <<>> => Promise!Innermost = View(Top)
          /\ Len(Emissions) = Len(stack)
<1>1. stack \in Seq(Frame)
    BY DEF StackOK
<1>2. (stack # <<>> <=> Emissions # <<>>) /\ Len(Emissions) = Len(stack)
    BY <1>1, ViewsProperties DEF Emissions
<1>3. Promise!Innermost = Emissions[Len(Emissions)]
    BY DEF Promise!Innermost, Emissions, Views, View
<1>4. ASSUME stack # <<>> PROVE Promise!Innermost = View(Top)
    <2>1. Top \in Frame
        BY <1>4, StackProperties
    <2>2. Views(stack)[Len(Views(stack))] = View(stack[Len(stack)])
        BY <1>1, <1>4, <2>1, ViewsOfTop
    <2>. QED
        BY <1>3, <2>2 DEF Emissions, Top
<1>5. stack # <<>> => Promise!Innermost.calling = Top.calling
    BY <1>4 DEF View
<1>6. /\ Promise!CallerRuns <=> (Emissions # <<>> => Promise!Innermost.calling)
      /\ Promise!EmitRuns <=> (Emissions # <<>> /\ ~ Promise!Innermost.calling)
    BY DEF Promise!CallerRuns, Promise!EmitRuns, Emissions, Views, View
<1>. QED
    BY <1>2, <1>4, <1>5, <1>6 DEF CallerRuns, EmitRuns

LEMMA ContractWrites ==
    /\ \A x : Promise!WithInnermost(x) = [Emissions EXCEPT ![Len(Emissions)] = x]
    /\ Promise!WithoutInnermost = SubSeq(Emissions, 1, Len(Emissions) - 1)
    /\ \A event : Promise!Of(event) = {r \in InForce : r.event = event}
BY DEF Promise!WithInnermost, Promise!WithoutInnermost, Promise!Of, Emissions, Views, View, InForce

(* Each operation of the emitter is the step of the contract it is for. *)

LEMMA AddRegisters ==
    ASSUME EmitterInv, NEW event \in Event, NEW fn \in Fn, NEW once \in BOOLEAN,
           Add(event, fn, once)
    PROVE Promise!Register(event, fn, once)
<1>. DEFINE h == [id |-> issued + 1, fn |-> fn, once |-> once]
            r == [id |-> issued + 1, event |-> event, fn |-> fn, once |-> once]
<1>1. SlotsOK /\ StackOK /\ CountsOK /\ IdsIdentify
    BY DEF EmitterInv
<1>2. /\ CallerRuns /\ issued < MaxRegistration /\ issued' = issued + 1
      /\ UNCHANGED <<stack, answer>>
    BY DEF Add
<1>3. InSlots' = InSlots \cup {<<event, h>>} /\ Registered(event, h) = r
    BY <1>1, AddToSlot DEF Registered
<1>. HIDE DEF h, r
<1>4. InForce' = InForce \cup {r}
    <2>1. ASSUME NEW x \in InForce \cup {r} PROVE x \in InForce'
        <3>1. CASE x = r
            <4>1. <<event, h>>[1] = event /\ <<event, h>>[2] = h
                OBVIOUS
            <4>2. <<event, h>> \in InSlots'
                BY <1>3
            <4>. QED
                BY <1>3, <3>1, <4>1, <4>2, InForceMembersNext
        <3>2. CASE x \in InForce
            BY <1>3, <3>2, InForceMembers, InForceMembersNext
        <3>. QED
            BY <3>1, <3>2
    <2>2. ASSUME NEW x \in InForce' PROVE x \in InForce \cup {r}
        <3>1. PICK p \in InSlots' : x = Registered(p[1], p[2])
            BY InForceMembersNext
        <3>2. CASE p \in InSlots
            BY <3>1, <3>2, InForceMembers
        <3>3. CASE p = <<event, h>>
            BY <1>3, <3>1, <3>3
        <3>. QED
            BY <1>3, <3>2, <3>3
    <2>. QED
        BY <2>1, <2>2
<1>5. Emissions' = Emissions
    BY <1>2 DEF Emissions
<1>6. Promise!CallerRuns
    BY <1>1, <1>2, ContractState
<1>. QED
    BY <1>2, <1>4, <1>5, <1>6 DEF Promise!Register, InForce, Emissions, Views, View, r

LEMMA LosingUnregisters ==
    ASSUME EmitterInv, NEW lost, InSlots' = InSlots \ lost, NEW dropped,
           dropped = {Registered(p[1], p[2]) : p \in lost \cap InSlots},
           CallerRuns, UNCHANGED stack
    PROVE Promise!CallerRuns /\ InForce' = InForce \ dropped /\ Emissions' = Emissions
<1>1. SlotsOK /\ StackOK
    BY DEF EmitterInv
<1>2. InForce' = InForce \ dropped
    BY <1>1, InForceLoses
<1>3. Emissions' = Emissions
    BY DEF Emissions
<1>4. Promise!CallerRuns
    BY <1>1, ContractState
<1>. QED
    BY <1>2, <1>3, <1>4

LEMMA SlotsAndForce ==
    ASSUME EmitterInv
    PROVE /\ SlotsOK
          /\ \A p \in InSlots : /\ p[1] \in Event /\ p[2] \in Handler
                                /\ Registered(p[1], p[2]) \in InForce
                                /\ Registered(p[1], p[2]).event = p[1]
                                /\ Registered(p[1], p[2]).fn = p[2].fn
          /\ \A r \in InForce : \E p \in InSlots : r = Registered(p[1], p[2])
          /\ \A event : Promise!Of(event) = {r \in InForce : r.event = event}
<1>1. SlotsOK
    BY DEF EmitterInv
<1>. QED
    BY <1>1, InForceKnown, InForceMembers, ContractWrites

LEMMA OffUnregisters ==
    ASSUME EmitterInv, NEW event \in Event, NEW fn \in Fn, Off(event, fn)
    PROVE Promise!Unregister({r \in Promise!Of(event) : r.fn = fn})
<1>. DEFINE lost == {p \in InSlots : p[1] = event /\ p[2].fn = fn}
<1>1. CallerRuns /\ UNCHANGED <<issued, stack, answer>>
      /\ handlers' = Remove(event, {h \in Handler : h.fn = fn})
    BY DEF Off
<1>2. InSlots' = {p \in InSlots : p[1] # event \/ p[2] \notin {h \in Handler : h.fn = fn}}
    BY SlotsAndForce, <1>1, RemoveFromSlot
<1>3. InSlots' = InSlots \ lost
    BY SlotsAndForce, <1>2
<1>4. {r \in Promise!Of(event) : r.fn = fn} = {Registered(p[1], p[2]) : p \in lost \cap InSlots}
    BY SlotsAndForce
<1>5. /\ Promise!CallerRuns /\ Emissions' = Emissions
      /\ InForce' = InForce \ {r \in Promise!Of(event) : r.fn = fn}
    BY <1>1, <1>3, <1>4, LosingUnregisters
<1>. QED
    BY <1>1, <1>5 DEF Promise!Unregister, Promise!Of, InForce, Emissions, Views, View

LEMMA RemovalUnregisters ==
    ASSUME EmitterInv, NEW event \in Event, RemoveAllListeners({event})
    PROVE Promise!Unregister(Promise!Of(event))
<1>. DEFINE lost == {p \in InSlots : p[1] = event}
<1>1. CallerRuns /\ UNCHANGED <<issued, stack, answer>>
      /\ handlers' = [e \in DOMAIN handlers \ {event} |-> handlers[e]]
    BY DEF RemoveAllListeners
<1>2. InSlots' = {p \in InSlots : p[1] \notin {event}}
    BY SlotsAndForce, <1>1, RemoveWholeSlots
<1>3. InSlots' = InSlots \ lost
    BY <1>2
<1>4. Promise!Of(event) = {Registered(p[1], p[2]) : p \in lost \cap InSlots}
    BY SlotsAndForce
<1>5. /\ Promise!CallerRuns /\ Emissions' = Emissions
      /\ InForce' = InForce \ Promise!Of(event)
    BY <1>1, <1>3, <1>4, LosingUnregisters
<1>. QED
    BY <1>1, <1>5 DEF Promise!Unregister, Promise!Of, InForce, Emissions, Views, View

LEMMA ClearingUnregisters ==
    ASSUME EmitterInv, RemoveAllListeners(Event)
    PROVE Promise!Unregister(InForce)
<1>1. CallerRuns /\ UNCHANGED <<issued, stack, answer>>
      /\ handlers' = [e \in DOMAIN handlers \ Event |-> handlers[e]]
    BY DEF RemoveAllListeners
<1>2. InSlots' = {p \in InSlots : p[1] \notin Event}
    BY SlotsAndForce, <1>1, RemoveWholeSlots
<1>3. InSlots' = InSlots \ InSlots
    BY SlotsAndForce, <1>2
<1>4. InForce = {Registered(p[1], p[2]) : p \in InSlots \cap InSlots}
    BY SlotsAndForce
<1>5. /\ Promise!CallerRuns /\ Emissions' = Emissions
      /\ InForce' = InForce \ InForce
    BY <1>1, <1>3, <1>4, LosingUnregisters
<1>. QED
    BY <1>1, <1>5 DEF Promise!Unregister, Promise!Of, InForce, Emissions, Views, View

(* What an emission that begins has due is what its slot holds. *)
LEMMA EmitBegins ==
    ASSUME EmitterInv, NEW event \in Event, Emit(event)
    PROVE Promise!Begin(event)
<1>. DEFINE frame == [event |-> event, list |-> Slot(event), next |-> 1, calling |-> FALSE,
                      number |-> emitted + 1]
<1>1. SlotsOK /\ StackOK /\ emitted \in Nat
    BY DEF EmitterInv, CountsOK
<1>2. /\ Slot(event) \in Seq(Handler) /\ Len(Slot(event)) \in Nat
      /\ DOMAIN Slot(event) = 1 .. Len(Slot(event))
      /\ \A h : h \in Range(Slot(event)) <=> <<event, h>> \in InSlots
      /\ Slot(event) = <<>> <=> Len(Slot(event)) = 0
    BY <1>1, SlotProperties, LenProperties, EmptySeq
<1>3. Promise!Of(event) = Due(frame)
    <2>1. Due(frame) = {Registered(event, Slot(event)[i]) : i \in 1 .. Len(Slot(event))}
        BY DEF Due
    <2>2. Promise!Of(event) = {r \in InForce : r.event = event}
        BY ContractWrites
    <2>3. ASSUME NEW r \in InForce, r.event = event PROVE r \in Due(frame)
        <3>1. PICK p \in InSlots : r = Registered(p[1], p[2])
            BY InForceMembers
        <3>2. p = <<event, p[2]>>
            BY <1>1, <2>3, <3>1, InForceKnown
        <3>3. PICK i \in DOMAIN Slot(event) : Slot(event)[i] = p[2]
            BY <1>2, <3>2 DEF Range
        <3>4. r = Registered(event, Slot(event)[i]) /\ i \in 1 .. Len(Slot(event))
            BY <1>2, <3>1, <3>2, <3>3
        <3>. HIDE DEF frame
        <3>. QED
            BY <2>1, <3>4
    <2>4. ASSUME NEW i \in 1 .. Len(Slot(event))
          PROVE Registered(event, Slot(event)[i]) \in InForce
                /\ Registered(event, Slot(event)[i]).event = event
        <3>. DEFINE p == <<event, Slot(event)[i]>>
        <3>1. p \in InSlots /\ p[1] = event /\ p[2] = Slot(event)[i]
            BY <1>2 DEF Range
        <3>. HIDE DEF p
        <3>. QED
            BY <1>1, <3>1, InForceKnown
    <2>. HIDE DEF frame
    <2>. QED
        BY <2>1, <2>2, <2>3, <2>4
<1>4. Promise!CallerRuns /\ Len(Emissions) = Len(stack)
    BY <1>1, ContractState DEF Emit
<1>5. UNCHANGED <<issued, handlers>> /\ InForce' = InForce
    BY DEF Emit, InForce, Registered
<1>6. CASE Slot(event) = <<>>
    <2>1. Promise!Of(event) = {}
        BY <1>2, <1>3, <1>6 DEF Due
    <2>2. UNCHANGED stack /\ answer' = IF event = "error" THEN "thrown" ELSE "unheard"
        BY <1>6, ZenonT(30) DEF Emit
    <2>3. Emissions' = Emissions
        BY <2>2 DEF Emissions, Views, View, Due
    <2>. QED
        BY <1>4, <1>5, <2>1, <2>2, <2>3 DEF Promise!Begin, Emissions, Views, View, InForce
<1>7. CASE Slot(event) # <<>>
    <2>1. /\ stack' = Append(stack, frame) /\ Len(stack) < MaxDepth /\ emitted < MaxEmission
          /\ UNCHANGED answer
        BY <1>7 DEF Emit
    <2>2. frame \in Frame
        BY <1>1, <1>2, <2>1, EmitterAssumption DEF Frame
    <2>3. Promise!Of(event) # {}
        BY <1>2, <1>3, <1>7 DEF Due
    <2>4. View(frame) = [event |-> event, due |-> Promise!Of(event), calling |-> FALSE]
        BY <1>3 DEF View
    <2>. HIDE DEF frame
    <2>5. Emissions' = Append(Emissions, View(frame))
        BY <1>1, <2>1, <2>2, ViewsOfPushed DEF Emissions, StackOK
    <2>6. Emissions' = Append(Emissions, [event |-> event, due |-> Promise!Of(event), calling |-> FALSE])
        BY <2>4, <2>5
    <2>. QED
        BY <1>4, <1>5, <2>1, <2>3, <2>6 DEF Promise!Begin, Emissions, Views, View, InForce
<1>. QED
    BY <1>6, <1>7

(* The innermost emission changes: what the contract sees is its view. *)
LEMMA TopIsSeen ==
    ASSUME StackOK, stack # <<>>, NEW f \in Frame, stack' = WithTop(f)
    PROVE Emissions' = Promise!WithInnermost(View(f))
<1>1. stack \in Seq(Frame)
    BY DEF StackOK
<1>2. Views(stack') = [Views(stack) EXCEPT ![Len(Views(stack))] = View(f)]
    BY <1>1, ViewsOfTop DEF WithTop
<1>. QED
    BY <1>2, ContractWrites DEF Emissions

(* Of those due the loop calls the first registered, and it is due no more. *)
LEMMA DispatchCalls ==
    ASSUME EmitterInv, Dispatch
    PROVE Promise!Call
<1>. DEFINE h == Top.list[Top.next]
            event == Top.event
            r == Registered(event, h)
            frame == [Top EXCEPT !.next = Top.next + 1, !.calling = TRUE]
<1>1. /\ stack # <<>> /\ EmitRuns /\ Top.next <= Len(Top.list) /\ handlers' = DropOnce(event, h)
      /\ stack' = WithTop(frame) /\ UNCHANGED <<issued, answer>>
    BY DEF Dispatch, EmitRuns
<1>2. SlotsOK /\ StackOK
    BY DEF EmitterInv
<1>3. /\ Top \in Frame /\ Top.next \in 1 .. Len(Top.list) /\ Len(Top.list) \in Nat /\ ById(Top.list)
      /\ event \in Event /\ DOMAIN Top.list = 1 .. Len(Top.list)
      /\ \A i \in 1 .. Len(Top.list) : Top.list[i] \in Handler
    <2>1. /\ Len(stack) \in 1 .. Len(stack) /\ Top = stack[Len(stack)] /\ Top \in Frame
          /\ Len(Top.list) \in Nat /\ DOMAIN Top.list = 1 .. Len(Top.list)
          /\ \A i \in 1 .. Len(Top.list) : Top.list[i] \in Handler
        BY <1>1, <1>2, StackProperties
    <2>2. Top.next \in 1 .. Len(Top.list) + 1 /\ ById(Top.list)
        BY <1>2, <2>1 DEF StackOK
    <2>. QED
        BY <1>1, <2>1, <2>2 DEF Frame
<1>4. h \in Handler /\ r.id = h.id /\ r.once = h.once /\ h.id \in Nat
    BY <1>3, RegisteredTells DEF Handler, Id
<1>5. /\ frame \in Frame /\ frame.event = event /\ frame.list = Top.list
      /\ frame.next = Top.next + 1 /\ frame.calling = TRUE
    <2>1. Top.next + 1 \in Nat
        BY <1>3
    <2>2. /\ frame \in Frame /\ frame.event = Top.event /\ frame.list = Top.list
          /\ frame.next = Top.next + 1 /\ frame.calling = TRUE
        <3>. HIDE DEF h, event, r
        <3>. QED
            BY <1>3, <2>1 DEF Frame
    <2>. QED
        BY <2>2
<1>6. /\ Due(Top) = {Registered(event, Top.list[i]) : i \in Top.next .. Len(Top.list)}
      /\ Due(frame) = {Registered(event, Top.list[i]) : i \in Top.next + 1 .. Len(Top.list)}
    BY <1>5 DEF Due
<1>. HIDE DEF frame, r
<1>7. ASSUME NEW i \in Top.next + 1 .. Len(Top.list)
      PROVE /\ h.id < Top.list[i].id /\ Top.list[i].id \in Nat
            /\ Registered(event, Top.list[i]).id = Top.list[i].id
    <2>1. i \in 1 .. Len(Top.list) /\ Top.next < i
        BY <1>3
    <2>2. h.id < Top.list[i].id /\ Top.list[i] \in Handler
        BY <1>3, <2>1 DEF ById
    <2>. QED
        BY <2>2, RegisteredTells DEF Handler, Id
<1>8. \A i \in Top.next .. Len(Top.list) : i = Top.next \/ i \in Top.next + 1 .. Len(Top.list)
    BY <1>3
<1>9. r \in Due(Top) /\ \A other \in Due(Top) : r.id <= other.id
    <2>1. Top.next \in Top.next .. Len(Top.list)
        BY <1>3
    <2>2. r \in Due(Top)
        BY <1>6, <2>1 DEF r
    <2>3. ASSUME NEW i \in Top.next .. Len(Top.list)
          PROVE r.id <= Registered(event, Top.list[i]).id
        BY <1>4, <1>7, <1>8 DEF r
    <2>. QED
        BY <1>6, <2>2, <2>3
<1>10. Due(frame) = Due(Top) \ {r}
    <2>1. ASSUME NEW x \in Due(frame) PROVE x \in Due(Top) \ {r}
        <3>1. PICK i \in Top.next + 1 .. Len(Top.list) : x = Registered(event, Top.list[i])
            BY <1>6
        <3>2. i \in Top.next .. Len(Top.list)
            BY <1>3
        <3>3. x.id # r.id
            BY <1>4, <1>7, <3>1
        <3>. QED
            BY <1>6, <3>1, <3>2, <3>3
    <2>2. ASSUME NEW x \in Due(Top) \ {r} PROVE x \in Due(frame)
        <3>1. PICK i \in Top.next .. Len(Top.list) : x = Registered(event, Top.list[i])
            BY <1>6
        <3>. QED
            BY <1>6, <1>8, <2>2, <3>1 DEF r
    <2>. QED
        BY <2>1, <2>2
<1>11. InForce' = IF r.once THEN InForce \ {r} ELSE InForce
    <2>. DEFINE lost == IF h.once THEN {<<event, h>>} ELSE {}
    <2>1. InSlots' = {p \in InSlots : ~ (h.once /\ p[1] = event /\ p[2] = h)}
        BY <1>1, <1>2, <1>3, DropOnceTakes
    <2>2. \A p \in InSlots : p = <<p[1], p[2]>>
        BY <1>2, SlotProperties
    <2>3. <<event, h>>[1] = event /\ <<event, h>>[2] = h
        OBVIOUS
    <2>4. \A p \in InSlots : p = <<event, h>> <=> p[1] = event /\ p[2] = h
        BY <2>2, <2>3
    <2>. HIDE DEF h, event
    <2>5. InSlots' = InSlots \ lost
        BY <2>1, <2>4
    <2>. DEFINE dropped == {Registered(p[1], p[2]) : p \in lost \cap InSlots}
    <2>6. InForce' = InForce \ dropped
        <3>. HIDE DEF lost
        <3>. QED
            BY <1>2, <2>5, InForceLoses
    <2>7. CASE ~ h.once
        BY <1>4, <2>6, <2>7
    <2>8. CASE h.once /\ <<event, h>> \in InSlots
        <3>1. dropped = {r}
            BY <2>3, <2>8 DEF r
        <3>. QED
            BY <1>4, <2>6, <2>8, <3>1
    <2>9. CASE h.once /\ <<event, h>> \notin InSlots
        <3>1. dropped = {}
            BY <2>9
        <3>2. r \notin InForce
            <4>. SUFFICES ASSUME r \in InForce PROVE FALSE
                OBVIOUS
            <4>1. PICK p \in InSlots : r = Registered(p[1], p[2])
                BY InForceMembers
            <4>2. p[2] \in Handler
                BY <1>2, SlotProperties
            <4>3. p[1] = event /\ p[2] = h
                BY <1>4, <4>1, <4>2, RegisteredTells DEF r
            <4>. QED
                BY <2>4, <2>9, <4>3
        <3>. QED
            BY <1>4, <2>6, <2>9, <3>1, <3>2
    <2>. QED
        BY <2>7, <2>8, <2>9
<1>12. /\ Promise!EmitRuns /\ Promise!Innermost = View(Top)
       /\ Emissions' = Promise!WithInnermost(View(frame))
    BY <1>1, <1>2, <1>5, ContractState, TopIsSeen
<1>13. View(frame) = [Promise!Innermost EXCEPT !.due = @ \ {r}, !.calling = TRUE]
    <2>1. View(frame) = [event |-> Top.event, due |-> Due(Top) \ {r}, calling |-> TRUE]
        BY <1>5, <1>10 DEF View
    <2>2. Promise!Innermost = [event |-> Top.event, due |-> Due(Top), calling |-> Top.calling]
        BY <1>12 DEF View
    <2>. HIDE DEF h, event
    <2>. DEFINE called == [Promise!Innermost EXCEPT !.due = @ \ {r}, !.calling = TRUE]
    <2>3. called \in [event : {Top.event}, due : {Due(Top) \ {r}}, calling : {TRUE}]
        BY <2>2
    <2>4. called = [event |-> Top.event, due |-> Due(Top) \ {r}, calling |-> TRUE]
        <3>. HIDE DEF called
        <3>. QED
            BY <2>3
    <2>. QED
        BY <2>1, <2>4
<1>14. r \in Promise!Innermost.due /\ \A other \in Promise!Innermost.due : r.id <= other.id
    BY <1>9, <1>12 DEF View
<1>15. Emissions' = Promise!WithInnermost([Promise!Innermost EXCEPT !.due = @ \ {r}, !.calling = TRUE])
    BY <1>12, <1>13
<1>. HIDE DEF h, event
<1>. QED
    BY <1>1, <1>11, <1>12, <1>14, <1>15 DEF Promise!Call, InForce, Emissions, Views, View

LEMMA ReturnReturns == ASSUME EmitterInv, Return PROVE Promise!Returns
<1>. DEFINE frame == [Top EXCEPT !.calling = FALSE]
<1>1. /\ stack # <<>> /\ Top.calling /\ stack' = WithTop(frame)
      /\ UNCHANGED <<issued, handlers, answer>> /\ StackOK
    BY DEF Return, EmitterInv
<1>2. Top \in Frame
    BY <1>1, StackProperties
<1>3. /\ frame \in Frame /\ frame.event = Top.event /\ frame.list = Top.list
      /\ frame.next = Top.next /\ frame.calling = FALSE
    BY <1>2 DEF Frame
<1>. HIDE DEF frame
<1>4. /\ Promise!Innermost = View(Top) /\ Emissions # <<>>
      /\ Emissions' = Promise!WithInnermost(View(frame))
    BY <1>1, <1>3, ContractState, TopIsSeen
<1>5. View(frame) = [Promise!Innermost EXCEPT !.calling = FALSE]
    <2>1. Due(frame) = Due(Top)
        BY <1>3 DEF Due
    <2>2. View(frame) = [event |-> Top.event, due |-> Due(Top), calling |-> FALSE]
        BY <1>3, <2>1 DEF View
    <2>3. Promise!Innermost = [event |-> Top.event, due |-> Due(Top), calling |-> Top.calling]
        BY <1>4 DEF View
    <2>. DEFINE returned == [Promise!Innermost EXCEPT !.calling = FALSE]
    <2>4. returned \in [event : {Top.event}, due : {Due(Top)}, calling : {FALSE}]
        BY <2>3
    <2>5. returned = [event |-> Top.event, due |-> Due(Top), calling |-> FALSE]
        <3>. HIDE DEF returned
        <3>. QED
            BY <2>4
    <2>. QED
        BY <2>2, <2>5
<1>6. Emissions' = Promise!WithInnermost([Promise!Innermost EXCEPT !.calling = FALSE])
    BY <1>4, <1>5
<1>7. Promise!Innermost.calling
    BY <1>1, <1>4 DEF View
<1>8. InForce' = InForce
    BY <1>1 DEF InForce, Registered
<1>. QED
    BY <1>1, <1>4, <1>6, <1>7, <1>8 DEF Promise!Returns, InForce, Emissions, Views, View

LEMMA TopIsGone ==
    ASSUME StackOK, stack # <<>>, stack' = WithoutTop
    PROVE Emissions' = Promise!WithoutInnermost
<1>1. Views(stack') = SubSeq(Views(stack), 1, Len(Views(stack)) - 1)
    BY ViewsOfPopped DEF WithoutTop, StackOK
<1>. QED
    BY <1>1, ContractWrites DEF Emissions

LEMMA ThrowThrows == ASSUME EmitterInv, Throw PROVE Promise!Throws
<1>1. /\ stack # <<>> /\ Top.calling /\ stack' = WithoutTop /\ answer' = "thrown"
      /\ UNCHANGED <<issued, handlers>> /\ StackOK
    BY DEF Throw, EmitterInv
<1>2. /\ Promise!Innermost = View(Top) /\ Emissions # <<>>
      /\ Emissions' = Promise!WithoutInnermost
    BY <1>1, ContractState, TopIsGone
<1>3. Promise!Innermost.calling
    BY <1>1, <1>2 DEF View
<1>4. InForce' = InForce
    BY <1>1 DEF InForce, Registered
<1>. QED
    BY <1>1, <1>2, <1>3, <1>4 DEF Promise!Throws, InForce, Emissions, Views, View

LEMMA FinishEnds == ASSUME EmitterInv, Finish PROVE Promise!End
<1>1. /\ stack # <<>> /\ EmitRuns /\ Top.next > Len(Top.list) /\ stack' = WithoutTop
      /\ answer' = "heard" /\ UNCHANGED <<issued, handlers>> /\ StackOK
    BY DEF Finish, EmitRuns, EmitterInv
<1>2. /\ Promise!Innermost = View(Top) /\ Promise!EmitRuns
      /\ Emissions' = Promise!WithoutInnermost
    BY <1>1, ContractState, TopIsGone
<1>3. Promise!Innermost.due = {}
    <2>1. Top \in Frame /\ Top.list \in Seq(Handler)
        BY <1>1, StackProperties
    <2>2. Top.next \in Nat /\ Len(Top.list) \in Nat
        BY <2>1 DEF Frame
    <2>. QED
        BY <1>1, <1>2, <2>2 DEF View, Due
<1>4. InForce' = InForce
    BY <1>1 DEF InForce, Registered
<1>. QED
    BY <1>1, <1>2, <1>3, <1>4 DEF Promise!End, InForce, Emissions, Views, View

LEMMA ContractInit == Init => Promise!Init
<1>. SUFFICES ASSUME Init PROVE Promise!Init
    OBVIOUS
<1>1. issued = 0 /\ handlers = <<>> /\ stack = <<>> /\ answer = "none" /\ DOMAIN <<>> = {}
    BY DEF Init
<1>2. InForce = {}
    BY <1>1 DEF InForce
<1>3. Emissions = <<>>
    BY <1>1 DEF Emissions, Views
<1>. QED
    BY <1>1, <1>2, <1>3 DEF Promise!Init, InForce, Emissions, Views, View

LEMMA ContractNext == EmitterInv /\ [Next]_vars => [Promise!Next]_(Promise!contract)
<1>. SUFFICES ASSUME EmitterInv, [Next]_vars PROVE Promise!Next \/ UNCHANGED Promise!contract
    OBVIOUS
<1>1. ASSUME NEW event \in Event, NEW fn \in Fn, NEW once \in BOOLEAN, Add(event, fn, once)
      PROVE Promise!Next
    BY <1>1, AddRegisters DEF Promise!Next
<1>2. ASSUME NEW event \in Event, NEW fn \in Fn, Off(event, fn) PROVE Promise!Next
    BY <1>2, OffUnregisters DEF Promise!Next
<1>3. ASSUME NEW event \in Event, RemoveAllListeners({event}) PROVE Promise!Next
    BY <1>3, RemovalUnregisters DEF Promise!Next
<1>4. ASSUME NEW event \in Event, Emit(event) PROVE Promise!Next
    BY <1>4, EmitBegins DEF Promise!Next
<1>5. CASE RemoveAllListeners(Event)
    BY <1>5, ClearingUnregisters DEF Promise!Next, InForce
<1>6. CASE Dispatch
    BY <1>6, DispatchCalls DEF Promise!Next
<1>7. CASE Return
    BY <1>7, ReturnReturns DEF Promise!Next
<1>8. CASE Throw
    BY <1>8, ThrowThrows DEF Promise!Next
<1>9. CASE Finish
    BY <1>9, FinishEnds DEF Promise!Next
<1>10. CASE UNCHANGED vars
    BY <1>10 DEF vars, Promise!contract, Registered, Due
<1>. QED
    BY <1>1, <1>2, <1>3, <1>4, <1>5, <1>6, <1>7, <1>8, <1>9, <1>10 DEF Next

(* Whatever its listeners register, remove, emit and throw, the emitter     *)
(* calls in each emission exactly the listeners registered when it began,   *)
(* in the order of their registration (KeepsContract).                      *)
THEOREM EmitterKeepsContract == Spec => KeepsContract
BY EmitterInit, EmitterNext, ContractInit, ContractNext, PTL
    DEF Spec, KeepsContract, Promise!Contract
=============================================================================
