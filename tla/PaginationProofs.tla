-------------------------- MODULE PaginationProofs --------------------------
(***************************************************************************)
(* A walk over a list of any length, in pages of any size, while others     *)
(* change it: nothing is collected twice or out of order, nothing that      *)
(* stays is skipped, and what a walk that ends returns is what ListWalk     *)
(* promises.                                                                *)
(***************************************************************************)
EXTENDS Pagination, RankingProofs, SequenceTheorems

Order == SetDefaultOptions(options.order)

IsOrder(order) == order \in {"asc", "desc"}
IsQuery(query) == query.limit \in Nat /\ IsOrder(query.order)
OrderedBy(order, seq) ==
    \A i, j \in 1 .. Len(seq) : i < j => Precedes(order, seq[i], seq[j])

-----------------------------------------------------------------------------
(* A page of the list endpoint. *)

LEMMA OrderIsTotal ==
    ASSUME NEW order, IsOrder(order), NEW a \in Nat, NEW b \in Nat
    PROVE /\ Precedes(order, a, b) \/ Precedes(order, b, a) \/ a = b
          /\ ~ (Precedes(order, a, b) /\ Precedes(order, b, a))
          /\ ~ Precedes(order, a, a)
          /\ \A c \in Nat : Precedes(order, a, b) /\ Precedes(order, b, c) => Precedes(order, a, c)
BY DEF IsOrder, Precedes

LEMMA FoundIsFinite ==
    ASSUME TypeOK, NEW query
    PROVE /\ Found(query) \in SUBSET Object /\ Object \in SUBSET Nat /\ NoCursor \notin Object
          /\ IsFiniteSet(Found(query))
<1>1. Object \in SUBSET Nat /\ NoCursor \notin Object
    BY PaginationAssumption
<1>2. Found(query) \in SUBSET live
    BY DEF Found
<1>3. newest \in Nat /\ live \in SUBSET Object /\ \A o \in live : o <= newest
    BY <1>1 DEF TypeOK
<1>4. IsFiniteSet(live)
    BY <1>1, <1>3, FS_BoundedSetOfNaturals
<1>. QED
    BY <1>1, <1>2, <1>3, <1>4, FS_Subset

(* A page is the head of what the query finds, in its order; without a      *)
(* cursor it is all of it, and with one everything else lies beyond it.     *)
LEMMA PageProperties ==
    ASSUME TypeOK, NEW query, IsQuery(query)
    PROVE LET page == Serve(query)
          IN /\ page.data \in Seq(Found(query))
             /\ OrderedBy(query.order, page.data)
             /\ page.after = NoCursor => Found(query) \subseteq Range(page.data)
             /\ page.after # NoCursor =>
                   /\ page.after \in Found(query)
                   /\ \A i \in 1 .. Len(page.data) :
                         ~ Precedes(query.order, page.after, page.data[i])
                   /\ \A o \in Found(query) :
                         o \in Range(page.data) \/ Precedes(query.order, page.after, o)
<1>. DEFINE found == Found(query)
            count == Cardinality(found)
            limit == IF query.limit = NoLimit THEN DefaultLimit ELSE query.limit
            size == IF limit < count THEN limit ELSE count
            At(i) == Nth(found, IF query.order = "asc" THEN i ELSE count + 1 - i)
            data == [i \in 1 .. size |-> At(i)]
            after == IF limit < count THEN data[size] ELSE NoCursor
<1>1. /\ found \in SUBSET Nat /\ found \subseteq Object /\ IsFiniteSet(found)
      /\ NoCursor \notin found /\ \A o \in found : o \in Nat
    BY FoundIsFinite
<1>2. /\ count \in Nat /\ limit \in Nat /\ limit > 0
      /\ size \in Nat /\ size <= count /\ (limit < count => size > 0)
    BY <1>1, NthProperties, PaginationAssumption DEF IsQuery, NoLimit
<1>. HIDE DEF found, count, limit, size
<1>3. \A i \in 1 .. count : At(i) \in found
    <2>1. \A k \in 1 .. count : Nth(found, k) \in found
        BY <1>1, NthProperties DEF count
    <2>. QED
        BY <1>2, <2>1
<1>4. \A i, j \in 1 .. count : i < j => Precedes(query.order, At(i), At(j))
    <2>. SUFFICES ASSUME NEW i \in 1 .. count, NEW j \in 1 .. count, i < j
                  PROVE Precedes(query.order, At(i), At(j))
        OBVIOUS
    <2>1. \A k, l \in 1 .. count : k < l => Nth(found, k) < Nth(found, l)
        BY <1>1, NthProperties DEF count
    <2>2. CASE query.order = "asc"
        BY <2>1, <2>2 DEF Precedes
    <2>3. CASE query.order # "asc"
        <3>1. /\ count + 1 - i \in 1 .. count /\ count + 1 - j \in 1 .. count
              /\ count + 1 - j < count + 1 - i
            BY <1>2
        <3>2. Nth(found, count + 1 - j) < Nth(found, count + 1 - i)
            BY <2>1, <3>1
        <3>3. Nth(found, count + 1 - j) \in Nat /\ Nth(found, count + 1 - i) \in Nat
            BY <1>1, <1>3, <2>3
        <3>. QED
            BY <2>3, <3>2, <3>3 DEF Precedes
    <2>. QED
        BY <2>2, <2>3
<1>5. \A o \in found : \E i \in 1 .. count : At(i) = o
    <2>. SUFFICES ASSUME NEW o \in found PROVE \E i \in 1 .. count : At(i) = o
        OBVIOUS
    <2>1. PICK k \in 1 .. count : Nth(found, k) = o
        BY <1>1, NthProperties DEF count
    <2>2. CASE query.order = "asc"
        BY <2>1, <2>2
    <2>3. CASE query.order # "asc"
        <3>1. count + 1 - k \in 1 .. count /\ count + 1 - (count + 1 - k) = k
            BY <1>2
        <3>2. At(count + 1 - k) = o
            BY <2>1, <2>3, <3>1
        <3>. QED
            BY <3>1, <3>2
    <2>. QED
        BY <2>2, <2>3
<1>. HIDE DEF At
<1>6. /\ data \in Seq(found) /\ Len(data) = size /\ DOMAIN data = 1 .. size
      /\ \A i \in 1 .. size : i \in 1 .. count /\ data[i] = At(i)
    BY <1>2, <1>3
<1>. HIDE DEF data
<1>7. OrderedBy(query.order, data)
    BY <1>4, <1>6 DEF OrderedBy
<1>8. after = NoCursor => found \subseteq Range(data)
    <2>. SUFFICES ASSUME after = NoCursor, NEW o \in found PROVE o \in Range(data)
        OBVIOUS
    <2>1. size = count
        <3>1. CASE limit < count
            <4>1. size \in 1 .. size
                BY <1>2, <3>1
            <4>2. data[size] \in found
                BY <1>3, <1>6, <4>1
            <4>. QED
                BY <1>1, <3>1, <4>2
        <3>. QED
            BY <3>1 DEF size
    <2>2. PICK i \in 1 .. size : data[i] = o
        BY <1>5, <1>6, <2>1
    <2>. QED
        BY <1>6, <2>2 DEF Range
<1>9. after # NoCursor =>
         /\ after \in found
         /\ \A i \in 1 .. Len(data) : ~ Precedes(query.order, after, data[i])
         /\ \A o \in found : o \in Range(data) \/ Precedes(query.order, after, o)
    <2>. SUFFICES ASSUME after # NoCursor
                  PROVE /\ after \in found
                        /\ \A i \in 1 .. Len(data) : ~ Precedes(query.order, after, data[i])
                        /\ \A o \in found : o \in Range(data) \/ Precedes(query.order, after, o)
        OBVIOUS
    <2>1. limit < count /\ size \in 1 .. count /\ size \in 1 .. size
        BY <1>2
    <2>2. after = At(size) /\ after \in found /\ after \in Nat
        BY <1>1, <1>3, <1>6, <2>1
    <2>3. IsOrder(query.order)
        BY DEF IsQuery
    <2>4. ASSUME NEW i \in 1 .. Len(data) PROVE ~ Precedes(query.order, after, data[i])
        <3>1. i \in 1 .. count /\ data[i] = At(i) /\ (i = size \/ i < size)
            BY <1>2, <1>6
        <3>2. data[i] \in Nat
            BY <1>1, <1>3, <3>1
        <3>3. i < size => Precedes(query.order, data[i], after)
            BY <1>4, <2>1, <2>2, <3>1
        <3>. QED
            BY <2>2, <2>3, <3>1, <3>2, <3>3, OrderIsTotal
    <2>5. ASSUME NEW o \in found PROVE o \in Range(data) \/ Precedes(query.order, after, o)
        <3>1. PICK i \in 1 .. count : At(i) = o
            BY <1>5
        <3>2. CASE i <= size
            <4>1. i \in 1 .. size
                BY <1>2, <3>2
            <4>2. data[i] = o
                BY <1>6, <3>1, <4>1
            <4>. QED
                BY <1>6, <4>1, <4>2 DEF Range
        <3>3. CASE size < i
            BY <1>4, <2>1, <2>2, <3>1, <3>3
        <3>. QED
            BY <1>2, <3>2, <3>3
    <2>. QED
        BY <2>2, <2>4, <2>5
<1>10. Serve(query) = [data |-> data, after |-> after]
    BY DEF Serve, data, At, size, limit, count, found
<1>. QED
    BY <1>6, <1>7, <1>8, <1>9, <1>10 DEF found

-----------------------------------------------------------------------------
(* The walk. *)

(* The walk has collected nothing yet and is where it was asked to begin,   *)
(* or it is at a cursor behind which all lies that it has collected.        *)
Placed ==
    Walking =>
        \/ cursor = options.after /\ results = <<>>
        \/ /\ cursor # NoCursor /\ Beyond(Order, options.after, cursor)
           /\ \A i \in 1 .. Len(results) : ~ Precedes(Order, cursor, results[i])
SteadyIsLive == Walking => \A o \in steady : o \in live /\ Asked(o)
ListInOrder == OrderedBy(Order, list)
WalkInv == TypeOK /\ InOrder /\ NothingSkipped /\ Placed /\ SteadyIsLive /\ ListInOrder

LEMMA Typed ==
    ASSUME TypeOK
    PROVE /\ IsOrder(Order) /\ \A o \in Object : o \in Nat \ {NoCursor}
          /\ options.limit \in Nat /\ options.after \in Object \cup {NoCursor}
          /\ IsQuery(PageQuery) /\ IsQuery(FirstQuery(request, options))
          /\ PageQuery.order = Order /\ FirstQuery(request, options).order = Order
          /\ list \in Seq(Object) /\ results \in Seq(Object)
<1>1. options \in Options /\ PageLimit \in Nat
    BY PaginationAssumption DEF TypeOK
<1>2. options.limit \in Nat /\ options.after \in Object \cup {NoCursor}
      /\ options.order \in {"none", "asc", "desc"}
    BY <1>1 DEF Options, Limit
<1>3. IsOrder(Order)
    BY <1>2 DEF Order, SetDefaultOptions, IsOrder
<1>. QED
    BY <1>1, <1>2, <1>3, PaginationAssumption
    DEF IsQuery, PageQuery, FirstQuery, Order, TypeOK, IsOrder

(* What a page adds to what has been collected. *)
LEMMA PageIsAppended ==
    ASSUME WalkInv, PageArrives
    PROVE LET page == Serve(PageQuery)
          IN /\ pc = "requesting" /\ results' = results \o page.data
             /\ page.data \in Seq(Object) /\ results' \in Seq(Object)
             /\ Range(results') = Range(results) \cup Range(page.data)
             /\ Range(page.data) \subseteq Found(PageQuery)
             /\ page.after # NoCursor =>
                    pc' = "delaying" /\ cursor' = page.after /\ page.after \in Found(PageQuery)
             /\ page.after = NoCursor => pc' = "done" /\ cursor' = cursor
<1>. DEFINE page == Serve(PageQuery)
<1>1. TypeOK /\ IsQuery(PageQuery) /\ results \in Seq(Object)
    BY Typed DEF WalkInv
<1>2. /\ page.data \in Seq(Found(PageQuery))
      /\ page.after # NoCursor => page.after \in Found(PageQuery)
    BY <1>1, PageProperties
<1>3. Found(PageQuery) \subseteq Object
    BY <1>1, FoundIsFinite
<1>4. page.data \in Seq(Object)
    BY <1>2, <1>3, SeqMonotonic
<1>5. /\ pc = "requesting" /\ results' = results \o page.data
      /\ page.after # NoCursor => pc' = "delaying" /\ cursor' = page.after
      /\ page.after = NoCursor => pc' = "done" /\ cursor' = cursor
    BY DEF PageArrives
<1>. HIDE DEF page
<1>6. results' \in Seq(Object) /\ Range(results') = Range(results) \cup Range(page.data)
    BY <1>1, <1>4, <1>5, ConcatProperties, RangeConcatenation
<1>7. Range(page.data) \subseteq Found(PageQuery)
    BY <1>2, RangeOfSeq
<1>. QED
    BY <1>2, <1>4, <1>5, <1>6, <1>7 DEF page

(* What a page has lies beyond the cursor it was asked for with, and the    *)
(* cursor beyond where the walk began.                                      *)
LEMMA PageLiesAhead ==
    ASSUME WalkInv, pc = "requesting", NEW o \in Found(PageQuery)
    PROVE /\ o \in live /\ o \in Object /\ Beyond(Order, options.after, o)
          /\ \A i \in 1 .. Len(results) : Precedes(Order, results[i], o)
<1>1. /\ TypeOK /\ IsOrder(Order) /\ PageQuery.order = Order
      /\ \A x \in Object : x \in Nat \ {NoCursor}
      /\ results \in Seq(Object) /\ options.after \in Object \cup {NoCursor}
    BY Typed DEF WalkInv
<1>2. o \in live /\ o \in Object /\ Beyond(Order, cursor, o)
    <2>1. o \in live /\ Beyond(PageQuery.order, PageQuery.after, o)
        BY DEF Found
    <2>2. PageQuery.after = cursor
        BY DEF PageQuery
    <2>. QED
        BY <1>1, <2>1, <2>2 DEF TypeOK
<1>3. CASE cursor = options.after /\ results = <<>>
    BY <1>2, <1>3
<1>4. CASE /\ cursor # NoCursor /\ Beyond(Order, options.after, cursor)
           /\ \A i \in 1 .. Len(results) : ~ Precedes(Order, cursor, results[i])
    <2>1. Precedes(Order, cursor, o) /\ cursor \in Object
        BY <1>1, <1>2, <1>4 DEF Beyond, TypeOK
    <2>2. Beyond(Order, options.after, o)
        BY <1>1, <1>2, <1>4, <2>1, OrderIsTotal DEF Beyond
    <2>3. ASSUME NEW i \in 1 .. Len(results) PROVE Precedes(Order, results[i], o)
        <3>1. results[i] \in Object
            BY <1>1, ElementOfSeq
        <3>2. Precedes(Order, results[i], cursor) \/ results[i] = cursor
            BY <1>1, <1>4, <2>1, <3>1, OrderIsTotal
        <3>. QED
            BY <1>1, <1>2, <2>1, <3>1, <3>2, OrderIsTotal
    <2>. QED
        BY <1>2, <2>2, <2>3
<1>. QED
    BY <1>3, <1>4 DEF WalkInv, Placed, Walking

LEMMA PageKeepsInv == ASSUME WalkInv, PageArrives PROVE WalkInv'
<1>. DEFINE page == Serve(PageQuery)
<1>1. /\ pc = "requesting" /\ results' = results \o page.data
      /\ page.data \in Seq(Object) /\ results' \in Seq(Object)
      /\ Range(results') = Range(results) \cup Range(page.data)
      /\ Range(page.data) \subseteq Found(PageQuery)
      /\ page.after # NoCursor =>
             pc' = "delaying" /\ cursor' = page.after /\ page.after \in Found(PageQuery)
      /\ page.after = NoCursor => pc' = "done" /\ cursor' = cursor
    BY PageIsAppended
<1>2. UNCHANGED <<live, newest, matching, request, options, list, steady, ever>>
      /\ Order' = Order
    BY DEF PageArrives, store, asked, Order
<1>3. /\ TypeOK /\ IsOrder(Order) /\ PageQuery.order = Order /\ IsQuery(PageQuery)
      /\ \A x \in Object : x \in Nat \ {NoCursor}
      /\ results \in Seq(Object) /\ options.after \in Object \cup {NoCursor}
    BY Typed DEF WalkInv
<1>4. /\ OrderedBy(Order, page.data)
      /\ page.after # NoCursor =>
            /\ \A i \in 1 .. Len(page.data) : ~ Precedes(Order, page.after, page.data[i])
            /\ \A o \in Found(PageQuery) :
                  o \in Range(page.data) \/ Precedes(Order, page.after, o)
    BY <1>3, PageProperties
<1>5. Found(PageQuery) \subseteq Object
    BY <1>3, FoundIsFinite
<1>. HIDE DEF page
<1>6. /\ Len(results) \in Nat /\ Len(page.data) \in Nat
      /\ Len(results') = Len(results) + Len(page.data)
      /\ \A i \in 1 .. Len(results') :
            results'[i] = IF i <= Len(results) THEN results[i] ELSE page.data[i - Len(results)]
    BY <1>1, <1>3, ConcatProperties, LenProperties
<1>7. \A i \in 1 .. Len(page.data) : page.data[i] \in Found(PageQuery)
    BY <1>1, LenProperties DEF Range
<1>8. TypeOK'
    <2>1. cursor' \in Object \cup {NoCursor} /\ pc' \in {"delaying", "done"}
          /\ (pc' = "delaying" => cursor' \in Object)
        BY <1>1, <1>3, <1>5 DEF TypeOK
    <2>. QED
        BY <1>1, <1>2, <1>3, <2>1 DEF TypeOK
<1>9. InOrder'
    <2>. SUFFICES ASSUME NEW i \in 1 .. Len(results'), NEW j \in 1 .. Len(results'), i < j
                  PROVE Precedes(Order, results'[i], results'[j])
        BY <1>2 DEF InOrder, Order
    <2>1. CASE j <= Len(results)
        BY <1>6, <2>1 DEF WalkInv, InOrder, Order
    <2>2. CASE i <= Len(results) /\ j > Len(results)
        <3>1. i \in 1 .. Len(results) /\ j - Len(results) \in 1 .. Len(page.data)
            BY <1>6, <2>2
        <3>2. page.data[j - Len(results)] \in Found(PageQuery)
            BY <1>7, <3>1
        <3>. QED
            BY <1>1, <1>6, <2>2, <3>1, <3>2, PageLiesAhead
    <2>3. CASE i > Len(results)
        <3>1. /\ i - Len(results) \in 1 .. Len(page.data) /\ j - Len(results) \in 1 .. Len(page.data)
              /\ i - Len(results) < j - Len(results)
              /\ results'[i] = page.data[i - Len(results)]
              /\ results'[j] = page.data[j - Len(results)]
            BY <1>6, <2>3
        <3>. QED
            BY <1>4, <3>1 DEF OrderedBy
    <2>. QED
        BY <1>6, <2>1, <2>2, <2>3
<1>10. CASE page.after # NoCursor
    <2>1. cursor' = page.after /\ page.after \in Found(PageQuery) /\ Walking'
        BY <1>1, <1>10 DEF Walking
    <2>2. /\ page.after \in live /\ page.after \in Nat
          /\ Beyond(Order, options.after, page.after)
          /\ \A i \in 1 .. Len(results) : Precedes(Order, results[i], page.after)
        BY <1>1, <1>3, <2>1, PageLiesAhead
    <2>3. SteadyIsLive'
        BY <1>1, <1>2, <2>1 DEF WalkInv, SteadyIsLive, Walking, Asked
    <2>4. NothingSkipped'
        <3>. SUFFICES ASSUME NEW o \in steady
                      PROVE Beyond(Order, page.after, o) \/ o \in Range(results')
            BY <1>2, <2>1 DEF NothingSkipped, Order
        <3>1. Beyond(Order, cursor, o) \/ o \in Range(results)
            BY <1>1 DEF WalkInv, NothingSkipped, Walking, Order
        <3>2. CASE Beyond(Order, cursor, o)
            <4>1. o \in live /\ o \in matching
                BY <1>1 DEF WalkInv, SteadyIsLive, Walking, Asked
            <4>2. o \in Found(PageQuery)
                BY <1>3, <3>2, <4>1 DEF Found, PageQuery
            <4>. QED
                BY <1>1, <1>4, <1>10, <4>2 DEF Beyond
        <3>. QED
            BY <1>1, <3>1, <3>2
    <2>5. Placed'
        <3>1. ASSUME NEW i \in 1 .. Len(results')
              PROVE ~ Precedes(Order, page.after, results'[i])
            <4>1. CASE i <= Len(results)
                <5>1. results'[i] = results[i] /\ i \in 1 .. Len(results)
                    BY <1>6, <4>1
                <5>2. results[i] \in Nat
                    BY <1>3, <5>1, ElementOfSeq
                <5>. QED
                    BY <1>3, <2>2, <5>1, <5>2, OrderIsTotal
            <4>2. CASE i > Len(results)
                BY <1>4, <1>6, <1>10, <4>2
            <4>. QED
                BY <1>6, <4>1, <4>2
        <3>. QED
            BY <1>2, <1>10, <2>1, <2>2, <3>1 DEF Placed, Order
    <2>. QED
        BY <1>2, <1>8, <1>9, <2>3, <2>4, <2>5 DEF WalkInv, ListInOrder
<1>11. CASE page.after = NoCursor
    <2>1. ~ Walking'
        BY <1>1, <1>11 DEF Walking
    <2>. QED
        BY <1>2, <1>8, <1>9, <2>1
        DEF WalkInv, NothingSkipped, Placed, SteadyIsLive, ListInOrder
<1>. QED
    BY <1>10, <1>11

LEMMA WalkInit == Init => WalkInv
<1>. SUFFICES ASSUME Init PROVE WalkInv
    OBVIOUS
<1>1. list = <<>> /\ results = <<>> /\ ~ Walking /\ Len(<<>>) = 0
    BY DEF Init, Walking
<1>2. TypeOK
    BY DEF Init, TypeOK
<1>. QED
    BY <1>1, <1>2
    DEF WalkInv, InOrder, NothingSkipped, Placed, SteadyIsLive, ListInOrder, OrderedBy

LEMMA WalkNext == WalkInv /\ [Next]_vars => WalkInv'
<1>. SUFFICES ASSUME WalkInv, [Next]_vars PROVE WalkInv'
    OBVIOUS
<1>. USE DEF store, asked, walk
<1>1. /\ TypeOK /\ InOrder /\ NothingSkipped /\ Placed /\ SteadyIsLive /\ ListInOrder
      /\ Len(<<>>) = 0 /\ <<>> \in Seq(Object)
    BY DEF WalkInv
<1>2. CASE List
    <2>. DEFINE page == Serve(FirstQuery(request, options))
    <2>1. /\ page.data \in Seq(Found(FirstQuery(request, options)))
          /\ OrderedBy(Order, page.data)
        BY <1>1, Typed, PageProperties
    <2>2. page.data \in Seq(Object)
        BY <1>1, <2>1, FoundIsFinite, SeqMonotonic
    <2>3. list' = page.data /\ pc' = "listed" /\ Order' = Order
          /\ UNCHANGED <<live, newest, matching, request, options, cursor, results, steady, ever>>
        BY <1>2 DEF List, Order
    <2>. HIDE DEF page
    <2>4. TypeOK'
        BY <1>1, <2>2, <2>3 DEF TypeOK
    <2>5. InOrder' /\ ListInOrder'
        BY <1>1, <2>1, <2>3 DEF InOrder, ListInOrder
    <2>. QED
        BY <2>3, <2>4, <2>5 DEF WalkInv, NothingSkipped, Placed, SteadyIsLive, Walking
<1>3. CASE AutoPagination
    <2>1. UNCHANGED <<live, newest, matching, request, options, list>> /\ Order' = Order
        BY <1>3 DEF AutoPagination, Order
    <2>2. ListInOrder'
        BY <1>1, <2>1 DEF ListInOrder
    <2>3. CASE options.limit # NoLimit
        <3>1. pc' = "done" /\ results' = list /\ UNCHANGED <<cursor, steady, ever>>
            BY <1>3, <2>3 DEF AutoPagination
        <3>2. TypeOK'
            BY <1>1, <2>1, <3>1 DEF TypeOK
        <3>3. InOrder'
            BY <1>1, <2>1, <3>1 DEF InOrder, ListInOrder, OrderedBy, Order
        <3>. QED
            BY <2>2, <3>1, <3>2, <3>3 DEF WalkInv, NothingSkipped, Placed, SteadyIsLive, Walking
    <2>4. CASE options.limit = NoLimit
        <3>1. /\ pc' = "requesting" /\ results' = <<>> /\ cursor' = options.after
              /\ steady' = {o \in live : Asked(o)} /\ ever' = steady'
            BY <1>3, <2>4 DEF AutoPagination
        <3>2. TypeOK'
            BY <1>1, <2>1, <3>1, Typed DEF TypeOK
        <3>3. InOrder' /\ Placed'
            BY <1>1, <2>1, <3>1 DEF InOrder, Placed
        <3>4. SteadyIsLive' /\ NothingSkipped'
            BY <2>1, <3>1 DEF SteadyIsLive, NothingSkipped, Asked, Order
        <3>. QED
            BY <2>2, <3>2, <3>3, <3>4 DEF WalkInv
    <2>. QED
        BY <2>3, <2>4
<1>4. CASE PageArrives
    BY <1>4, PageKeepsInv
<1>5. CASE PageFails
    <2>1. TypeOK' /\ ~ Walking'
        BY <1>1, <1>5 DEF PageFails, TypeOK, Walking
    <2>. QED
        BY <1>1, <1>5, <2>1 DEF PageFails, WalkInv, InOrder, NothingSkipped, Placed, SteadyIsLive,
            ListInOrder, Order
<1>6. CASE Delay
    <2>1. TypeOK' /\ Walking
        BY <1>1, <1>6 DEF Delay, TypeOK, Walking
    <2>2. UNCHANGED <<live, matching, options, list, cursor, results, steady>>
        BY <1>6 DEF Delay
    <2>. QED
        BY <1>1, <2>1, <2>2 DEF WalkInv, InOrder, NothingSkipped, Placed, SteadyIsLive,
            ListInOrder, Order, Asked
<1>7. CASE Create
    <2>1. UNCHANGED <<matching, options, list, pc, cursor, results, steady, request>>
          /\ live \subseteq live' /\ Walking' = Walking
        BY <1>7 DEF Create, Walking
    <2>2. TypeOK'
        <3>1. \A o \in Object : o \in Nat
            BY PaginationAssumption
        <3>2. newest' \in Object /\ live' \subseteq {o \in Object : o <= newest'}
            BY <1>1, <1>7, <3>1, PaginationAssumption DEF Create, TypeOK
        <3>3. steady' \subseteq ever' /\ ever' \subseteq Object
            BY <1>1, <1>7 DEF Create, TypeOK
        <3>. QED
            BY <1>1, <2>1, <3>2, <3>3 DEF TypeOK
    <2>. QED
        BY <1>1, <2>1, <2>2 DEF WalkInv, InOrder, NothingSkipped, Placed, SteadyIsLive,
            ListInOrder, Order, Asked
<1>8. ASSUME NEW o \in live, Delete(o) PROVE WalkInv'
    <2>1. /\ UNCHANGED <<newest, matching, options, list, pc, cursor, results, request, ever>>
          /\ live' = live \ {o} /\ Walking' = Walking /\ steady' \subseteq steady
          /\ Walking => steady' = steady \ {o}
        BY <1>8 DEF Delete, Walking
    <2>2. TypeOK'
        BY <1>1, <2>1 DEF TypeOK
    <2>3. SteadyIsLive'
        BY <1>1, <2>1 DEF SteadyIsLive, Asked
    <2>. QED
        BY <1>1, <2>1, <2>2, <2>3 DEF WalkInv, InOrder, NothingSkipped, Placed, ListInOrder, Order
<1>9. CASE UNCHANGED vars
    BY <1>1, <1>9 DEF vars, WalkInv, TypeOK, InOrder, NothingSkipped, Placed, SteadyIsLive,
        ListInOrder, Order, Asked, Walking
<1>. QED
    BY <1>2, <1>3, <1>4, <1>5, <1>6, <1>7, <1>8, <1>9 DEF Next

(* The state of a walk is well typed, and the next page is awaited only     *)
(* with the cursor of an object (TypeOK).                                   *)
THEOREM PaginationTypeOK == Spec => []TypeOK
<1>1. WalkInv => TypeOK
    BY DEF WalkInv
<1>. QED
    BY <1>1, WalkInit, WalkNext, PTL DEF Spec

(* Whatever is created and deleted between the pages, an object that has    *)
(* been in the list since the walk began is collected or still lies ahead   *)
(* (NothingSkipped).                                                        *)
THEOREM NothingIsSkipped == Spec => []NothingSkipped
<1>1. WalkInv => NothingSkipped
    BY DEF WalkInv
<1>. QED
    BY <1>1, WalkInit, WalkNext, PTL DEF Spec

(* Pages follow each other in the order asked for, and nothing is collected *)
(* twice (InOrder).                                                         *)
THEOREM PagesAreInOrder == Spec => []InOrder
<1>1. WalkInv => InOrder
    BY DEF WalkInv
<1>. QED
    BY <1>1, WalkInit, WalkNext, PTL DEF Spec

-----------------------------------------------------------------------------
(* The promise of ListWalk. *)

(* Every list method and filter in use is one whose page requests the API   *)
(* understands.                                                             *)
Followed == \A r \in Request : r.filter = "none" \/ WalkFilter(r) \in {"search", "snake_case"}

FilterIsMatched == request.filter = "none" => matching = Object
EverIsAll == Walking => \A o \in live : Asked(o) => o \in ever
CollectedWasThere == Walking => Range(results) \subseteq ever
RefInv == WalkInv /\ FilterIsMatched /\ EverIsAll /\ CollectedWasThere

(* What a page has was asked for. *)
LEMMA PageWasAskedFor ==
    ASSUME Followed, RefInv, pc = "requesting"
    PROVE Found(PageQuery) \subseteq ever
<1>. SUFFICES ASSUME NEW o \in Found(PageQuery) PROVE o \in ever
    OBVIOUS
<1>1. o \in live /\ o \in Object /\ Beyond(Order, options.after, o)
    BY PageLiesAhead DEF RefInv
<1>2. o \in matching
    <2>1. request \in Request
        BY DEF RefInv, WalkInv, TypeOK
    <2>2. CASE request.filter = "none"
        BY <1>1, <2>2 DEF RefInv, FilterIsMatched
    <2>3. CASE WalkFilter(request) \in {"search", "snake_case"}
        BY <2>3 DEF Found, PageQuery
    <2>. QED
        BY <2>1, <2>2, <2>3 DEF Followed
<1>. QED
    BY <1>1, <1>2 DEF RefInv, EverIsAll, Walking, Asked, Order

LEMMA CollectedInTheList ==
    ASSUME Followed, RefInv, PageArrives
    PROVE Range(results') \subseteq ever
<1>1. /\ pc = "requesting" /\ Range(results') = Range(results) \cup Range(Serve(PageQuery).data)
      /\ Range(Serve(PageQuery).data) \subseteq Found(PageQuery)
    BY PageIsAppended DEF RefInv
<1>. QED
    BY <1>1, PageWasAskedFor DEF RefInv, CollectedWasThere, Walking

LEMMA RefInit == Init => RefInv
<1>1. Init => ~ Walking /\ FilterIsMatched
    BY DEF Init, Walking, FilterIsMatched
<1>. QED
    BY <1>1, WalkInit DEF RefInv, EverIsAll, CollectedWasThere

LEMMA RefNext == ASSUME Followed PROVE RefInv /\ [Next]_vars => RefInv'
<1>. SUFFICES ASSUME RefInv, [Next]_vars PROVE RefInv'
    OBVIOUS
<1>. USE DEF store, asked, walk
<1>1. WalkInv' /\ WalkInv /\ EverIsAll /\ CollectedWasThere
    BY WalkNext DEF RefInv
<1>2. FilterIsMatched'
    BY DEF Next, vars, List, AutoPagination, PageArrives, PageFails, Delay, Create, Delete,
        RefInv, FilterIsMatched
<1>3. CASE List \/ PageFails
    BY <1>1, <1>2, <1>3 DEF List, PageFails, RefInv, EverIsAll, CollectedWasThere, Walking
<1>4. CASE AutoPagination
    <2>1. CASE options.limit # NoLimit
        BY <1>1, <1>2, <1>4, <2>1 DEF AutoPagination, RefInv, EverIsAll, CollectedWasThere, Walking
    <2>2. CASE options.limit = NoLimit
        <3>1. /\ results' = <<>> /\ ever' = {o \in live : Asked(o)}
              /\ UNCHANGED <<live, matching, options>>
            BY <1>4, <2>2 DEF AutoPagination
        <3>2. EverIsAll'
            BY <3>1 DEF EverIsAll, Asked
        <3>3. CollectedWasThere'
            BY <3>1 DEF CollectedWasThere, Range
        <3>. QED
            BY <1>1, <1>2, <3>2, <3>3 DEF RefInv
    <2>. QED
        BY <2>1, <2>2
<1>5. CASE PageArrives
    <2>1. pc = "requesting" /\ UNCHANGED <<live, matching, options, ever>>
        BY <1>5 DEF PageArrives
    <2>2. Range(results') \subseteq ever
        BY <1>5, CollectedInTheList
    <2>. QED
        BY <1>1, <1>2, <2>1, <2>2 DEF RefInv, EverIsAll, CollectedWasThere, Walking, Asked
<1>6. CASE Delay
    <2>1. Walking /\ UNCHANGED <<live, matching, options, ever, results>>
        BY <1>6 DEF Delay, Walking
    <2>. QED
        BY <1>1, <1>2, <2>1 DEF RefInv, EverIsAll, CollectedWasThere, Asked
<1>7. CASE Create
    <2>1. /\ UNCHANGED <<matching, options, results>> /\ Walking' = Walking
          /\ live' = live \cup {newest + 1}
          /\ ever' = IF Walking /\ Asked(newest + 1) THEN ever \cup {newest + 1} ELSE ever
        BY <1>7 DEF Create, Walking
    <2>2. \A o : Asked(o)' <=> Asked(o)
        BY <2>1 DEF Asked
    <2>3. EverIsAll'
        BY <1>1, <2>1, <2>2 DEF EverIsAll
    <2>. QED
        BY <1>1, <1>2, <2>1, <2>3 DEF RefInv, CollectedWasThere
<1>8. ASSUME NEW o \in live, Delete(o) PROVE RefInv'
    <2>1. UNCHANGED <<matching, options, results, ever>> /\ Walking' = Walking /\ live' \subseteq live
        BY <1>8 DEF Delete, Walking
    <2>. QED
        BY <1>1, <1>2, <2>1 DEF RefInv, EverIsAll, CollectedWasThere, Asked
<1>9. CASE UNCHANGED vars
    BY <1>1, <1>2, <1>9 DEF vars, RefInv, EverIsAll, CollectedWasThere, Asked, Walking
<1>. QED
    BY <1>3, <1>4, <1>5, <1>6, <1>7, <1>8, <1>9 DEF Next

(* The last page completes the set. *)
LEMMA LastPageCompletes ==
    ASSUME WalkInv, PageArrives, pc' = "done"
    PROVE steady \subseteq Range(results')
<1>. SUFFICES ASSUME NEW o \in steady PROVE o \in Range(results')
    OBVIOUS
<1>. DEFINE page == Serve(PageQuery)
<1>1. /\ pc = "requesting" /\ page.after = NoCursor
      /\ Range(results') = Range(results) \cup Range(page.data)
    BY PageIsAppended
<1>2. /\ TypeOK /\ IsQuery(PageQuery) /\ PageQuery.order = Order
    BY Typed DEF WalkInv
<1>3. Found(PageQuery) \subseteq Range(page.data)
    BY <1>1, <1>2, PageProperties
<1>. HIDE DEF page
<1>4. CASE Beyond(Order, cursor, o)
    <2>1. o \in live /\ o \in matching
        BY <1>1 DEF WalkInv, SteadyIsLive, Walking, Asked
    <2>2. o \in Found(PageQuery)
        BY <1>2, <1>4, <2>1 DEF Found, PageQuery
    <2>. QED
        BY <1>1, <1>3, <2>2
<1>5. CASE o \in Range(results)
    BY <1>1, <1>5
<1>. QED
    BY <1>1, <1>4, <1>5 DEF WalkInv, NothingSkipped, Walking, Order

(* A step of the walk, or of those who change its list, is a step of what   *)
(* ListWalk promises, or none that it sees.                                 *)
LEMMA WalkStep ==
    ASSUME Followed
    PROVE RefInv /\ RefInv' /\ [Next]_vars => [CompleteWalk!Next]_(CompleteWalk!vars)
<1>. SUFFICES ASSUME RefInv, RefInv', [Next]_vars PROVE [CompleteWalk!Next]_(CompleteWalk!vars)
    OBVIOUS
<1>. USE DEF store, asked, walk
<1>1. /\ steady \subseteq ever /\ ever \subseteq Object /\ steady' \subseteq ever'
      /\ ever' \subseteq Object /\ Order \in {"asc", "desc"}
    BY Typed DEF RefInv, WalkInv, TypeOK, IsOrder
<1>2. CASE List
    BY <1>2 DEF List, CompleteWalk!vars, Walking
<1>3. CASE AutoPagination
    <2>1. CASE options.limit # NoLimit
        BY <1>3, <2>1 DEF AutoPagination, CompleteWalk!vars, Walking
    <2>2. CASE options.limit = NoLimit
        <3>1. CompleteWalk!Begin
            BY <1>1, <1>3, <2>2 DEF AutoPagination, CompleteWalk!Begin, Walking
        <3>. QED
            BY <3>1 DEF CompleteWalk!Next
    <2>. QED
        BY <2>1, <2>2
<1>4. CASE PageArrives
    <2>1. UNCHANGED <<options, steady, ever>> /\ pc = "requesting" /\ pc' \in {"delaying", "done"}
        BY <1>4 DEF PageArrives
    <2>2. CASE options.limit # NoLimit \/ pc' = "delaying"
        BY <2>1, <2>2 DEF CompleteWalk!vars, Walking
    <2>3. CASE options.limit = NoLimit /\ pc' = "done"
        <3>1. steady \subseteq Range(results')
            BY <1>4, <2>3, LastPageCompletes DEF RefInv
        <3>2. Range(results') \subseteq ever
            BY <1>4, CollectedInTheList
        <3>3. CompleteWalk!Sorted(results', Order)
            BY <2>1 DEF RefInv, WalkInv, InOrder, CompleteWalk!Sorted, Precedes, Order
        <3>4. CompleteWalk!Return
            BY <2>1, <2>3, <3>1, <3>2, <3>3
            DEF CompleteWalk!Return, CompleteWalk!Range, Range, Order, Walking
        <3>. QED
            BY <3>4 DEF CompleteWalk!Next
    <2>. QED
        BY <2>1, <2>2, <2>3
<1>5. CASE PageFails
    <2>1. CASE options.limit # NoLimit
        BY <1>5, <2>1 DEF PageFails, CompleteWalk!vars, Walking
    <2>2. CASE options.limit = NoLimit
        <3>1. CompleteWalk!Fail
            BY <1>5, <2>2 DEF PageFails, CompleteWalk!Fail, Walking
        <3>. QED
            BY <3>1 DEF CompleteWalk!Next
    <2>. QED
        BY <2>1, <2>2
<1>6. CASE Delay
    BY <1>6 DEF Delay, CompleteWalk!vars, Walking
<1>7. ASSUME UNCHANGED <<options, pc, results>>, steady' \subseteq steady, ever \subseteq ever',
             ~ Walking => UNCHANGED <<steady, ever>>
      PROVE [CompleteWalk!Next]_(CompleteWalk!vars)
    <2>1. CASE ~ Walking
        BY <1>7, <2>1 DEF CompleteWalk!vars, Walking
    <2>2. CASE Walking /\ options.limit # NoLimit
        <3>1. CompleteWalk!Prepare
            BY <1>1, <1>7, <2>2 DEF CompleteWalk!Prepare, Order, Walking
        <3>. QED
            BY <3>1 DEF CompleteWalk!Next
    <2>3. CASE Walking /\ options.limit = NoLimit
        <3>1. CompleteWalk!Change
            BY <1>1, <1>7, <2>3 DEF CompleteWalk!Change, Walking
        <3>. QED
            BY <3>1 DEF CompleteWalk!Next
    <2>. QED
        BY <2>1, <2>2, <2>3
<1>8. CASE Create
    BY <1>7, <1>8 DEF Create
<1>9. ASSUME NEW o \in live, Delete(o) PROVE [CompleteWalk!Next]_(CompleteWalk!vars)
    BY <1>7, <1>9 DEF Delete
<1>10. CASE UNCHANGED vars
    BY <1>10 DEF vars, CompleteWalk!vars, Walking
<1>. QED
    BY <1>2, <1>3, <1>4, <1>5, <1>6, <1>8, <1>9, <1>10 DEF Next

(* A walk that ends returns every object that was asked for and in the list *)
(* throughout, each once and in order, and none that never was: however     *)
(* many pages it takes, and whatever is created and deleted meanwhile, with *)
(* every list method and filter whose page requests the API understands     *)
(* (ReturnsCompleteSet).                                                    *)
THEOREM WalkIsComplete == ASSUME Followed PROVE Spec => ReturnsCompleteSet
<1>1. Init => CompleteWalk!Init
    <2>. SUFFICES ASSUME Init PROVE CompleteWalk!Init
        OBVIOUS
    <2>1. Order \in {"asc", "desc"}
        BY WalkInit, Typed DEF WalkInv, IsOrder
    <2>. QED
        BY <2>1 DEF Init, CompleteWalk!Init, Order
<1>2. RefInv /\ [Next]_vars => RefInv'
    BY RefNext
<1>3. RefInv /\ RefInv' /\ [Next]_vars => [CompleteWalk!Next]_(CompleteWalk!vars)
    BY WalkStep
<1>. QED
    BY <1>1, <1>2, <1>3, RefInit, PTL DEF Spec, ReturnsCompleteSet, CompleteWalk!Spec
=============================================================================
