------------------------------ MODULE Pagination ------------------------------
(***************************************************************************)
(* A list method of a resource module, the AutoPaginatable it returns, and  *)
(* autoPagination() walking a list that changes between its pages           *)
(* (common/utils/pagination.ts, fetch-and-deserialize.ts).                  *)
(*                                                                         *)
(* The API is external: ids grow with time, `after` names a position in the *)
(* order asked for whether its object still exists or not, a parameter it   *)
(* does not know is ignored, and `list_metadata.after` is there exactly     *)
(* when more objects follow.                                                *)
(***************************************************************************)
EXTENDS Naturals, Sequences, Functions, Ranking

CONSTANTS
    Object,         \* ids of the objects
    Request,        \* [operation, filter] pairs an application uses
    PageLimit,      \* the 100 of generatePages
    DefaultLimit    \* objects of a page when no limit is asked for

NoCursor == 0       \* an absent `after` or `limit`
NoLimit == 0

ASSUME PaginationAssumption ==
    /\ Object \subseteq Nat \ {NoCursor}
    /\ PageLimit \in Nat \ {0} /\ DefaultLimit \in Nat \ {0}
    /\ Request \subseteq [operation : {"listObjects", "listDirectories", "listOrganizations"},
                          filter : {"none", "search", "camelCase"}]

VARIABLES
    live,       \* objects in the list
    newest,     \* the last id given
    matching,   \* objects the application's filter selects
    request,    \* the list method called and the filter it was given
    options,    \* limit, after and order given to it
    list,       \* data of the first page
    pc,         \* "new", "listed", "requesting", "delaying", "done", "failed"
    cursor,     \* params.after of generatePages
    results,    \* what autoPagination() has collected
    steady,     \* objects asked for, in the list since the walk began
    ever        \* objects asked for, in the list at some time since

store == <<live, newest>>
asked == <<matching, request, options, list>>
walk == <<pc, cursor, results>>
vars == <<store, asked, walk, steady, ever>>

Limit == 0 .. PageLimit
Options == [limit : Limit, after : Object \cup {NoCursor}, order : {"none", "asc", "desc"}]

-----------------------------------------------------------------------------
(* The list endpoint (external). *)

Precedes(order, a, b) == IF order = "asc" THEN a < b ELSE a > b
Beyond(order, after, o) == after = NoCursor \/ Precedes(order, after, o)

(* The objects a query finds, in its order, as many as a page has. *)
Found(query) ==
    {o \in live : /\ query.filter \in {"search", "snake_case"} => o \in matching
                  /\ Beyond(query.order, query.after, o)}

Serve(query) ==
    LET found == Found(query)
        count == Cardinality(found)
        limit == IF query.limit = NoLimit THEN DefaultLimit ELSE query.limit
        size == IF limit < count THEN limit ELSE count
        data == [i \in 1 .. size |->
                    Nth(found, IF query.order = "asc" THEN i ELSE count + 1 - i)]
    IN [data |-> data, after |-> IF limit < count THEN data[size] ELSE NoCursor]

-----------------------------------------------------------------------------
(* The parameters of a request. *)

(* setDefaultOptions *)
SetDefaultOptions(order) == IF order = "none" THEN "desc" ELSE order

(* serialize...Options: an option whose name on the wire differs.           *)
Serialize(filter) == IF filter = "camelCase" THEN "snake_case" ELSE filter

(* The first request of listDirectories and listObjects is serialised;      *)
(* options of listOrganizations have their wire names.                      *)
FirstFilter(r) == IF r.operation = "listOrganizations" THEN r.filter ELSE Serialize(r.filter)

(* Mutant: the walk is given the page options alone. *)
WalkFilterDropped(r) == "none"

(* The options handed to AutoPaginatable, which its page requests repeat:   *)
(* listObjects hands over the ones it was called with.                      *)
WalkFilter(r) == IF r.operation = "listDirectories" THEN Serialize(r.filter) ELSE r.filter

FirstQuery(r, o) ==
    [filter |-> FirstFilter(r), limit |-> o.limit, after |-> o.after,
     order |-> SetDefaultOptions(o.order)]

(* Mutant: `...this.options` left out of the page request. *)
PageQueryNoOptions ==
    [filter |-> "none", limit |-> PageLimit, after |-> cursor,
     order |-> SetDefaultOptions("none")]

(* generatePages' call: { ...this.options, limit: 100, after }.             *)
PageQuery ==
    [filter |-> WalkFilter(request), limit |-> PageLimit, after |-> cursor,
     order |-> SetDefaultOptions(options.order)]

-----------------------------------------------------------------------------

Init ==
    /\ newest \in Object \cup {0}
    /\ live \in SUBSET {o \in Object : o <= newest}
    /\ matching \in SUBSET Object
    /\ request \in Request
    /\ request.filter = "none" => matching = Object
    /\ options \in Options
    /\ options.after <= newest
    /\ list = <<>> /\ pc = "new" /\ cursor = NoCursor /\ results = <<>>
    /\ steady = {} /\ ever = {}

(* The list method: its first page is `data` of what it returns. *)
List ==
    /\ pc = "new"
    /\ list' = Serve(FirstQuery(request, options)).data
    /\ pc' = "listed"
    /\ UNCHANGED <<store, matching, request, options, cursor, results, steady, ever>>

Asked(o) == o \in matching /\ Beyond(SetDefaultOptions(options.order), options.after, o)

(* Mutant: the walk starts where the first page ended. *)
AutoPaginationFromList ==
    /\ pc \in {"listed", "done", "failed"}
    /\ IF options.limit # NoLimit
       THEN pc' = "done" /\ results' = list /\ UNCHANGED <<cursor, steady, ever>>
       ELSE /\ pc' = "requesting" /\ results' = <<>>
            /\ cursor' = IF list = <<>> THEN options.after ELSE list[Len(list)]
            /\ steady' = {o \in live : Asked(o)} /\ ever' = steady'
    /\ UNCHANGED <<store, asked>>

(* autoPagination(), also called again: with a limit the first page is      *)
(* returned as it was, without one the walk starts over at options.after.   *)
AutoPagination ==
    /\ pc \in {"listed", "done", "failed"}
    /\ IF options.limit # NoLimit
       THEN pc' = "done" /\ results' = list /\ UNCHANGED <<cursor, steady, ever>>
       ELSE /\ pc' = "requesting" /\ results' = <<>>
            /\ cursor' = options.after
            /\ steady' = {o \in live : Asked(o)} /\ ever' = steady'
    /\ UNCHANGED <<store, asked>>

(* Mutant: an empty page is taken for one that has a next.                  *)
PageArrivesAfterEmpty ==
    /\ pc = "requesting"
    /\ LET page == Serve(PageQuery)
       IN /\ results' = results \o page.data
          /\ cursor' = IF page.after # NoCursor THEN page.after ELSE cursor
          /\ pc' = IF page.after # NoCursor \/ page.data = <<>> THEN "delaying" ELSE "done"
    /\ UNCHANGED <<store, asked, steady, ever>>

(* Mutant: the next page is asked for whether there is one or not. *)
PageArrivesAlwaysMore ==
    /\ pc = "requesting"
    /\ LET page == Serve(PageQuery)
       IN /\ results' = results \o page.data
          /\ cursor' = page.after
          /\ pc' = "delaying"
    /\ UNCHANGED <<store, asked, steady, ever>>

(* generatePages: a page is collected, and the next awaited only when       *)
(* list_metadata names one.                                                 *)
PageArrives ==
    /\ pc = "requesting"
    /\ LET page == Serve(PageQuery)
       IN /\ results' = results \o page.data
          /\ cursor' = IF page.after # NoCursor THEN page.after ELSE cursor
          /\ pc' = IF page.after # NoCursor THEN "delaying" ELSE "done"
    /\ UNCHANGED <<store, asked, steady, ever>>

(* apiCall rejects: the generator ends and the pages collected are lost.    *)
PageFails ==
    /\ pc = "requesting"
    /\ pc' = "failed"
    /\ UNCHANGED <<store, asked, cursor, results, steady, ever>>

(* The 350 ms between two pages. *)
Delay ==
    /\ pc = "delaying"
    /\ pc' = "requesting"
    /\ UNCHANGED <<store, asked, cursor, results, steady, ever>>

-----------------------------------------------------------------------------
(* Others change the list (external). *)

Walking == pc \in {"requesting", "delaying"}

Create ==
    /\ newest + 1 \in Object
    /\ newest' = newest + 1
    /\ live' = live \cup {newest + 1}
    /\ ever' = IF Walking /\ Asked(newest + 1) THEN ever \cup {newest + 1} ELSE ever
    /\ UNCHANGED <<asked, walk, steady>>

Delete(o) ==
    /\ o \in live
    /\ live' = live \ {o}
    /\ steady' = IF Walking THEN steady \ {o} ELSE steady
    /\ UNCHANGED <<newest, asked, walk, ever>>

Next ==
    \/ List \/ AutoPagination \/ PageArrives \/ PageFails \/ Delay
    \/ Create \/ \E o \in live : Delete(o)

Spec == Init /\ [][Next]_vars

(* Requests are answered or fail (FetchRetry), and timers fire. *)
SpecFair == Spec /\ WF_vars(PageArrives \/ PageFails) /\ WF_vars(Delay)

-----------------------------------------------------------------------------

(* A page is awaited only with the cursor of the one before it. *)
TypeOK ==
    /\ newest \in Object \cup {0} /\ live \subseteq {o \in Object : o <= newest}
    /\ matching \subseteq Object /\ request \in Request /\ options \in Options
    /\ list \in Seq(Object) /\ results \in Seq(Object)
    /\ pc \in {"new", "listed", "requesting", "delaying", "done", "failed"}
    /\ cursor \in Object \cup {NoCursor}
    /\ pc = "delaying" => cursor \in Object
    /\ steady \subseteq ever /\ ever \subseteq Object

(* While pages are still to come, nothing that has been in the list since   *)
(* the walk began lies behind the cursor uncollected, however objects are   *)
(* created and deleted between the pages, the cursor's own included.        *)
NothingSkipped ==
    Walking => \A o \in steady :
        \/ Beyond(SetDefaultOptions(options.order), cursor, o)
        \/ o \in Range(results)

(* Collected pages follow each other in the order asked for, so no object   *)
(* is collected twice.                                                      *)
InOrder ==
    \A i, j \in 1 .. Len(results) :
        i < j => Precedes(SetDefaultOptions(options.order), results[i], results[j])

(* "Automatically paginates over the list of results, returning the         *)
(* complete data set" (pagination.ts:46), of a list others are changing;    *)
(* with a limit there is no walk.                                           *)
CompleteWalk == INSTANCE ListWalk WITH
    walk <- IF options.limit # NoLimit \/ pc \in {"new", "listed"} THEN "idle"
            ELSE IF Walking THEN "walking" ELSE pc,
    order <- SetDefaultOptions(options.order),
    results <- IF options.limit = NoLimit /\ pc = "done" THEN results ELSE <<>>
ReturnsCompleteSet == CompleteWalk!Spec

(* A walk ends: every page asked for is answered or fails, and ids beyond   *)
(* the cursor run out unless objects are created for ever.                  *)
WalkEnds == pc = "requesting" ~> pc \in {"done", "failed"}

(* What a walk returns is what the filter of the list method selects.       *)
WalkFollowsFilter == pc = "done" => Range(results) \subseteq matching
=============================================================================
