------------------------------- MODULE ListWalk -------------------------------
(***************************************************************************)
(* What `AutoPaginatable.autoPagination` promises: a walk over a list that  *)
(* others change meanwhile returns, in the order asked for and each once,   *)
(* every object that was in the list throughout and none that never was.    *)
(***************************************************************************)
EXTENDS Naturals, Sequences, Functions

CONSTANT Object         \* ids of the objects, older ones smaller

VARIABLES
    walk,       \* "idle", "walking", "done" or "failed"
    order,      \* "asc" or "desc", chosen when the walk begins
    steady,     \* objects asked for, in the list since the walk began
    ever,       \* objects asked for, in the list at some time since
    results     \* what the finished walk returned

vars == <<walk, order, steady, ever, results>>

Sorted(seq, ord) ==
    \A i, j \in 1 .. Len(seq) : i < j => IF ord = "asc" THEN seq[i] < seq[j]
                                                        ELSE seq[i] > seq[j]

Init ==
    /\ walk = "idle" /\ order \in {"asc", "desc"}
    /\ steady \subseteq Object /\ ever = steady /\ results = <<>>

(* The list and what is asked of it are anything before a walk. *)
Prepare ==
    /\ walk = "idle" /\ walk' = "idle"
    /\ order' \in {"asc", "desc"}
    /\ steady' \subseteq Object /\ ever' \subseteq Object
    /\ results' = <<>>

Begin ==
    /\ walk # "walking" /\ walk' = "walking"
    /\ UNCHANGED order
    /\ steady' \subseteq Object /\ ever' = steady'
    /\ results' = <<>>

Change ==
    /\ walk = "walking"
    /\ steady' \subseteq steady
    /\ ever \subseteq ever' /\ ever' \subseteq Object
    /\ UNCHANGED <<walk, order, results>>

Return ==
    /\ walk = "walking" /\ walk' = "done"
    /\ steady \subseteq Range(results') /\ Range(results') \subseteq ever
    /\ Sorted(results', order)
    /\ UNCHANGED <<order, steady, ever>>

Fail ==
    /\ walk = "walking" /\ walk' = "failed"
    /\ UNCHANGED <<order, steady, ever, results>>

Next == Prepare \/ Begin \/ Change \/ Return \/ Fail
Spec == Init /\ [][Next]_vars
=============================================================================
