--------------------------- MODULE FlagEvaluation ---------------------------
(***************************************************************************)
(* What a feature flag is worth to a user (feature-flags/evaluator.ts), and *)
(* when the runtime client holds that a flag has changed (hasEntryChanged   *)
(* in feature-flags/runtime-client.ts).  An application that follows flags  *)
(* by 'change' events relies on the second knowing all that the first uses. *)
(***************************************************************************)
EXTENDS Naturals, Sequences, FiniteSets

CONSTANTS
    Missing,    \* no entry for a slug
    NoId        \* a context without a user, or without an organization

Target(ids) == [id : ids, enabled : BOOLEAN]

(* Find and Map differ on a list that names an id twice; the API sends one  *)
(* target per user or organization.                                         *)
Listed(ids, n) ==
    {list \in UNION {[1 .. k -> Target(ids)] : k \in 0 .. n} :
        \A i, j \in DOMAIN list : list[i].id = list[j].id => i = j}

FlagPollEntry(users, organizations, n) ==
    [enabled : BOOLEAN, default_value : BOOLEAN,
     users : Listed(users, n), organizations : Listed(organizations, n)]

(* A list of targets of any length, no id twice, and an entry of such lists. *)
IsTargetList(list) ==
    /\ Len(list) \in Nat /\ DOMAIN list = 1 .. Len(list)
    /\ \A i, j \in DOMAIN list : list[i].id = list[j].id => i = j
IsEntry(entry) ==
    entry = Missing \/ (IsTargetList(entry.users) /\ IsTargetList(entry.organizations))

IsListed(list, id) == \E i \in DOMAIN list : list[i].id = id
Find(list, id) == list[CHOOSE i \in DOMAIN list : list[i].id = id].enabled

IsEnabled(entry, context, defaultValue) ==
    IF entry = Missing THEN defaultValue
    ELSE IF ~entry.enabled THEN FALSE
    ELSE IF context.userId # NoId /\ IsListed(entry.users, context.userId)
    THEN Find(entry.users, context.userId)
    ELSE IF context.organizationId # NoId
            /\ IsListed(entry.organizations, context.organizationId)
    THEN Find(entry.organizations, context.organizationId)
    ELSE entry.default_value

(* Mutant: targets that were added are not looked for. *)
TargetsChangedButAdded(xs, ys) ==
    \E i \in DOMAIN xs : ~ \E j \in DOMAIN ys : ys[j] = xs[i]

(* A target of xs that is not in the map of ys, or with another value there. *)
TargetsChanged(xs, ys) ==
    \/ Len(xs) # Len(ys)
    \/ \E i \in DOMAIN xs :
          ~ (IsListed(ys, xs[i].id) /\ Find(ys, xs[i].id) = xs[i].enabled)

HasEntryChanged(a, b) ==
    IF a = Missing \/ b = Missing THEN a # b
    ELSE \/ a.enabled # b.enabled \/ a.default_value # b.default_value
         \/ TargetsChanged(a.users, b.users)
         \/ TargetsChanged(a.organizations, b.organizations)

(* An entry that is not reported as changed is worth the same as before, to *)
(* every user of every organization.                                        *)
UnchangedMeansAlike(a, b, context, defaultValue) ==
    ~ HasEntryChanged(a, b) =>
        IsEnabled(a, context, defaultValue) = IsEnabled(b, context, defaultValue)
=============================================================================
