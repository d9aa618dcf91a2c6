-------------------------- MODULE AlgorithmsProofs --------------------------
(***************************************************************************)
(* What holds of the calculations for every input: lists of targets of any  *)
(* length, deliveries of any content, age and clock.                        *)
(***************************************************************************)
EXTENDS Algorithms, RankingProofs, SequenceTheorems

(* In a list without repetitions, Find is the target with the id. *)
LEMMA FindsTheTarget ==
    ASSUME NEW list, IsTargetList(list), NEW i \in DOMAIN list
    PROVE IsListed(list, list[i].id) /\ Find(list, list[i].id) = list[i].enabled
<1>. DEFINE j == CHOOSE k \in DOMAIN list : list[k].id = list[i].id
<1>1. j \in DOMAIN list /\ list[j].id = list[i].id
    OBVIOUS
<1>2. j = i
    BY <1>1 DEF IsTargetList
<1>. QED
    BY <1>2 DEF IsListed, Find

AllListed(xs, ys) == \A i \in DOMAIN xs : IsListed(ys, xs[i].id)

(* Two lists of one length, the first within the second, name the same ids: *)
(* with no id twice there is no room for another.                           *)
LEMMA NoRoomForAnother ==
    ASSUME NEW xs, NEW ys, IsTargetList(xs), IsTargetList(ys), Len(xs) = Len(ys),
           AllListed(xs, ys)
    PROVE AllListed(ys, xs)
<1>. SUFFICES ASSUME NEW j \in DOMAIN ys PROVE \E i \in DOMAIN xs : xs[i].id = ys[j].id
    BY DEF AllListed, IsListed
<1>. DEFINE S == DOMAIN xs
            f == [i \in S |-> CHOOSE k \in DOMAIN ys : ys[k].id = xs[i].id]
<1>1. \A i \in S : f[i] \in DOMAIN ys /\ ys[f[i]].id = xs[i].id
    BY DEF AllListed, IsListed
<1>2. S = 1 .. Len(xs) /\ DOMAIN ys = S /\ Len(xs) \in Nat
    BY DEF IsTargetList
<1>3. IsFiniteSet(S)
    BY <1>2, FS_Interval
<1>4. f \in [S -> S]
    BY <1>1, <1>2
<1>5. \A i, k \in S : f[i] = f[k] => i = k
    <2>. SUFFICES ASSUME NEW i \in S, NEW k \in S, f[i] = f[k] PROVE i = k
        OBVIOUS
    <2>1. xs[i].id = xs[k].id
        BY <1>1
    <2>. QED
        BY <2>1 DEF IsTargetList
<1>6. f \in Injection(S, S)
    BY <1>4, <1>5 DEF Injection, IsInjective
<1>7. f \in Surjection(S, S)
    BY <1>3, <1>6, FS_Injection
<1>8. PICK i \in S : f[i] = j
    BY <1>2, <1>7 DEF Surjection
<1>. QED
    BY <1>1, <1>8

(* Lists in which isSameTargets sees no change target alike.                *)
LEMMA SameTargets ==
    ASSUME NEW xs, NEW ys, IsTargetList(xs), IsTargetList(ys), ~TargetsChanged(xs, ys), NEW id
    PROVE /\ IsListed(xs, id) <=> IsListed(ys, id)
          /\ IsListed(xs, id) => Find(xs, id) = Find(ys, id)
<1>1. /\ Len(xs) = Len(ys)
      /\ \A i \in DOMAIN xs : IsListed(ys, xs[i].id) /\ Find(ys, xs[i].id) = xs[i].enabled
    BY DEF TargetsChanged
<1>2. IsListed(xs, id) => IsListed(ys, id) /\ Find(xs, id) = Find(ys, id)
    <2>. SUFFICES ASSUME NEW i \in DOMAIN xs, xs[i].id = id
                  PROVE IsListed(ys, id) /\ Find(xs, id) = Find(ys, id)
        BY DEF IsListed
    <2>. QED
        BY <1>1, FindsTheTarget
<1>3. IsListed(ys, id) => IsListed(xs, id)
    <2>. SUFFICES ASSUME NEW j \in DOMAIN ys, ys[j].id = id PROVE IsListed(xs, id)
        BY DEF IsListed
    <2>1. AllListed(xs, ys) /\ Len(xs) = Len(ys)
        BY <1>1 DEF AllListed
    <2>2. AllListed(ys, xs)
        BY <2>1, NoRoomForAnother
    <2>. QED
        BY <2>2 DEF AllListed
<1>. QED
    BY <1>2, <1>3

(* A flag that is worth something else to some user of some organization    *)
(* is reported by a 'change' event (ChangesAreReported): what               *)
(* hasEntryChanged does not tell apart, isEnabled does not either.          *)
THEOREM NoChangeIsMissed == Spec => []ChangesAreReported
<1>. DEFINE Inv == input.of = "flag" => input.previous \in Entries /\ input.current \in Entries
<1>1. Init => Inv
    BY DEF Init, None
<1>2. Inv /\ [Next]_input => Inv'
    BY DEF Next, CompareEntries, TakeDelivery, Respond, EncodeNumber, Seal, FailAttempt,
        EndPoll, Forget, None
<1>3. Inv => ChangesAreReported
    <2>. SUFFICES ASSUME NEW a \in Entries, NEW b \in Entries, NEW context, NEW defaultValue
                  PROVE UnchangedMeansAlike(a, b, context, defaultValue)
        BY DEF ChangesAreReported
    <2>1. IsEntry(a) /\ IsEntry(b)
        BY AlgorithmsAssumption
    <2>2. CASE a = Missing \/ b = Missing
        BY <2>2 DEF UnchangedMeansAlike, HasEntryChanged
    <2>3. CASE a # Missing /\ b # Missing
        <3>. SUFFICES ASSUME ~HasEntryChanged(a, b)
                      PROVE IsEnabled(a, context, defaultValue)
                                = IsEnabled(b, context, defaultValue)
            BY DEF UnchangedMeansAlike
        <3>1. /\ a.enabled = b.enabled /\ a.default_value = b.default_value
              /\ ~TargetsChanged(a.users, b.users)
              /\ ~TargetsChanged(a.organizations, b.organizations)
            BY <2>3 DEF HasEntryChanged
        <3>2. /\ IsTargetList(a.users) /\ IsTargetList(b.users)
              /\ IsTargetList(a.organizations) /\ IsTargetList(b.organizations)
            BY <2>1, <2>3 DEF IsEntry
        <3>3. /\ IsListed(a.users, context.userId) <=> IsListed(b.users, context.userId)
              /\ IsListed(a.users, context.userId)
                    => Find(a.users, context.userId) = Find(b.users, context.userId)
            BY <3>1, <3>2, SameTargets
        <3>4. /\ IsListed(a.organizations, context.organizationId)
                    <=> IsListed(b.organizations, context.organizationId)
              /\ IsListed(a.organizations, context.organizationId)
                    => Find(a.organizations, context.organizationId)
                         = Find(b.organizations, context.organizationId)
            BY <3>1, <3>2, SameTargets
        <3>. QED
            BY <2>3, <3>1, <3>3, <3>4 DEF IsEnabled
    <2>. QED
        BY <2>2, <2>3
<1>. QED
    BY <1>1, <1>2, <1>3, PTL DEF Spec

(* So much for one delivery.                                                *)
LEMMA DeliveryIsAuthentic ==
    ASSUME NEW d, IsDelivery(d)
    PROVE IsAuthentic(d)
<1>. DEFINE now == d.timestamp + d.age
            result == VerifyHeader(Received(d), HeaderOf(d), d.secret, now, Tolerance(d))
<1>1. Receive(d).error \in {"none", "SyntaxError"} => result = "verified"
    BY DEF Receive, ConstructEvent, ConstructAction, Verified, VerifyHeader,
        GetTimestampAndSignatureHash, Tolerance, HeaderOf
<1>. SUFFICES ASSUME result = "verified"
              PROVE /\ d.secret = d.signedWith
                    /\ d.received.content = d.sent.content
                    /\ d.age <= Tolerance(d)
    BY <1>1 DEF IsAuthentic
<1>2. /\ ~TooOld(d.timestamp, now, Tolerance(d))
      /\ Mac(d.signedWith, d.timestamp, d.sent)
            = Mac(d.secret, d.timestamp, DecodePayloadToString(Received(d)))
    BY DEF VerifyHeader, GetTimestampAndSignatureHash, HeaderOf, ComputeSignature
<1>3. d.age <= Tolerance(d)
    BY <1>2 DEF TooOld, IsDelivery, Tolerance, WEBHOOK_TOLERANCE, ACTION_TOLERANCE
<1>4. d.signedWith = d.secret /\ d.sent = DecodePayloadToString(Received(d))
    BY <1>2 DEF Mac
<1>5. DecodePayloadToString(Received(d)).content = d.received.content
    BY DEF DecodePayloadToString, Received, Payload, Text
<1>. QED
    BY <1>3, <1>4, <1>5

(* What constructEvent and constructAction hand over, or hold to be no      *)
(* JSON, has the content the API signed with the application's own secret,  *)
(* and has it in time (AcceptedIsAuthentic).                                *)
THEOREM OnlyAuthenticIsAccepted == Spec => []AcceptedIsAuthentic
<1>. DEFINE Inv == input.of = "delivery" => input.delivery \in DeliveryInputs
<1>1. Init => Inv
    BY DEF Init, None
<1>2. Inv /\ [Next]_input => Inv'
    BY DEF Next, CompareEntries, TakeDelivery, Respond, EncodeNumber, Seal, FailAttempt,
        EndPoll, Forget, None
<1>3. Inv => AcceptedIsAuthentic
    BY AlgorithmsAssumption, DeliveryIsAuthentic DEF AcceptedIsAuthentic
<1>. QED
    BY <1>1, <1>2, <1>3, PTL DEF Spec

(* What verifies is parsed: all that can go wrong after is a BOM.           *)
LEMMA GenuineVerifies ==
    ASSUME NEW d, IsDelivery(d), Genuine(d)
    PROVE LET now == d.timestamp + d.age
          IN /\ VerifyHeader(Received(d), HeaderOf(d), d.secret, now, Tolerance(d)) = "verified"
             /\ ParseVerifiedPayload(Received(d)) =
                   IF d.sent.spelling = "bom" THEN [error |-> "SyntaxError"]
                   ELSE [error |-> "none", content |-> d.sent.content]
<1>. DEFINE now == d.timestamp + d.age
<1>1. /\ d.secret = d.signedWith /\ d.received = d.sent /\ d.shape = "whole"
      /\ d.form = "object" => d.sent.spelling = "canonical"
    BY DEF Genuine
<1>2. /\ d.sent = Text(d.sent.content, d.sent.spelling)
      /\ d.timestamp \in Int /\ d.age \in Int /\ d.age <= Tolerance(d)
    BY DEF IsDelivery, IsText, Genuine
<1>3. DecodePayloadToString(Received(d)) = d.sent
    BY <1>1, <1>2 DEF DecodePayloadToString, Received, Payload
<1>4. GetTimestampAndSignatureHash(HeaderOf(d)) = "found"
    BY <1>1 DEF GetTimestampAndSignatureHash, HeaderOf
<1>5. ~TooOld(d.timestamp, now, Tolerance(d))
    BY <1>2 DEF TooOld, Tolerance, WEBHOOK_TOLERANCE, ACTION_TOLERANCE
<1>6. HeaderOf(d).mac = ComputeSignature(d.timestamp, Received(d), d.secret)
    BY <1>1, <1>3 DEF HeaderOf, ComputeSignature
<1>7. VerifyHeader(Received(d), HeaderOf(d), d.secret, now, Tolerance(d)) = "verified"
    <2>1. HeaderOf(d).timestamp = d.timestamp
        BY DEF HeaderOf
    <2>. QED
        BY <1>4, <1>5, <1>6, <2>1 DEF VerifyHeader
<1>8. ParseVerifiedPayload(Received(d)) =
          IF d.sent.spelling = "bom" THEN [error |-> "SyntaxError"]
          ELSE [error |-> "none", content |-> d.sent.content]
    <2>1. Received(d).form = d.form /\ Received(d).text = d.sent
        BY <1>1 DEF Received, Payload
    <2>. QED
        BY <1>1, <1>3, <2>1 DEF ParseVerifiedPayload
<1>. QED
    BY <1>7, <1>8

(* Who gets a signed response can verify it.                                *)
LEMMA ResponsesAreAccepted ==
    ASSUME NEW data, NEW now \in Int, NEW secret
    PROVE ResponseIsAccepted(data, now, secret)
<1>. DEFINE response == SignResponse(data, now, secret)
            payload == response.payload
            header == [shape |-> "whole", timestamp |-> now, mac |-> response.signature]
            sent == Payload("string", Text(payload, "canonical"))
<1>1. /\ payload.error_message = IF data.verdict = "Deny" THEN data.errorMessage ELSE ""
      /\ response.signature =
            ComputeSignature(now, Payload("object", Text(payload, "canonical")), secret)
    BY DEF SignResponse
<1>. HIDE DEF payload
<1>2. DecodePayloadToString(sent) = Text(payload, "canonical")
    BY DEF DecodePayloadToString, Payload
<1>3. DecodePayloadToString(Payload("object", Text(payload, "canonical")))
          = Text(payload, "canonical")
    BY DEF DecodePayloadToString, Payload, Text
<1>4. header.mac = ComputeSignature(header.timestamp, sent, secret)
    BY <1>1, <1>2, <1>3 DEF ComputeSignature
<1>5. GetTimestampAndSignatureHash(header) = "found" /\ header.timestamp = now
    BY DEF GetTimestampAndSignatureHash
<1>6. ~TooOld(now, now, ACTION_TOLERANCE)
    BY DEF TooOld, ACTION_TOLERANCE
<1>. HIDE DEF header, sent
<1>7. VerifyHeader(sent, header, secret, now, ACTION_TOLERANCE) = "verified"
    BY <1>4, <1>5, <1>6 DEF VerifyHeader
<1>. QED
    BY <1>1, <1>7 DEF ResponseIsAccepted, header, sent, payload

(* A genuine delivery is accepted up to the last millisecond of the         *)
(* tolerance, whatever is in it and however it is handed over, unless a     *)
(* byte order mark makes it no JSON; and every signed response is accepted  *)
(* by who gets it (GenuineIsAccepted).                                      *)
THEOREM EveryGenuineIsAccepted == Spec => []GenuineIsAccepted
<1>. DEFINE Inv == input.of = "delivery" => input.delivery \in DeliveryInputs
<1>1. Init => Inv
    BY DEF Init, None
<1>2. Inv /\ [Next]_input => Inv'
    BY DEF Next, CompareEntries, TakeDelivery, Respond, EncodeNumber, Seal, FailAttempt,
        EndPoll, Forget, None
<1>3. Inv => GenuineIsAccepted
    <2>1. ASSUME NEW d \in DeliveryInputs PROVE IsAccepted(d)
        <3>. SUFFICES ASSUME Genuine(d)
                      PROVE Receive(d).error =
                                IF d.sent.spelling = "bom" THEN "SyntaxError" ELSE "none"
            BY DEF IsAccepted
        <3>. DEFINE now == d.timestamp + d.age
                    verified == Verified(Received(d), HeaderOf(d), d.secret, now, Tolerance(d))
        <3>1. IsDelivery(d)
            BY AlgorithmsAssumption
        <3>2. verified = IF d.sent.spelling = "bom" THEN [error |-> "SyntaxError"]
                         ELSE [error |-> "none", content |-> d.sent.content]
            BY <3>1, GenuineVerifies DEF Verified
        <3>3. Receive(d).error = verified.error
            BY <3>2 DEF Receive, ConstructEvent, ConstructAction, Tolerance
        <3>. QED
            BY <3>2, <3>3
    <2>2. ASSUME NEW r PROVE ResponseIsAccepted(r, 1000000, "mine")
        BY ResponsesAreAccepted
    <2>. QED
        BY <2>1, <2>2 DEF GenuineIsAccepted
<1>. QED
    BY <1>1, <1>2, <1>3, PTL DEF Spec

-----------------------------------------------------------------------------
(* Events.  A table says one thing of an event: within a table, no event    *)
(* has two types, and no two tables share a family.                         *)

(* What is in a table of names.                                             *)
LEMMA TypedMembers ==
    ASSUME NEW f, NEW verbs, NEW type, NEW e \in Typed(Names(f, verbs), type)
    PROVE e.event[1] = f /\ e.event[2] \in verbs /\ e.type = type
BY DEF Typed, Names

IsTable(table, families) ==
    /\ \A a, b \in table : a.event = b.event => a.type = b.type
    /\ \A a \in table : a.event[1] \in families /\ a.type # "Record"

AuthenticationFamilies == {"authentication"}
LEMMA AuthenticationTable == IsTable(AuthenticationCases, AuthenticationFamilies)
<1>1. ASSUME NEW a \in AuthenticationCases, NEW b \in AuthenticationCases, a.event = b.event
      PROVE a.type = b.type
    BY <1>1, TypedMembers DEF AuthenticationCases, SignInVerbs
<1>2. \A a \in AuthenticationCases : a.event[1] \in AuthenticationFamilies /\ a.type # "Record"
    BY TypedMembers DEF AuthenticationCases, AuthenticationFamilies, SignInVerbs
<1>. QED
    BY <1>1, <1>2 DEF IsTable

DirectoryFamilies == {"connection", "dsync", "dsync.group", "dsync.user"}
LEMMA DirectoryTable == IsTable(DirectoryCases, DirectoryFamilies)
<1>1. ASSUME NEW a \in DirectoryCases, NEW b \in DirectoryCases, a.event = b.event
      PROVE a.type = b.type
    BY <1>1, TypedMembers DEF DirectoryCases
<1>2. \A a \in DirectoryCases : a.event[1] \in DirectoryFamilies /\ a.type # "Record"
    BY TypedMembers DEF DirectoryCases, DirectoryFamilies
<1>. QED
    BY <1>1, <1>2 DEF IsTable

UserFamilies == {"email_verification", "invitation", "magic_auth", "password_reset",
                          "user", "organization_membership"}
LEMMA UserTable == IsTable(UserCases, UserFamilies)
<1>1. ASSUME NEW a \in UserCases, NEW b \in UserCases, a.event = b.event
      PROVE a.type = b.type
    BY <1>1, TypedMembers DEF UserCases, CRUD
<1>2. \A a \in UserCases : a.event[1] \in UserFamilies /\ a.type # "Record"
    BY TypedMembers DEF UserCases, UserFamilies, CRUD
<1>. QED
    BY <1>1, <1>2 DEF IsTable

OrganizationFamilies == {"role", "organization_role", "permission", "session", "organization"}
LEMMA OrganizationTable == IsTable(OrganizationCases, OrganizationFamilies)
<1>1. ASSUME NEW a \in OrganizationCases, NEW b \in OrganizationCases, a.event = b.event
      PROVE a.type = b.type
    BY <1>1, TypedMembers DEF OrganizationCases, CRUD
<1>2. \A a \in OrganizationCases : a.event[1] \in OrganizationFamilies /\ a.type # "Record"
    BY TypedMembers DEF OrganizationCases, OrganizationFamilies, CRUD
<1>. QED
    BY <1>1, <1>2 DEF IsTable

ResourceFamilies == {"organization_domain", "api_key", "flag", "group"}
LEMMA ResourceTable == IsTable(ResourceCases, ResourceFamilies)
<1>1. ASSUME NEW a \in ResourceCases, NEW b \in ResourceCases, a.event = b.event
      PROVE a.type = b.type
    BY <1>1, TypedMembers DEF ResourceCases, CRUD
<1>2. \A a \in ResourceCases : a.event[1] \in ResourceFamilies /\ a.type # "Record"
    BY TypedMembers DEF ResourceCases, ResourceFamilies, CRUD
<1>. QED
    BY <1>1, <1>2 DEF IsTable

VaultFamilies == {"vault.data", "vault.names", "vault.metadata", "vault.kek", "vault.dek",
                          "vault.byok_key"}
LEMMA VaultTable == IsTable(VaultCases, VaultFamilies)
<1>1. ASSUME NEW a \in VaultCases, NEW b \in VaultCases, a.event = b.event
      PROVE a.type = b.type
    BY <1>1, TypedMembers DEF VaultCases
<1>2. \A a \in VaultCases : a.event[1] \in VaultFamilies /\ a.type # "Record"
    BY TypedMembers DEF VaultCases, VaultFamilies
<1>. QED
    BY <1>1, <1>2 DEF IsTable

(* The switch has a case for every declared event and for no other, and     *)
(* deserializes it to the declared type.                                    *)
LEMMA CasesAreDeclared == Cases = Declared
<1>1. AuthenticationCases = DeclaredAuthenticationEvents
    BY DEF AuthenticationCases, DeclaredAuthenticationEvents
<1>2. DirectoryCases = DeclaredDirectoryEvents
    BY DEF DirectoryCases, DeclaredDirectoryEvents
<1>3. UserCases = DeclaredUserEvents
    BY DEF UserCases, DeclaredUserEvents
<1>4. OrganizationCases = DeclaredOrganizationEvents
    BY DEF OrganizationCases, DeclaredOrganizationEvents
<1>5. ResourceCases = DeclaredResourceEvents
    BY DEF ResourceCases, DeclaredResourceEvents
<1>6. VaultCases = DeclaredVaultEvents
    BY DEF VaultCases, DeclaredVaultEvents
<1>. QED
    BY <1>1, <1>2, <1>3, <1>4, <1>5, <1>6 DEF Cases, Declared

Families ==
    AuthenticationFamilies \cup DirectoryFamilies \cup UserFamilies
    \cup OrganizationFamilies \cup ResourceFamilies \cup VaultFamilies

LEMMA TablesAreOne ==
    ASSUME NEW s, NEW t, NEW fs, NEW ft, IsTable(s, fs), IsTable(t, ft), fs \cap ft = {}
    PROVE IsTable(s \cup t, fs \cup ft)
<1>1. \A a \in s, b \in t : a.event # b.event
    BY DEF IsTable
<1>. QED
    BY <1>1 DEF IsTable

LEMMA CasesAreATable == IsTable(Cases, Families)
<1>. DEFINE s1 == AuthenticationCases \cup DirectoryCases
            f1 == AuthenticationFamilies \cup DirectoryFamilies
            s2 == s1 \cup UserCases
            f2 == f1 \cup UserFamilies
            s3 == s2 \cup OrganizationCases
            f3 == f2 \cup OrganizationFamilies
            s4 == s3 \cup ResourceCases
            f4 == f3 \cup ResourceFamilies
<1>1. /\ AuthenticationFamilies \cap DirectoryFamilies = {}
      /\ f1 \cap UserFamilies = {} /\ f2 \cap OrganizationFamilies = {}
      /\ f3 \cap ResourceFamilies = {} /\ f4 \cap VaultFamilies = {}
    BY DEF AuthenticationFamilies, DirectoryFamilies, UserFamilies, OrganizationFamilies,
        ResourceFamilies, VaultFamilies
<1>2. Cases = s4 \cup VaultCases /\ Families = f4 \cup VaultFamilies
    BY DEF Cases, Families
<1>3. IsTable(s1, f1)
    BY <1>1, AuthenticationTable, DirectoryTable, TablesAreOne
<1>. HIDE DEF s1, f1
<1>4. IsTable(s2, f2)
    BY <1>1, <1>3, UserTable, TablesAreOne
<1>. HIDE DEF s2, f2
<1>5. IsTable(s3, f3)
    BY <1>1, <1>4, OrganizationTable, TablesAreOne
<1>. HIDE DEF s3, f3
<1>6. IsTable(s4, f4)
    BY <1>1, <1>5, ResourceTable, TablesAreOne
<1>. HIDE DEF s4, f4
<1>. QED
    BY <1>1, <1>2, <1>6, VaultTable, TablesAreOne

(* A declared event has its own deserializer.                               *)
LEMMA KnownEvents ==
    ASSUME NEW e \in Declared
    PROVE /\ e.type # "Record"
          /\ DeserializeEvent(e.event, [type |-> e.type, form |-> "wire"])
                = [type |-> e.type, form |-> "app"]
<1>. DEFINE c == CHOOSE k \in Cases : k.event = e.event
<1>1. e \in Cases
    BY CasesAreDeclared
<1>2. c \in Cases /\ c.event = e.event
    BY <1>1
<1>. HIDE DEF c
<1>3. c.type = e.type /\ e.type # "Record"
    BY <1>1, <1>2, CasesAreATable DEF IsTable
<1>4. DeserializeEvent(e.event, [type |-> e.type, form |-> "wire"])
          = Deserialize(c.type, [type |-> e.type, form |-> "wire"])
    BY <1>1 DEF DeserializeEvent, c
<1>. QED
    BY <1>3, <1>4 DEF Deserialize

(* An event of no table is passed on as it came.                            *)
LEMMA NewEvents ==
    ASSUME NEW e \in UnknownEvents, NEW data
    PROVE e.type = "Record" /\ DeserializeEvent(e.event, data) = data
<1>1. e.event[1] = "later" /\ e.type = "Record"
    BY TypedMembers DEF UnknownEvents
<1>2. "later" \notin Families
    BY DEF Families, AuthenticationFamilies, DirectoryFamilies, UserFamilies,
        OrganizationFamilies, ResourceFamilies, VaultFamilies
<1>3. ~ \E c \in Cases : c.event = e.event
    BY <1>1, <1>2, CasesAreATable DEF IsTable
<1>. QED
    BY <1>1, <1>3 DEF DeserializeEvent

(* What constructEvent and constructAction hand over has the form declared  *)
(* for its name, whatever was signed and however it was handed over: an     *)
(* event newer than the SDK comes as the API sent it, a newer action not at *)
(* all (DeliveredAsDeclared).                                               *)
THEOREM AllIsDeliveredAsDeclared == Spec => []DeliveredAsDeclared
<1>. DEFINE Inv == input.of = "delivery" => input.delivery \in DeliveryInputs
<1>1. Init => Inv
    BY DEF Init, None
<1>2. Inv /\ [Next]_input => Inv'
    BY DEF Next, CompareEntries, TakeDelivery, Respond, EncodeNumber, Seal, FailAttempt,
        EndPoll, Forget, None
<1>3. Inv => DeliveredAsDeclared
    <2>. SUFFICES ASSUME NEW d \in DeliveryInputs PROVE IsDeclared(d)
        BY DEF DeliveredAsDeclared
    <2>. SUFFICES ASSUME Receive(d).error = "none"
                  PROVE Receive(d).data =
                          LET data == d.sent.content.data
                          IN IF data.type # "Record" THEN [data EXCEPT !.form = "app"]
                             ELSE IF d.kind = "webhook" THEN data ELSE Undefined
        BY DEF IsDeclared
    <2>1. IsDelivery(d)
        BY AlgorithmsAssumption
    <2>. DEFINE content == d.sent.content
                verified == Verified(Received(d), HeaderOf(d), d.secret,
                                     d.timestamp + d.age, Tolerance(d))
    <2>2. verified.error = "none" /\ verified.content = content
        <3>1. IsAuthentic(d)
            BY <2>1, DeliveryIsAuthentic
        <3>2. d.received.content = content
            BY <3>1 DEF IsAuthentic
        <3>3. verified.error = "none"
            BY DEF Receive, ConstructEvent, ConstructAction, Tolerance
        <3>4. verified.content = d.received.content
            BY <3>3 DEF Verified, ParseVerifiedPayload, VerifyHeader,
                GetTimestampAndSignatureHash, Received, Payload
        <3>. QED
            BY <3>2, <3>3, <3>4
    <2>3. CASE d.kind = "webhook"
        <3>1. Receive(d).data = DeserializeEvent(content.event, content.data)
            BY <2>2, <2>3 DEF Receive, ConstructEvent, Tolerance
        <3>2. PICK e \in Declared \cup UnknownEvents : content = Content(e.event, e.type)
            BY <2>1, <2>3 DEF IsDelivery, Contents, WebhookContents
        <3>3. content.event = e.event /\ content.data = [type |-> e.type, form |-> "wire"]
            BY <3>2 DEF Content
        <3>. HIDE DEF content
        <3>4. CASE e \in Declared
            BY <3>1, <3>3, <3>4, KnownEvents DEF content
        <3>5. CASE e \in UnknownEvents
            BY <2>3, <3>1, <3>3, <3>5, NewEvents DEF content
        <3>. QED
            BY <3>2, <3>4, <3>5
    <2>4. CASE d.kind # "webhook"
        <3>1. Receive(d).data = DeserializeAction(content.event, content.data)
            BY <2>2, <2>4 DEF Receive, ConstructAction, Tolerance
        <3>2. content \in ActionContents
            BY <2>1, <2>4 DEF IsDelivery, Contents
        <3>3. CASE content = Content("later", "Record")
            BY <2>4, <3>1, <3>3 DEF Content, DeserializeAction, ActionObject
        <3>4. CASE content # Content("later", "Record")
            <4>1. PICK a \in ActionObject : content = Content(a, a)
                BY <3>2, <3>4 DEF ActionContents
            <4>2. /\ content.event = a /\ content.data = [type |-> a, form |-> "wire"]
                  /\ a # "Record"
                BY <4>1 DEF Content, ActionObject
            <4>. QED
                BY <3>1, <4>2 DEF DeserializeAction, Deserialize
        <3>. QED
            BY <3>3, <3>4
    <2>. QED
        BY <2>3, <2>4
<1>. QED
    BY <1>1, <1>2, <1>3, PTL DEF Spec

-----------------------------------------------------------------------------
(* What recursive functions are, and what holds along them, without the     *)
(* induction theorems, which take an operator: the least counterexample.    *)

(* Induction, over a set: a number outside it would have a least one.       *)
LEMMA InductionOnNat ==
    ASSUME NEW P, 0 \in P, \A n \in Nat : n \in P => n + 1 \in P
    PROVE Nat \subseteq P
<1>. SUFFICES ASSUME ~ (Nat \subseteq P) PROVE FALSE
    OBVIOUS
<1>1. PICK n \in Nat \ P : \A m \in Nat : m < n => m \in P
    BY FirstOutside
<1>2. n - 1 \in Nat /\ n - 1 \in P
    BY <1>1
<1>. QED
    BY <1>1, <1>2

(* The functions that follow a recursion up to n. *)
Prefixes(n, R, c, g) ==
    {f \in [0 .. n -> R] : f[0] = c /\ \A i \in 1 .. n : f[i] = g[<<i, f[i - 1]>>]}

(* A recursion has a result on every prefix of its domain.                  *)
LEMMA PrefixesExist ==
    ASSUME NEW R, NEW c \in R, NEW g \in [Nat \X R -> R], NEW n \in Nat
    PROVE Prefixes(n, R, c, g) # {}
<1>. DEFINE P == {m \in Nat : Prefixes(m, R, c, g) # {}}
<1>1. 0 \in P
    <2>1. [i \in 0 .. 0 |-> c] \in Prefixes(0, R, c, g)
        BY DEF Prefixes
    <2>. QED
        BY <2>1
<1>2. ASSUME NEW m \in Nat, m \in P PROVE m + 1 \in P
    <2>1. PICK f \in [0 .. m -> R] : f[0] = c /\ \A i \in 1 .. m : f[i] = g[<<i, f[i - 1]>>]
        BY <1>2 DEF Prefixes
    <2>. DEFINE h == [i \in 0 .. m + 1 |-> IF i = m + 1 THEN g[<<m + 1, f[m]>>] ELSE f[i]]
    <2>2. f[m] \in R /\ g[<<m + 1, f[m]>>] \in R
        BY <2>1
    <2>3. h \in [0 .. m + 1 -> R]
        BY <2>1, <2>2
    <2>4. h[0] = c
        BY <2>1
    <2>5. ASSUME NEW i \in 1 .. m + 1 PROVE h[i] = g[<<i, h[i - 1]>>]
        <3>1. i - 1 \in 0 .. m /\ i - 1 # m + 1
            OBVIOUS
        <3>2. h[i - 1] = f[i - 1]
            BY <3>1
        <3>3. CASE i = m + 1
            <4>1. h[i] = g[<<m + 1, f[m]>>] /\ i - 1 = m
                BY <3>3
            <4>. HIDE DEF h
            <4>. QED
                BY <3>2, <3>3, <4>1
        <3>4. CASE i # m + 1
            <4>1. i \in 1 .. m
                BY <3>4
            <4>2. h[i] = f[i]
                BY <3>4
            <4>. QED
                BY <2>1, <3>2, <4>1, <4>2
        <3>. QED
            BY <3>3, <3>4
    <2>. HIDE DEF h
    <2>6. h \in Prefixes(m + 1, R, c, g)
        BY <2>3, <2>4, <2>5 DEF Prefixes
    <2>. QED
        BY <2>6
<1>. HIDE DEF P
<1>3. Nat \subseteq P
    BY <1>1, <1>2, InductionOnNat
<1>. QED
    BY <1>3 DEF P

(* Two results of a recursion agree where both are defined.                 *)
LEMMA PrefixesAgree ==
    ASSUME NEW R, NEW c, NEW g, NEW m \in Nat, NEW n \in Nat,
           NEW f \in Prefixes(m, R, c, g), NEW h \in Prefixes(n, R, c, g),
           NEW k \in Nat, k <= m, k <= n
    PROVE f[k] = h[k]
<1>. DEFINE P == {i \in Nat : i <= m /\ i <= n => f[i] = h[i]}
<1>1. 0 \in P
    BY DEF Prefixes
<1>2. ASSUME NEW i \in Nat, i \in P PROVE i + 1 \in P
    <2>. SUFFICES ASSUME i + 1 <= m, i + 1 <= n PROVE f[i + 1] = h[i + 1]
        OBVIOUS
    <2>1. f[i] = h[i]
        BY <1>2
    <2>2. i + 1 \in 1 .. m /\ i + 1 \in 1 .. n /\ (i + 1) - 1 = i
        OBVIOUS
    <2>3. f[i + 1] = g[<<i + 1, f[i]>>] /\ h[i + 1] = g[<<i + 1, h[i]>>]
        BY <2>2 DEF Prefixes
    <2>. QED
        BY <2>1, <2>3
<1>. HIDE DEF P
<1>3. Nat \subseteq P
    BY <1>1, <1>2, InductionOnNat
<1>. QED
    BY <1>3 DEF P

Follows(f, D, c, g) == \A n \in D : f[n] = IF n = 0 THEN c ELSE g[<<n, f[n - 1]>>]

(* A function of the numbers up to some bound, or of all, whose value at    *)
(* each is made from the one before.                                        *)
LEMMA RecursionHasResult ==
    ASSUME NEW D \in SUBSET Nat, \A n \in D : n # 0 => n - 1 \in D,
           NEW R, NEW c \in R, NEW g \in [Nat \X R -> R]
    PROVE \E f \in [D -> R] : Follows(f, D, c, g)
<1>. DEFINE step == [n \in Nat |-> CHOOSE f \in Prefixes(n, R, c, g) : TRUE]
            f == [n \in D |-> step[n][n]]
<1>1. \A n \in Nat : step[n] \in Prefixes(n, R, c, g)
    BY PrefixesExist
<1>. HIDE DEF step
<1>2. \A n \in Nat : /\ step[n] \in [0 .. n -> R] /\ step[n][0] = c
                     /\ \A i \in 1 .. n : step[n][i] = g[<<i, step[n][i - 1]>>]
    BY <1>1 DEF Prefixes
<1>3. f \in [D -> R]
    BY <1>2
<1>4. ASSUME NEW n \in D PROVE f[n] = IF n = 0 THEN c ELSE g[<<n, f[n - 1]>>]
    <2>1. n \in Nat /\ f[n] = step[n][n]
        OBVIOUS
    <2>2. CASE n = 0
        BY <1>2, <2>1, <2>2
    <2>3. CASE n # 0
        <3>1. n - 1 \in D /\ n - 1 \in Nat /\ n \in 1 .. n
            BY <2>1, <2>3
        <3>2. step[n][n] = g[<<n, step[n][n - 1]>>]
            BY <1>2, <2>1, <3>1
        <3>3. step[n - 1][n - 1] = step[n][n - 1]
            BY <1>1, <2>1, <3>1, PrefixesAgree
        <3>. QED
            BY <2>1, <2>3, <3>1, <3>2, <3>3
    <2>. QED
        BY <2>2, <2>3
<1>. HIDE DEF f
<1>5. Follows(f, D, c, g)
    BY <1>4 DEF Follows
<1>. QED
    BY <1>3, <1>5

-----------------------------------------------------------------------------
(* Delays. *)

(* Max and Min of two numbers.                                              *)
LEMMA MinMaxOfTwo ==
    ASSUME NEW a \in Int, NEW b \in Int, NEW S, S = {a, b}
    PROVE /\ Min(S) = IF a <= b THEN a ELSE b
          /\ Max(S) = IF a >= b THEN a ELSE b
<1>. DEFINE low == IF a <= b THEN a ELSE b
            high == IF a >= b THEN a ELSE b
<1>1. low \in S /\ \A y \in S : low <= y
    OBVIOUS
<1>2. high \in S /\ \A y \in S : high >= y
    OBVIOUS
<1>3. \A x \in S : (\A y \in S : x <= y) => x = low
    OBVIOUS
<1>4. \A x \in S : (\A y \in S : x >= y) => x = high
    OBVIOUS
<1>. HIDE DEF low, high
<1>5. Min(S) = low
    BY <1>1, <1>3 DEF Min
<1>6. Max(S) = high
    BY <1>2, <1>4 DEF Max
<1>. QED
    BY <1>5, <1>6 DEF low, high

(* The backoff of a retry grows from half a second. *)
LEMMA BackoffGrows ==
    /\ Backoff \in [Nat -> Nat]
    /\ \A n \in Nat \ {0, 1} : Backoff[n] >= 1000
<1>. DEFINE g == [p \in Nat \X Nat |-> (p[2] * 3) \div 2]
<1>1. g \in [Nat \X Nat -> Nat] /\ \A n, x \in Nat : g[<<n, x>>] = (x * 3) \div 2
    <2>1. \A x \in Nat : (x * 3) \div 2 \in Nat
        OBVIOUS
    <2>. QED
        BY <2>1
<1>2. MINIMUM_SLEEP_TIME \in Nat
    BY DEF MINIMUM_SLEEP_TIME
<1>. HIDE DEF g
<1>3. PICK f \in [Nat -> Nat] : Follows(f, Nat, MINIMUM_SLEEP_TIME, g)
    <2>1. Nat \in SUBSET Nat /\ \A n \in Nat : n # 0 => n - 1 \in Nat
        OBVIOUS
    <2>. QED
        BY <1>1, <1>2, <2>1, RecursionHasResult
<1>4. f = [n \in Nat |-> IF n = 0 THEN MINIMUM_SLEEP_TIME ELSE (f[n - 1] * 3) \div 2]
    <2>1. \A n \in Nat : f[n] = IF n = 0 THEN MINIMUM_SLEEP_TIME ELSE (f[n - 1] * 3) \div 2
        <3>1. \A n \in Nat : n # 0 => n - 1 \in Nat /\ f[n - 1] \in Nat
            OBVIOUS
        <3>. QED
            BY <1>1, <1>3, <3>1 DEF Follows
    <2>. QED
        BY <2>1
<1>5. Backoff = [n \in Nat |-> IF n = 0 THEN MINIMUM_SLEEP_TIME ELSE (Backoff[n - 1] * 3) \div 2]
    BY <1>4 DEF Backoff
<1>6. /\ Backoff[0] = 500
      /\ \A n \in Nat : Backoff[n + 1] = (Backoff[n] * 3) \div 2
    BY <1>5 DEF MINIMUM_SLEEP_TIME
<1>7. Backoff \in [Nat -> Nat]
    <2>1. {n \in Nat : Backoff[n] \in Nat} = Nat
        <3>. DEFINE P == {n \in Nat : Backoff[n] \in Nat}
        <3>1. 0 \in P
            BY <1>6
        <3>2. \A n \in Nat : n \in P => n + 1 \in P
            <4>1. \A x \in Nat : (x * 3) \div 2 \in Nat
                OBVIOUS
            <4>. QED
                BY <1>6, <4>1
        <3>. HIDE DEF P
        <3>3. Nat \subseteq P
            BY <3>1, <3>2, InductionOnNat
        <3>. QED
            BY <3>3 DEF P
    <2>2. \A n \in Nat : Backoff[n] \in Nat
        BY <2>1
    <2>3. DOMAIN Backoff = Nat /\ Backoff = [n \in Nat |-> Backoff[n]]
        BY <1>5
    <2>. QED
        BY <2>2, <2>3
<1>8. \A n \in Nat : Backoff[n + 2] >= 1000
    <2>. DEFINE P == {n \in Nat : Backoff[n + 2] >= 1000}
    <2>1. 0 \in P
        <3>1. Backoff[1] = 750
            BY <1>6
        <3>2. Backoff[2] = 1125
            BY <1>6, <3>1
        <3>. QED
            BY <3>2
    <2>2. ASSUME NEW n \in Nat, n \in P PROVE n + 1 \in P
        <3>1. Backoff[n + 3] = (Backoff[n + 2] * 3) \div 2 /\ Backoff[n + 2] \in Nat
            BY <1>6, <1>7
        <3>2. Backoff[n + 2] >= 1000
            BY <2>2
        <3>3. Backoff[n + 3] >= 1000
            BY <3>1, <3>2
        <3>. QED
            BY <3>3
    <2>. HIDE DEF P
    <2>3. Nat \subseteq P
        BY <2>1, <2>2, InductionOnNat
    <2>. QED
        BY <2>3 DEF P
<1>9. ASSUME NEW n \in Nat \ {0, 1} PROVE Backoff[n] >= 1000
    <2>1. n - 2 \in Nat /\ (n - 2) + 2 = n
        OBVIOUS
    <2>. QED
        BY <1>8, <2>1
<1>. QED
    BY <1>7, <1>9

(* A time in milliseconds, scaled by a factor in thousandths. *)
LEMMA Scaling ==
    ASSUME NEW a \in Nat, NEW b \in Nat, NEW j \in Nat, a <= b
    PROVE (a * j) \div 1000 \in Nat /\ (a * j) \div 1000 <= (b * j) \div 1000
<1>1. a * j \in Nat /\ b * j \in Nat /\ a * j <= b * j
    OBVIOUS
<1>2. \A x, y \in Nat : x <= y => x \div 1000 <= y \div 1000 /\ x \div 1000 \in Nat
    OBVIOUS
<1>. QED
    BY <1>1, <1>2

(* The backoff is half a second to twelve seconds.                          *)
LEMMA SleepsInRange ==
    ASSUME NEW n \in Nat \ {0, 1}, NEW jitter \in RetryJitter
    PROVE /\ GetSleepTime(n, jitter) \in Nat
          /\ GetSleepTime(n, jitter) >= 500 /\ GetSleepTime(n, jitter) <= 12000
<1>. DEFINE grown == Backoff[n]
            S == {grown, MAXIMUM_SLEEP_TIME}
            base == Min(S)
            product == base * jitter
<1>1. grown \in Int /\ grown >= 1000 /\ MAXIMUM_SLEEP_TIME \in Int /\ MAXIMUM_SLEEP_TIME = 8000
    BY BackoffGrows DEF MAXIMUM_SLEEP_TIME
<1>2. GetSleepTime(n, jitter) = product \div 1000
    BY DEF GetSleepTime
<1>. HIDE DEF grown
<1>3. S = {grown, MAXIMUM_SLEEP_TIME}
    OBVIOUS
<1>. HIDE DEF S, product
<1>4. base = IF grown <= MAXIMUM_SLEEP_TIME THEN grown ELSE MAXIMUM_SLEEP_TIME
    BY <1>1, <1>3, MinMaxOfTwo
<1>. HIDE DEF base
<1>5. base \in 1000 .. 8000
    BY <1>1, <1>4
<1>6. jitter \in 500 .. 1499
    BY DEF RetryJitter
<1>7. product \in Nat /\ 1000 * jitter <= product /\ product <= 8000 * jitter
    BY <1>5, <1>6 DEF product
<1>8. 500000 <= product /\ product <= 12000000
    BY <1>6, <1>7
<1>9. product \div 1000 \in Nat /\ product \div 1000 >= 500 /\ product \div 1000 <= 12000
    BY <1>7, <1>8
<1>. QED
    BY <1>2, <1>9

(* A minute at the most is what becomes of a time the server asks for. *)
LEMMA CappedTime ==
    ASSUME NEW asked \in Int
    PROVE LET kept == Max({asked, 0})
          IN /\ kept \in Nat /\ (asked >= 0 => kept = asked)
             /\ Min({kept, MAXIMUM_RETRY_AFTER_TIME}) \in 0 .. MAXIMUM_RETRY_AFTER_TIME
<1>. DEFINE S == {asked, 0}
            kept == Max(S)
            T == {kept, MAXIMUM_RETRY_AFTER_TIME}
<1>1. S = {asked, 0} /\ 0 \in Int
    OBVIOUS
<1>2. MAXIMUM_RETRY_AFTER_TIME = 60000
    BY DEF MAXIMUM_RETRY_AFTER_TIME
<1>. HIDE DEF S
<1>3. kept = IF asked >= 0 THEN asked ELSE 0
    BY <1>1, MinMaxOfTwo
<1>. HIDE DEF kept
<1>4. kept \in Nat /\ (asked >= 0 => kept = asked)
    BY <1>3
<1>5. T = {kept, MAXIMUM_RETRY_AFTER_TIME} /\ kept \in Int /\ MAXIMUM_RETRY_AFTER_TIME \in Int
    BY <1>2, <1>4
<1>. HIDE DEF T
<1>6. Min(T) = IF kept <= MAXIMUM_RETRY_AFTER_TIME THEN kept ELSE MAXIMUM_RETRY_AFTER_TIME
    BY <1>5, MinMaxOfTwo
<1>7. MAXIMUM_RETRY_AFTER_TIME \in Nat
    BY <1>2
<1>. HIDE DEF MAXIMUM_RETRY_AFTER_TIME
<1>8. Min(T) \in 0 .. MAXIMUM_RETRY_AFTER_TIME
    BY <1>4, <1>6, <1>7
<1>. QED
    BY <1>4, <1>8 DEF T, kept, S

(* So much for one sleep.                                                   *)
LEMMA SleepProperties ==
    ASSUME NEW n \in Nat \ {0, 1}, NEW f, IsFailure(f)
    PROVE HonoursRetryAfter(n, f) /\ Sleep(n, f) \in 0 .. MAXIMUM_RETRY_AFTER_TIME
<1>. DEFINE v == f.header.value
            asked == IF f.header.form = "seconds" THEN 1000 * v ELSE v
            capped == Min({Max({asked, 0}), MAXIMUM_RETRY_AFTER_TIME})
            factor == f.jitter
            random == GetSleepTime(n, factor)
<1>1. v \in Int /\ factor \in RetryJitter /\ (f.header.form = "seconds" => v >= 0)
    BY DEF IsFailure
<1>2. random \in Nat /\ random >= 500 /\ random <= 12000
    <2>1. factor \in RetryJitter
        BY <1>1
    <2>. HIDE DEF factor, asked, capped, v
    <2>. QED
        BY <2>1, SleepsInRange
<1>3. 12000 <= MAXIMUM_RETRY_AFTER_TIME /\ MAXIMUM_RETRY_AFTER_TIME \in Nat /\ Null = -1
    BY DEF MAXIMUM_RETRY_AFTER_TIME, Null
<1>4. asked \in Int /\ (f.header.form = "seconds" => asked = v * 1000 /\ asked >= 0)
    BY <1>1, SMTT(30)
<1>5. CASE f.answered /\ f.header.form \in {"seconds", "date"}
    <2>1. /\ capped \in 0 .. MAXIMUM_RETRY_AFTER_TIME
          /\ asked >= 0 => capped = Min({asked, MAXIMUM_RETRY_AFTER_TIME})
        <3>. HIDE DEF asked
        <3>. DEFINE kept == Max({asked, 0})
        <3>1. (asked >= 0 => kept = asked) /\ capped \in 0 .. MAXIMUM_RETRY_AFTER_TIME
            BY <1>4, CappedTime
        <3>2. capped = Min({kept, MAXIMUM_RETRY_AFTER_TIME})
            OBVIOUS
        <3>. HIDE DEF kept
        <3>. QED
            BY <3>1, <3>2
    <2>2. GetRetryAfterMs(f) = capped
        <3>1. CASE f.header.form = "date"
            BY <1>5, <3>1 DEF GetRetryAfterMs, ParseRetryAfter
        <3>2. CASE f.header.form = "seconds"
            <4>1. GetRetryAfterMs(f) = Min({v * 1000, MAXIMUM_RETRY_AFTER_TIME})
                BY <1>5, <3>2 DEF GetRetryAfterMs, ParseRetryAfter
            <4>2. asked = v * 1000 /\ asked >= 0
                BY <1>4, <3>2
            <4>. HIDE DEF asked
            <4>. QED
                BY <2>1, <4>1, <4>2
        <3>. QED
            BY <1>5, <3>1, <3>2
    <2>. HIDE DEF capped
    <2>3. Sleep(n, f) = capped
        BY <1>3, <2>1, <2>2 DEF Sleep
    <2>. QED
        BY <1>5, <2>1, <2>3 DEF HonoursRetryAfter, capped
<1>6. CASE ~ (f.answered /\ f.header.form \in {"seconds", "date"})
    <2>1. GetRetryAfterMs(f) = Null
        BY <1>6 DEF GetRetryAfterMs, ParseRetryAfter, IsFailure
    <2>2. Sleep(n, f) = random
        BY <2>1 DEF Sleep
    <2>. HIDE DEF random
    <2>3. HonoursRetryAfter(n, f)
        BY <1>2, <1>6, <2>2 DEF HonoursRetryAfter
    <2>4. Sleep(n, f) \in 0 .. MAXIMUM_RETRY_AFTER_TIME
        BY <1>2, <1>3, <2>2
    <2>. QED
        BY <2>3, <2>4
<1>. QED
    BY <1>5, <1>6

(* sleep() waits as long as the server asks, a minute at the most, and      *)
(* between half a second and twelve where it asks for nothing legible,      *)
(* whichever attempt failed and whatever the random factor                  *)
(* (RetryAfterIsHonoured).                                                  *)
THEOREM SleepsHonourRetryAfter == Spec => []RetryAfterIsHonoured
<1>. DEFINE Inv == input.of = "sleep" => input.attempt \in Attempts /\ input.failure \in Failures
<1>1. Init => Inv
    BY DEF Init, None
<1>2. Inv /\ [Next]_input => Inv'
    BY DEF Next, CompareEntries, TakeDelivery, Respond, EncodeNumber, Seal, FailAttempt,
        EndPoll, Forget, None
<1>3. Inv => RetryAfterIsHonoured
    <2>1. ASSUME NEW n \in Attempts, NEW f \in Failures PROVE HonoursRetryAfter(n, f)
        <3>1. n \in Nat \ {0, 1} /\ IsFailure(f)
            BY AlgorithmsAssumption
        <3>. QED
            BY <3>1, SleepProperties
    <2>. QED
        BY <2>1 DEF RetryAfterIsHonoured
<1>. QED
    BY <1>1, <1>2, <1>3, PTL DEF Spec

-----------------------------------------------------------------------------
(* The backoff of a poll never shrinks below zero: it is a natural number   *)
(* after however many errors.                                               *)
LEMMA PollBackoffIsTyped == \A n \in Nat : PollBackoff[n] \in Nat
<1>. DEFINE g == [p \in Nat \X Nat |-> p[2] * 2]
<1>1. g \in [Nat \X Nat -> Nat] /\ \A n, x \in Nat : g[<<n, x>>] = x * 2
    <2>1. \A x \in Nat : x * 2 \in Nat
        OBVIOUS
    <2>. QED
        BY <2>1
<1>2. INITIAL_RETRY \in Nat
    BY DEF INITIAL_RETRY
<1>. HIDE DEF g
<1>3. PICK f \in [Nat -> Nat] : Follows(f, Nat, INITIAL_RETRY, g)
    <2>1. Nat \in SUBSET Nat /\ \A n \in Nat : n # 0 => n - 1 \in Nat
        OBVIOUS
    <2>. QED
        BY <1>1, <1>2, <2>1, RecursionHasResult
<1>4. f = [n \in Nat |-> IF n = 0 THEN INITIAL_RETRY ELSE f[n - 1] * 2]
    <2>1. \A n \in Nat : f[n] = IF n = 0 THEN INITIAL_RETRY ELSE f[n - 1] * 2
        <3>1. \A n \in Nat : n # 0 => n - 1 \in Nat /\ f[n - 1] \in Nat
            OBVIOUS
        <3>. QED
            BY <1>1, <1>3, <3>1 DEF Follows
    <2>. QED
        BY <2>1
<1>5. PollBackoff = [n \in Nat |-> IF n = 0 THEN INITIAL_RETRY ELSE PollBackoff[n - 1] * 2]
    BY <1>4 DEF PollBackoff
<1>6. PollBackoff[0] = INITIAL_RETRY /\ \A n \in Nat : PollBackoff[n + 1] = PollBackoff[n] * 2
    BY <1>5
<1>. DEFINE P == {n \in Nat : PollBackoff[n] \in Nat}
<1>7. 0 \in P
    BY <1>2, <1>6
<1>8. \A n \in Nat : n \in P => n + 1 \in P
    <2>1. \A x \in Nat : x * 2 \in Nat
        OBVIOUS
    <2>. QED
        BY <1>6, <2>1
<1>. HIDE DEF P
<1>9. Nat \subseteq P
    BY <1>7, <1>8, InductionOnNat
<1>. QED
    BY <1>9 DEF P

(* However it is configured, a client's interval is five seconds or more.   *)
LEMMA IntervalIsLongEnough ==
    ASSUME NEW option \in Int
    PROVE PollingInterval(option) \in Nat /\ PollingInterval(option) >= 5000
<1>. DEFINE x == IF option = Null THEN DEFAULT_POLLING_INTERVAL ELSE option
            S == {MIN_POLLING_INTERVAL, x}
<1>1. x \in Int /\ MIN_POLLING_INTERVAL \in Int /\ MIN_POLLING_INTERVAL = 5000
    BY DEF DEFAULT_POLLING_INTERVAL, MIN_POLLING_INTERVAL
<1>2. PollingInterval(option) = Max(S) /\ S = {MIN_POLLING_INTERVAL, x}
    BY DEF PollingInterval
<1>. HIDE DEF x, S
<1>3. Max(S) = IF MIN_POLLING_INTERVAL >= x THEN MIN_POLLING_INTERVAL ELSE x
    BY <1>1, <1>2, MinMaxOfTwo
<1>. QED
    BY <1>1, <1>2, <1>3

(* An error never shortens the delay, and lengthens it to a minute at most. *)
LEMMA DelayOfErrors ==
    ASSUME NEW interval \in Nat, NEW e \in Nat, NEW U, U = {interval, MAX_RETRY}
    PROVE /\ BaseDelay(interval, e) \in Nat /\ interval <= BaseDelay(interval, e)
          /\ BaseDelay(interval, e) <= Max(U) /\ BaseDelay(interval, 0) = interval
          /\ Max(U) \in Nat /\ Max(U) >= MAX_RETRY
<1>. DEFINE most == Max(U)
<1>1. MAX_RETRY \in Nat
    BY DEF MAX_RETRY
<1>2. interval \in Int /\ MAX_RETRY \in Int
    BY <1>1
<1>3. most = IF interval >= MAX_RETRY THEN interval ELSE MAX_RETRY
    BY <1>2, MinMaxOfTwo
<1>. HIDE DEF most
<1>4. most \in Nat /\ most >= interval /\ most >= MAX_RETRY
    BY <1>1, <1>3
<1>5. BaseDelay(interval, 0) = interval
    BY DEF BaseDelay
<1>6. /\ BaseDelay(interval, e) \in Nat
      /\ interval <= BaseDelay(interval, e) /\ BaseDelay(interval, e) <= most
    <2>1. CASE e = 0
        BY <1>4, <2>1 DEF BaseDelay
    <2>2. CASE e # 0
        <3>. DEFINE b == PollBackoff[e - 1]
                    T == {b, MAX_RETRY}
                    grown == Min(T)
                    V == {interval, grown}
        <3>1. b \in Nat
            <4>1. e - 1 \in Nat
                BY <2>2
            <4>. QED
                BY <4>1, PollBackoffIsTyped
        <3>2. BaseDelay(interval, e) = Max(V)
            BY <2>2 DEF BaseDelay
        <3>. HIDE DEF b, V
        <3>3. T = {b, MAX_RETRY} /\ b \in Int
            BY <3>1
        <3>. HIDE DEF T
        <3>4. grown = IF b <= MAX_RETRY THEN b ELSE MAX_RETRY
            BY <1>2, <3>3, MinMaxOfTwo
        <3>. HIDE DEF grown
        <3>5. grown \in Nat /\ grown <= MAX_RETRY
            BY <1>1, <3>1, <3>4
        <3>6. V = {interval, grown} /\ grown \in Int
            BY <3>5 DEF V
        <3>7. Max(V) = IF interval >= grown THEN interval ELSE grown
            BY <1>2, <3>6, MinMaxOfTwo
        <3>. QED
            BY <1>4, <1>1, <3>2, <3>5, <3>7
    <2>. QED
        BY <2>1, <2>2
<1>. QED
    BY <1>4, <1>5, <1>6 DEF most

(* So much for one poll: an outage makes no delay overrun that the interval *)
(* does not make overrun.                                                   *)
LEMMA NextPollIsSpaced ==
    ASSUME NEW option \in Int, NEW e \in Nat, NEW j \in PollJitter
    PROVE IsSpaced(option, e, j)
<1>. DEFINE interval == PollingInterval(option)
            base == BaseDelay(interval, e)
            U == {interval, MAX_RETRY}
            most == Max(U)
            longer == base * j
            least == interval * j
            shortest == 1000 * MIN_DELAY
            limit == 1000 * TIMEOUT_MAX
            A == {shortest, longer}
            B == {shortest, least}
<1>1. interval \in Nat /\ interval >= 5000
    BY IntervalIsLongEnough
<1>. HIDE DEF interval
<1>2. /\ base \in Nat /\ interval <= base /\ base <= most /\ BaseDelay(interval, 0) = interval
      /\ most = IF interval >= MAX_RETRY THEN interval ELSE MAX_RETRY
    <2>1. U = {interval, MAX_RETRY} /\ interval \in Int /\ MAX_RETRY \in Int
        BY <1>1 DEF MAX_RETRY
    <2>. HIDE DEF U
    <2>2. most = IF interval >= MAX_RETRY THEN interval ELSE MAX_RETRY
        BY <2>1, MinMaxOfTwo
    <2>. QED
        BY <1>1, <2>1, <2>2, DelayOfErrors
<1>3. MIN_DELAY = 1000 /\ MAX_RETRY = 60000 /\ TIMEOUT_MAX \in Nat /\ limit \in Nat
      /\ limit >= 66000000
    BY TimeoutAssumption DEF MIN_DELAY, MAX_RETRY
<1>4. j \in Nat /\ 900 <= j /\ j <= 1099
    BY DEF PollJitter
<1>5. NextPoll(option, e, j) = SetTimeout(Max(A)) /\ NextPoll(option, 0, j) = SetTimeout(Max(B))
    <2>1. NextPoll(option, e, j) = SetTimeout(Max(A))
        BY DEF NextPoll, interval
    <2>. DEFINE zero == BaseDelay(interval, 0)
    <2>2. NextPoll(option, 0, j) = SetTimeout(Max({shortest, zero * j}))
        BY DEF NextPoll, interval
    <2>3. zero = interval
        BY <1>2
    <2>. HIDE DEF zero, base, most, U, longer, A, shortest
    <2>4. NextPoll(option, 0, j) = SetTimeout(Max(B))
        BY <2>2, <2>3
    <2>. QED
        BY <2>1, <2>4
<1>. HIDE DEF base, most
<1>6. longer \in Nat /\ least \in Nat /\ least <= longer /\ least >= 4500000
    <2>1. interval * j >= 5000 * 900 /\ interval * j \in Nat
        BY <1>1, <1>4
    <2>2. base * j \in Nat /\ interval * j <= base * j
        BY <1>1, <1>2, <1>4
    <2>. QED
        BY <2>1, <2>2
<1>7. shortest = 1000000
    BY <1>3
<1>8. Max(A) = longer /\ Max(B) = least
    <2>1. /\ A = {shortest, longer} /\ B = {shortest, least}
          /\ shortest \in Int /\ longer \in Int /\ least \in Int
        BY <1>6, <1>7
    <2>. HIDE DEF A, B, longer, least, shortest
    <2>2. /\ Max(A) = IF shortest >= longer THEN shortest ELSE longer
          /\ Max(B) = IF shortest >= least THEN shortest ELSE least
        BY <2>1, MinMaxOfTwo
    <2>. QED
        BY <1>6, <1>7, <2>2
<1>. HIDE DEF A, B, shortest
<1>9. longer > limit <=> least > limit
    <2>1. CASE interval >= MAX_RETRY
        <3>1. base = interval
            BY <1>1, <1>2, <2>1
        <3>. QED
            BY <3>1
    <2>2. CASE interval < MAX_RETRY
        <3>1. base <= 60000
            BY <1>1, <1>2, <1>3, <2>2
        <3>2. base * j <= 60000 * 1099
            BY <1>2, <1>4, <3>1
        <3>. HIDE DEF limit
        <3>. QED
            BY <1>3, <1>6, <3>2
    <2>. QED
        BY <1>1, <1>3, <2>1, <2>2
<1>10. ASSUME least <= limit
       PROVE /\ NextPoll(option, e, j) = longer \div 1000
             /\ NextPoll(option, 0, j) = least \div 1000
    <2>. HIDE DEF longer, least, limit
    <2>1. ~(longer > limit) /\ ~(least > limit)
        BY <1>3, <1>6, <1>9, <1>10
    <2>. QED
        BY <1>5, <1>8, <2>1 DEF SetTimeout, limit
<1>11. ASSUME least > limit PROVE NextPoll(option, e, j) = 1
    <2>. HIDE DEF longer, least, limit
    <2>. QED
        BY <1>5, <1>8, <1>9, <1>11 DEF SetTimeout, limit
<1>12. /\ longer \div 1000 >= 4500
       /\ longer \div 1000 >= least \div 1000
       /\ 10 * (longer \div 1000) <= 11 * most
    <2>1. least \div 1000 <= longer \div 1000
        BY <1>1, <1>2, <1>4, Scaling
    <2>2. longer >= 4500000
        BY <1>6
    <2>3. \A x \in Nat : 1000 * (x \div 1000) <= x /\ x \div 1000 \in Nat
        OBVIOUS
    <2>4. \A x \in Nat : x >= 4500000 => x \div 1000 >= 4500
        OBVIOUS
    <2>5. base * j <= base * 1099
        BY <1>2, <1>4
    <2>6. 1000 * (longer \div 1000) <= base * 1099 /\ longer \div 1000 \in Nat
        BY <1>2, <1>4, <1>6, <2>3, <2>5
    <2>7. longer \div 1000 >= 4500
        BY <1>6, <2>2, <2>4
    <2>. DEFINE waits == longer \div 1000
    <2>8. 1000 * waits <= base * 1099 /\ waits \in Nat
        BY <2>6
    <2>9. most \in Nat
        BY <1>1, <1>2, <1>3
    <2>. HIDE DEF waits, longer
    <2>10. 10 * waits <= 11 * most
        BY <1>2, <2>8, <2>9, SMTT(30)
    <2>. QED
        BY <2>1, <2>7, <2>10 DEF waits
<1>13. CASE least > limit
    BY <1>11, <1>13 DEF IsSpaced, interval
<1>14. CASE least <= limit
    <2>1. /\ NextPoll(option, e, j) >= 4500
          /\ NextPoll(option, e, j) >= NextPoll(option, 0, j)
          /\ 10 * NextPoll(option, e, j) <= 11 * most
        BY <1>10, <1>12, <1>14
    <2>2. ~(least > limit)
        BY <1>3, <1>6, <1>14
    <2>. QED
        BY <2>1, <2>2 DEF IsSpaced, most, U, interval
<1>. QED
    BY <1>3, <1>6, <1>13, <1>14

(* The polls of a client are 4.5 seconds apart or more, no further apart    *)
(* than a tenth above the larger of its interval and a minute, and never    *)
(* closer for an error, for every outage and random factor and for every    *)
(* interval setTimeout can count; with an interval it cannot count every    *)
(* poll comes after 1 ms (PollsAreSpaced).                                  *)
THEOREM PollsKeepApart == Spec => []PollsAreSpaced
<1>. DEFINE Inv == input.of = "poll" => input.poll \in PollInputs
<1>1. Init => Inv
    BY DEF Init, None
<1>2. Inv /\ [Next]_input => Inv'
    BY DEF Next, CompareEntries, TakeDelivery, Respond, EncodeNumber, Seal, FailAttempt,
        EndPoll, Forget, None
<1>3. Inv => PollsAreSpaced
    <2>1. ASSUME NEW p \in PollInputs PROVE IsSpaced(p.option, p.consecutiveErrors, p.jitter)
        <3>. DEFINE o == p.option
                    e == p.consecutiveErrors
                    j == p.jitter
        <3>1. o \in Int /\ e \in Nat /\ j \in PollJitter
            BY AlgorithmsAssumption
        <3>. HIDE DEF o, e, j
        <3>2. IsSpaced(o, e, j)
            BY <3>1, NextPollIsSpaced
        <3>. QED
            BY <3>2 DEF o, e, j
    <2>. QED
        BY <2>1 DEF PollsAreSpaced
<1>. QED
    BY <1>1, <1>2, <1>3, PTL DEF Spec

-----------------------------------------------------------------------------
(* Numbers in groups of 7 bits.                                             *)

(* What is left of a number, if anything is, shrinks with every turn of the *)
(* loop, and nothing is left of 32 bits after five.                         *)
LEMMA ShiftsShrink ==
    ASSUME NEW value \in UInt32, NEW n \in Nat
    PROVE /\ Shifted(value, n + 1) # {} => Shifted(value, n) # {}
          /\ n >= 5 => Shifted(value, n) = {}
          /\ Shifted(value, n + 1) = {} => Shifted(value, n) \subseteq 0 .. 6
<1>1. value \subseteq 0 .. 31
    BY DEF UInt32
<1>2. ASSUME NEW b \in 0 .. 31, b + 7 * (n + 1) \in value PROVE Shifted(value, n) # {}
    <2>1. b + 7 \in 0 .. 31 /\ (b + 7) + 7 * n \in value
        BY <1>1, <1>2
    <2>. QED
        BY <2>1 DEF Shifted
<1>3. ASSUME n >= 5, NEW b \in 0 .. 31 PROVE b + 7 * n \notin value
    BY <1>1, <1>3
<1>4. ASSUME NEW b \in 0 .. 31, b + 7 * n \in value, b > 6 PROVE Shifted(value, n + 1) # {}
    <2>1. b - 7 \in 0 .. 31 /\ (b - 7) + 7 * (n + 1) \in value
        BY <1>4
    <2>. QED
        BY <2>1 DEF Shifted
<1>. QED
    BY <1>2, <1>3, <1>4 DEF Shifted

(* A number takes as many bytes as it has groups up to its last bit.        *)
LEMMA LengthOfNumber ==
    ASSUME NEW value \in UInt32
    PROVE /\ ByteLength(value) \in 1 .. 5
          /\ \A n \in 1 .. 5 : Shifted(value, n) # {} <=> n < ByteLength(value)
<1>. DEFINE T(n) == Shifted(value, n) # {}
            S == {n \in 1 .. 4 : T(n)}
<1>1. (T(2) => T(1)) /\ (T(3) => T(2)) /\ (T(4) => T(3)) /\ ~T(5)
    <2>1. \A n \in Nat : T(n + 1) => T(n)
        BY ShiftsShrink
    <2>2. T(1 + 1) => T(1)
        BY <2>1
    <2>3. T(2 + 1) => T(2)
        BY <2>1
    <2>4. T(3 + 1) => T(3)
        BY <2>1
    <2>5. ~T(5)
        BY ShiftsShrink
    <2>. HIDE DEF T
    <2>. QED
        BY <2>2, <2>3, <2>4, <2>5
<1>. HIDE DEF T
<1>2. PICK k \in 0 .. 4 : \A n \in 1 .. 4 : T(n) <=> n <= k
    <2>1. \A n \in 1 .. 4 : n = 1 \/ n = 2 \/ n = 3 \/ n = 4
        OBVIOUS
    <2>2. CASE ~T(1)
        BY <1>1, <2>1, <2>2
    <2>3. CASE T(1) /\ ~T(2)
        BY <1>1, <2>1, <2>3
    <2>4. CASE T(2) /\ ~T(3)
        BY <1>1, <2>1, <2>4
    <2>5. CASE T(3) /\ ~T(4)
        BY <1>1, <2>1, <2>5
    <2>6. CASE T(4)
        BY <1>1, <2>1, <2>6
    <2>. QED
        BY <2>2, <2>3, <2>4, <2>5, <2>6, <1>1
<1>3. S = 1 .. k
    BY <1>2
<1>4. Cardinality(S) = k
    <2>1. Cardinality(1 .. k) = k
        <3>1. Cardinality(1 .. k) = IF 1 > k THEN 0 ELSE k - 1 + 1
            BY FS_Interval
        <3>. QED
            BY <3>1
    <2>. HIDE DEF S
    <2>. QED
        BY <1>3, <2>1
<1>5. ByteLength(value) = 1 + k
    BY <1>4 DEF ByteLength, T
<1>6. ByteLength(value) \in 1 .. 5
    BY <1>5
<1>7. ASSUME NEW n \in 1 .. 5 PROVE T(n) <=> n < ByteLength(value)
    BY <1>1, <1>2, <1>5
<1>. QED
    BY <1>6, <1>7 DEF T

(* A byte holds 7 bits of the number, and its continuation bit unless it    *)
(* is the last.                                                             *)
LEMMA EncodedBytes ==
    ASSUME NEW value \in UInt32
    PROVE LET bytes == EncodeUInt32(value)
              L == ByteLength(value)
          IN /\ bytes \in Seq(Byte) /\ Len(bytes) = L
             /\ \A i \in 1 .. L : /\ bytes[i].bits = Shifted(value, i - 1) \cap (0 .. 6)
                                  /\ bytes[i].more <=> i < L
<1>. DEFINE bytes == EncodeUInt32(value)
            L == ByteLength(value)
<1>1. L \in 1 .. 5 /\ \A n \in 1 .. 5 : Shifted(value, n) # {} <=> n < L
    BY LengthOfNumber
<1>2. /\ bytes = [i \in 1 .. L |-> bytes[i]]
      /\ \A i \in 1 .. L : bytes[i] = [bits |-> Shifted(value, i - 1) \cap (0 .. 6),
                                      more |-> Shifted(value, i) # {}]
    BY DEF EncodeUInt32
<1>. HIDE DEF L, bytes
<1>3. ASSUME NEW i \in 1 .. L
      PROVE /\ bytes[i].bits = Shifted(value, i - 1) \cap (0 .. 6)
            /\ bytes[i].more <=> i < L
            /\ bytes[i] \in Byte
    <2>. DEFINE more == Shifted(value, i) # {}
                bits == Shifted(value, i - 1) \cap (0 .. 6)
    <2>1. bytes[i] = [bits |-> bits, more |-> more]
        BY <1>2
    <2>2. more \in BOOLEAN /\ bits \in SUBSET (0 .. 6)
        OBVIOUS
    <2>3. more <=> i < L
        BY <1>1
    <2>. HIDE DEF more, bits
    <2>4. bytes[i] \in Byte /\ bytes[i].bits = bits /\ bytes[i].more = more
        BY <2>1, <2>2 DEF Byte
    <2>. QED
        BY <2>3, <2>4 DEF bits
<1>5. bytes \in Seq(Byte) /\ Len(bytes) = L
    BY <1>1, <1>2, <1>3
<1>. QED
    BY <1>3, <1>5 DEF bytes, L

(* What the groups of so many bytes make. *)
Gathered(data, offset, n) ==
    {b \in 0 .. 31 : \E i \in 1 .. n : b - 7 * (i - 1) \in data[offset + i].bits}

(* The loop ends with the first byte that has no continuation bit.          *)
LEMMA DecodedBytes ==
    ASSUME NEW data, Len(data) \in Nat, NEW offset \in Nat, NEW L \in 1 .. 5,
           offset + L <= Len(data), \A i \in 1 .. L : data[offset + i].more <=> i < L
    PROVE DecodeUInt32(data, offset) =
            [error |-> "none", value |-> Gathered(data, offset, L), nextIndex |-> offset + L]
<1>. DEFINE Ends(n) == /\ offset + n <= Len(data)
                       /\ Continued(data, offset, n - 1) /\ ~data[offset + n].more
            length == CHOOSE n \in 1 .. MAX_BYTES_FOR_UINT32 : Ends(n)
<1>1. offset \in 0 .. Len(data) - 1 /\ MAX_BYTES_FOR_UINT32 = 5
    BY DEF MAX_BYTES_FOR_UINT32
<1>2. Ends(L)
    <2>1. \A i \in 1 .. L - 1 : i \in 1 .. L /\ i < L
        OBVIOUS
    <2>2. ~data[offset + L].more
        OBVIOUS
    <2>. QED
        BY <2>1, <2>2, Zenon DEF Continued
<1>3. ASSUME NEW n \in 1 .. 5, Ends(n) PROVE n = L
    <2>1. CASE n < L
        BY <1>3, <2>1
    <2>2. CASE n > L
        <3>1. L \in 1 .. n - 1
            BY <2>2
        <3>2. data[offset + L].more
            BY <1>3, <3>1 DEF Continued
        <3>. QED
            BY <3>2
    <2>. QED
        BY <2>1, <2>2
<1>4. \E n \in 1 .. MAX_BYTES_FOR_UINT32 : Ends(n)
    BY <1>1, <1>2
<1>5. length = L
    <2>1. length \in 1 .. MAX_BYTES_FOR_UINT32 /\ Ends(length)
        BY <1>4
    <2>. HIDE DEF length, Ends
    <2>. QED
        BY <1>1, <1>3, <2>1
<1>6. DecodeUInt32(data, offset) =
            [error |-> "none", value |-> Gathered(data, offset, length),
             nextIndex |-> offset + length]
    BY <1>1, <1>4 DEF DecodeUInt32, Gathered
<1>. HIDE DEF length
<1>. QED
    BY <1>5, <1>6

(* Where every byte has its continuation bit the loop does not end well.    *)
LEMMA CutBytes ==
    ASSUME NEW data, Len(data) \in Nat, NEW offset \in Nat,
           \A i \in 1 .. Len(data) - offset : data[offset + i].more
    PROVE DecodeUInt32(data, offset).error \notin {"none", "opened"}
<1>1. ~ \E n \in 1 .. MAX_BYTES_FOR_UINT32 :
           /\ offset + n <= Len(data)
           /\ Continued(data, offset, n - 1) /\ ~data[offset + n].more
    BY DEF MAX_BYTES_FOR_UINT32
<1>2. PICK e \in {"Offset is out of bounds", "Truncated LEB128 encoding",
                 "LEB128 sequence exceeds maximum length for uint32"} :
             DecodeUInt32(data, offset) = Failed(e)
    BY <1>1 DEF DecodeUInt32
<1>3. Failed(e).error = e
    BY DEF Failed
<1>. QED
    BY <1>2, <1>3

(* The groups of a number, put together, are the number.                    *)
LEMMA GroupsMakeNumber ==
    ASSUME NEW value \in UInt32
    PROVE {b \in 0 .. 31 : \E i \in 1 .. ByteLength(value) :
               b - 7 * (i - 1) \in Shifted(value, i - 1) \cap (0 .. 6)} = value
<1>. DEFINE L == ByteLength(value)
<1>1. L \in 1 .. 5 /\ \A n \in 1 .. 5 : Shifted(value, n) # {} <=> n < L
    BY LengthOfNumber
<1>2. value \subseteq 0 .. 31
    BY DEF UInt32
<1>. HIDE DEF L
<1>3. ASSUME NEW b \in 0 .. 31, NEW i \in 1 .. L,
             b - 7 * (i - 1) \in Shifted(value, i - 1) \cap (0 .. 6)
      PROVE b \in value
    <2>1. (b - 7 * (i - 1)) + 7 * (i - 1) \in value
        BY <1>3 DEF Shifted
    <2>2. (b - 7 * (i - 1)) + 7 * (i - 1) = b
        BY <1>1
    <2>. QED
        BY <2>1, <2>2
<1>4. ASSUME NEW b \in value
      PROVE \E i \in 1 .. L : b - 7 * (i - 1) \in Shifted(value, i - 1) \cap (0 .. 6)
    <2>1. b \in 0 .. 31
        BY <1>2
    <2>2. PICK g \in 0 .. 4 : b - 7 * g \in 0 .. 6
        <3>1. b \div 7 \in 0 .. 4 /\ b - 7 * (b \div 7) \in 0 .. 6
            BY <2>1
        <3>. QED
            BY <3>1
    <2>3. (b - 7 * g) + 7 * g = b /\ b - 7 * g \in 0 .. 31
        BY <2>1, <2>2
    <2>4. b - 7 * g \in Shifted(value, g)
        BY <2>3 DEF Shifted
    <2>5. g + 1 \in 1 .. L
        BY <1>1, <2>4
    <2>6. (g + 1) - 1 = g
        OBVIOUS
    <2>. QED
        BY <2>2, <2>4, <2>5, <2>6
<1>. QED
    BY <1>2, <1>3, <1>4 DEF L

(* A number is read back from where it was written, out of no fewer         *)
(* bytes.                                                                   *)
LEMMA NumberRoundTrips ==
    ASSUME NEW value \in UInt32, NEW before \in Seq(Byte), NEW after \in Seq(Byte)
    PROVE RoundTrips(value, before, after)
<1>. DEFINE bytes == EncodeUInt32(value)
            data == before \o bytes \o after
            L == ByteLength(value)
            offset == Len(before)
<1>1. /\ bytes \in Seq(Byte) /\ Len(bytes) = L
      /\ \A i \in 1 .. L : /\ bytes[i].bits = Shifted(value, i - 1) \cap (0 .. 6)
                           /\ bytes[i].more <=> i < L
    BY EncodedBytes
<1>2. L \in 1 .. 5 /\ \A n \in 1 .. 5 : Shifted(value, n) # {} <=> n < L
    BY LengthOfNumber
<1>3. {b \in 0 .. 31 : \E i \in 1 .. L :
           b - 7 * (i - 1) \in Shifted(value, i - 1) \cap (0 .. 6)} = value
    BY GroupsMakeNumber
<1>. HIDE DEF bytes, L
<1>4. /\ data \in Seq(Byte) /\ offset \in Nat /\ offset + L <= Len(data)
      /\ \A i \in 1 .. L : data[offset + i] = bytes[i]
    BY <1>1, <1>2
<1>. HIDE DEF data, offset
<1>5. DecodeUInt32(data, offset) =
          [error |-> "none", value |-> value, nextIndex |-> offset + Len(bytes)]
    <2>1. \A i \in 1 .. L : data[offset + i].more <=> i < L
        BY <1>1, <1>4
    <2>2. Len(data) \in Nat
        BY <1>4
    <2>3. DecodeUInt32(data, offset) =
              [error |-> "none", value |-> Gathered(data, offset, L), nextIndex |-> offset + L]
        BY <1>2, <1>4, <2>1, <2>2, DecodedBytes
    <2>4. \A i \in 1 .. L : data[offset + i].bits = Shifted(value, i - 1) \cap (0 .. 6)
        BY <1>1, <1>4
    <2>5. Gathered(data, offset, L) = value
        BY <1>3, <2>4 DEF Gathered
    <2>. QED
        BY <1>1, <2>3, <2>5
<1>6. ASSUME value # {} PROVE bytes[L].bits # {}
    <2>1. L - 1 \in Nat /\ (L - 1) + 1 = L
        BY <1>2
    <2>2. Shifted(value, L) = {}
        <3>1. CASE L = 5
            BY <3>1, ShiftsShrink
        <3>2. CASE L # 5
            BY <1>2, <3>2
        <3>. QED
            BY <3>1, <3>2
    <2>3. Shifted(value, L - 1) # {}
        <3>1. CASE L = 1
            <4>1. PICK b \in value : b \in 0 .. 31
                BY <1>6 DEF UInt32
            <4>2. b + 7 * 0 = b
                BY <4>1
            <4>3. b \in Shifted(value, 0)
                BY <4>1, <4>2 DEF Shifted
            <4>. QED
                BY <3>1, <4>3
        <3>2. CASE L # 1
            <4>1. L - 1 \in 1 .. 5 /\ L - 1 < L
                BY <1>2, <3>2
            <4>. QED
                BY <1>2, <4>1
        <3>. QED
            BY <3>1, <3>2
    <2>4. Shifted(value, L - 1) \subseteq 0 .. 6
        <3>. DEFINE n == L - 1
        <3>1. n \in Nat /\ n + 1 = L /\ Shifted(value, n + 1) = {}
            BY <2>1, <2>2
        <3>. HIDE DEF n
        <3>2. Shifted(value, n) \subseteq 0 .. 6
            BY <3>1, ShiftsShrink
        <3>. QED
            BY <3>2 DEF n
    <2>5. L \in 1 .. L
        BY <1>2
    <2>. QED
        BY <1>1, <2>3, <2>4, <2>5
<1>7. ASSUME NEW n \in 0 .. L - 1
      PROVE DecodeUInt32(SubSeq(bytes, 1, n), 0).error # "none"
    <2>. DEFINE cut == SubSeq(bytes, 1, n)
    <2>1. Len(cut) = n /\ \A i \in 1 .. n : cut[i] = bytes[i]
        BY <1>1, <1>2
    <2>. HIDE DEF cut
    <2>2. \A i \in 1 .. n : cut[i].more
        <3>1. \A i \in 1 .. n : i \in 1 .. L /\ i < L
            BY <1>2
        <3>. QED
            BY <1>1, <2>1, <3>1
    <2>3. Len(cut) \in Nat /\ \A i \in 1 .. Len(cut) - 0 : cut[0 + i].more
        BY <2>1, <2>2
    <2>4. DecodeUInt32(cut, 0).error # "none"
        BY <2>3, CutBytes
    <2>. QED
        BY <2>4 DEF cut
<1>8. Len(bytes) \in 1 .. MAX_BYTES_FOR_UINT32
    BY <1>1, <1>2 DEF MAX_BYTES_FOR_UINT32
<1>. QED
    BY <1>1, <1>5, <1>6, <1>7, <1>8 DEF RoundTrips, data, offset, bytes

(* Whatever is encoded and put into a buffer is decoded from it as it was,  *)
(* for every 32-bit number and all surroundings (NumbersRoundTrip).         *)
THEOREM NumbersAreReadBack == Spec => []NumbersRoundTrip
<1>. DEFINE Inv == input.of = "number" =>
                       /\ input.number \in Numbers
                       /\ input.before \in Surroundings /\ input.after \in Surroundings
<1>1. Init => Inv
    BY DEF Init, None
<1>2. Inv /\ [Next]_input => Inv'
    BY DEF Next, CompareEntries, TakeDelivery, Respond, EncodeNumber, Seal, FailAttempt,
        EndPoll, Forget, None
<1>3. Inv => NumbersRoundTrip
    <2>1. ASSUME NEW value \in Numbers, NEW before \in Surroundings, NEW after \in Surroundings
          PROVE RoundTrips(value, before, after)
        <3>1. value \in UInt32 /\ before \in Seq(Byte) /\ after \in Seq(Byte)
            BY AlgorithmsAssumption
        <3>. QED
            BY <3>1, NumberRoundTrips
    <2>. QED
        BY <2>1 DEF NumbersRoundTrip
<1>. QED
    BY <1>1, <1>2, <1>3, PTL DEF Spec

-----------------------------------------------------------------------------
(* The envelope: lengths and their bits, where its parts stand, what decode *)
(* takes out of as many bytes of it as there are, and what becomes of them. *)

(* The halves of a length are numbers, each half of the one before.         *)
LEMMA HalvesOf ==
    ASSUME NEW n \in Nat
    PROVE /\ Halves(n)[0] = n
          /\ \A b \in 0 .. 32 : Halves(n)[b] \in Nat
          /\ \A b \in 0 .. 31 : Halves(n)[b + 1] = Halves(n)[b] \div 2
<1>. DEFINE D == 0 .. 32
            H == Halves(n)
            g == [p \in Nat \X Nat |-> p[2] \div 2]
<1>1. g \in [Nat \X Nat -> Nat] /\ \A k, x \in Nat : g[<<k, x>>] = x \div 2
    <2>1. \A x \in Nat : x \div 2 \in Nat
        OBVIOUS
    <2>. QED
        BY <2>1
<1>. HIDE DEF g
<1>2. PICK f \in [D -> Nat] : Follows(f, D, n, g)
    <2>1. D \in SUBSET Nat /\ \A k \in D : k # 0 => k - 1 \in D
        OBVIOUS
    <2>. HIDE DEF D
    <2>. QED
        BY <1>1, <2>1, RecursionHasResult
<1>3. f = [b \in 0 .. 32 |-> IF b = 0 THEN n ELSE f[b - 1] \div 2]
    <2>1. \A b \in D : f[b] = IF b = 0 THEN n ELSE f[b - 1] \div 2
        <3>1. \A b \in D : b # 0 => b - 1 \in D /\ f[b - 1] \in Nat /\ b \in Nat
            OBVIOUS
        <3>. QED
            BY <1>1, <1>2, <3>1 DEF Follows
    <2>. QED
        BY <2>1
<1>4. H = [b \in 0 .. 32 |-> IF b = 0 THEN n ELSE H[b - 1] \div 2]
    BY <1>3 DEF Halves
<1>. HIDE DEF H
<1>5. H[0] = n /\ \A b \in 0 .. 31 : H[b + 1] = H[b] \div 2
    BY <1>4
<1>. DEFINE P == {b \in Nat : b <= 32 => H[b] \in Nat}
<1>6. 0 \in P
    BY <1>5
<1>7. ASSUME NEW b \in Nat, b \in P PROVE b + 1 \in P
    <2>1. \A x \in Nat : x \div 2 \in Nat
        OBVIOUS
    <2>2. b + 1 <= 32 => b \in 0 .. 31 /\ H[b] \in Nat
        BY <1>7
    <2>3. b + 1 <= 32 => H[b + 1] \in Nat
        BY <1>5, <2>1, <2>2
    <2>. QED
        BY <2>3
<1>. HIDE DEF P
<1>8. Nat \subseteq P
    BY <1>6, <1>7, InductionOnNat
<1>9. \A b \in 0 .. 32 : H[b] \in Nat
    BY <1>8 DEF P
<1>. QED
    BY <1>5, <1>9 DEF H

(* The doubles of a number are its bits, taken in from the highest.         *)
LEMMA DoublesOf ==
    ASSUME NEW bits
    PROVE /\ Doubles(bits)[0] = 0
          /\ \A i \in 0 .. 31 : Doubles(bits)[i + 1] =
                                  2 * Doubles(bits)[i] + (IF 31 - i \in bits THEN 1 ELSE 0)
<1>. DEFINE D == 0 .. 32
            g == [p \in Nat \X Nat |-> 2 * p[2] + (IF 32 - p[1] \in bits THEN 1 ELSE 0)]
            R == Doubles(bits)
<1>1. /\ g \in [Nat \X Nat -> Nat]
      /\ \A k, x \in Nat : g[<<k, x>>] = 2 * x + (IF 32 - k \in bits THEN 1 ELSE 0)
    <2>1. \A k, x \in Nat : 2 * x + (IF 32 - k \in bits THEN 1 ELSE 0) \in Nat
        OBVIOUS
    <2>. QED
        BY <2>1
<1>. HIDE DEF g
<1>2. PICK f \in [D -> Nat] : Follows(f, D, 0, g)
    <2>1. D \in SUBSET Nat /\ \A k \in D : k # 0 => k - 1 \in D
        OBVIOUS
    <2>. HIDE DEF D
    <2>. QED
        BY <1>1, <2>1, RecursionHasResult
<1>3. f = [i \in 0 .. 32 |->
              IF i = 0 THEN 0 ELSE 2 * f[i - 1] + (IF 32 - i \in bits THEN 1 ELSE 0)]
    <2>1. \A i \in D : f[i] = IF i = 0 THEN 0
                              ELSE 2 * f[i - 1] + (IF 32 - i \in bits THEN 1 ELSE 0)
        <3>1. \A i \in D : i # 0 => i - 1 \in D /\ f[i - 1] \in Nat /\ i \in Nat
            OBVIOUS
        <3>. QED
            BY <1>1, <1>2, <3>1 DEF Follows
    <2>. QED
        BY <2>1
<1>4. R = [i \in 0 .. 32 |->
              IF i = 0 THEN 0 ELSE 2 * R[i - 1] + (IF 32 - i \in bits THEN 1 ELSE 0)]
    BY <1>3 DEF Doubles
<1>. HIDE DEF R
<1>5. R[0] = 0
    BY <1>4
<1>6. ASSUME NEW i \in 0 .. 31
      PROVE R[i + 1] = 2 * R[i] + (IF 31 - i \in bits THEN 1 ELSE 0)
    <2>1. i + 1 \in 0 .. 32 /\ i + 1 # 0 /\ (i + 1) - 1 = i /\ 32 - (i + 1) = 31 - i
        OBVIOUS
    <2>. QED
        BY <1>4, <2>1
<1>. QED
    BY <1>5, <1>6 DEF R

(* The bits of a length make the length. *)
LEMMA BitsMakeLength ==
    ASSUME NEW n \in Nat, n <= MAX_LENGTH
    PROVE Bits(n) \in UInt32 /\ Number(Bits(n)) = n
<1>. DEFINE H == Halves(n)
            R == Doubles(Bits(n))
<1>1. /\ H[0] = n /\ \A b \in 0 .. 32 : H[b] \in Nat
      /\ \A b \in 0 .. 31 : H[b + 1] = H[b] \div 2
    BY HalvesOf
<1>2. /\ R[0] = 0
      /\ \A i \in 0 .. 31 : R[i + 1] = 2 * R[i] + (IF 31 - i \in Bits(n) THEN 1 ELSE 0)
    BY DoublesOf
<1>3. \A b \in 0 .. 31 : b \in Bits(n) <=> H[b] % 2 = 1
    BY DEF Bits
<1>4. Bits(n) \in UInt32
    BY DEF Bits, UInt32
<1>. HIDE DEF H, R
<1>5. H[32] = 0
    <2>1. H[8] \in Nat /\ H[8] <= 8388607
        BY <1>1, SMT DEF MAX_LENGTH
    <2>2. H[16] \in Nat /\ H[16] <= 32767
        BY <1>1, <2>1, SMT
    <2>3. H[24] \in Nat /\ H[24] <= 127
        BY <1>1, <2>2, SMT
    <2>. QED
        BY <1>1, <2>3, SMT
<1>6. ASSUME NEW i \in 0 .. 31, R[i] = H[32 - i] PROVE R[i + 1] = H[31 - i]
    <2>. DEFINE b == 31 - i
    <2>1. b \in 0 .. 31 /\ 32 - i = b + 1
        OBVIOUS
    <2>. HIDE DEF b
    <2>2. R[i + 1] = 2 * H[b + 1] + (IF b \in Bits(n) THEN 1 ELSE 0)
        BY <1>2, <1>6, <2>1 DEF b
    <2>3. H[b] \in Nat /\ H[b + 1] = H[b] \div 2
        BY <1>1, <2>1
    <2>4. H[b] % 2 \in {0, 1} /\ H[b] = 2 * (H[b] \div 2) + (H[b] % 2)
        BY <2>3
    <2>5. (IF b \in Bits(n) THEN 1 ELSE 0) = H[b] % 2
        BY <1>3, <2>1, <2>4
    <2>6. R[i + 1] = H[b]
        BY <2>2, <2>3, <2>4, <2>5
    <2>. QED
        BY <2>6 DEF b
<1>. DEFINE P == {i \in Nat : i <= 32 => R[i] = H[32 - i]}
<1>7. 0 \in P
    BY <1>2, <1>5
<1>8. ASSUME NEW i \in Nat, i \in P PROVE i + 1 \in P
    <2>. SUFFICES ASSUME i + 1 <= 32 PROVE R[i + 1] = H[32 - (i + 1)]
        OBVIOUS
    <2>1. i \in 0 .. 31 /\ R[i] = H[32 - i] /\ 32 - (i + 1) = 31 - i
        BY <1>8
    <2>. QED
        BY <1>6, <2>1
<1>. HIDE DEF P
<1>9. Nat \subseteq P
    BY <1>7, <1>8, InductionOnNat
<1>10. R[32] = H[0]
    BY <1>9 DEF P
<1>11. Number(Bits(n)) = R[32]
    BY DEF Number, R
<1>. QED
    BY <1>1, <1>4, <1>10, <1>11

(* SubSeq takes out of a sequence what stands in it.                        *)
LEMMA CutOut ==
    ASSUME NEW S, NEW s \in Seq(S), NEW t \in Seq(S), NEW m \in Nat, NEW n \in Nat,
           n = m + Len(t), n <= Len(s), \A i \in 1 .. Len(t) : s[m + i] = t[i]
    PROVE SubSeq(s, m + 1, n) = t
<1>. DEFINE cut == SubSeq(s, m + 1, n)
<1>1. Len(t) \in Nat /\ Len(s) \in Nat
    OBVIOUS
<1>2. cut \in Seq(S) /\ Len(cut) = Len(t)
    BY <1>1
<1>3. \A i \in 1 .. Len(t) : cut[i] = t[i]
    BY <1>1
<1>. HIDE DEF cut
<1>. QED
    BY <1>2, <1>3 DEF cut

(* A part is a sequence of so many bytes.                                   *)
LEMMA PartOf ==
    ASSUME NEW of, NEW n \in Nat, NEW S, \A i \in 1 .. n : Part(of, n)[i] \in S
    PROVE Part(of, n) \in Seq(S) /\ Len(Part(of, n)) = n
BY DEF Part

(* Where two sequences stand when one is put behind the other.              *)
LEMMA JoinedPair ==
    ASSUME NEW S, NEW a \in Seq(S), NEW b \in Seq(S), NEW c, c = a \o b
    PROVE /\ c \in Seq(S) /\ Len(c) = Len(a) + Len(b)
          /\ \A i \in 1 .. Len(a) : c[i] = a[i]
          /\ \A i \in 1 .. Len(b) : c[Len(a) + i] = b[i]
<1>1. Len(a) \in Nat /\ Len(b) \in Nat
    OBVIOUS
<1>2. c \in Seq(S) /\ Len(c) = Len(a) + Len(b)
    OBVIOUS
<1>3. \A i \in 1 .. Len(a) : c[i] = a[i]
    OBVIOUS
<1>4. \A i \in 1 .. Len(b) : c[Len(a) + i] = b[i]
    BY <1>1
<1>. QED
    BY <1>2, <1>3, <1>4

(* Where five parts stand in one sequence. *)
StandIn(B, a, b, c, d, e) ==
    /\ Len(B) = Len(a) + Len(b) + Len(c) + Len(d) + Len(e)
    /\ \A i \in 1 .. Len(a) : B[i] = a[i]
    /\ \A i \in 1 .. Len(b) : B[Len(a) + i] = b[i]
    /\ \A i \in 1 .. Len(c) : B[Len(a) + Len(b) + i] = c[i]
    /\ \A i \in 1 .. Len(d) : B[Len(a) + Len(b) + Len(c) + i] = d[i]
    /\ \A i \in 1 .. Len(e) : B[Len(a) + Len(b) + Len(c) + Len(d) + i] = e[i]

(* The same of the five parts of an envelope.                               *)
LEMMA Joined ==
    ASSUME NEW S, NEW a \in Seq(S), NEW b \in Seq(S), NEW c \in Seq(S), NEW d \in Seq(S),
           NEW e \in Seq(S), NEW B, B = a \o b \o c \o d \o e
    PROVE B \in Seq(S) /\ StandIn(B, a, b, c, d, e)
<1>. DEFINE ab == a \o b
            abc == ab \o c
            abcd == abc \o d
<1>1. /\ Len(a) \in Nat /\ Len(b) \in Nat /\ Len(c) \in Nat /\ Len(d) \in Nat /\ Len(e) \in Nat
    OBVIOUS
<1>2. ab = a \o b /\ abc = ab \o c /\ abcd = abc \o d /\ B = abcd \o e
    OBVIOUS
<1>. HIDE DEF ab, abc, abcd
<1>3. /\ ab \in Seq(S) /\ Len(ab) = Len(a) + Len(b)
      /\ \A i \in 1 .. Len(a) : ab[i] = a[i]
      /\ \A i \in 1 .. Len(b) : ab[Len(a) + i] = b[i]
    BY <1>2, JoinedPair
<1>4. /\ abc \in Seq(S) /\ Len(abc) = Len(ab) + Len(c)
      /\ \A i \in 1 .. Len(ab) : abc[i] = ab[i]
      /\ \A i \in 1 .. Len(c) : abc[Len(ab) + i] = c[i]
    BY <1>2, <1>3, JoinedPair
<1>5. /\ abcd \in Seq(S) /\ Len(abcd) = Len(abc) + Len(d)
      /\ \A i \in 1 .. Len(abc) : abcd[i] = abc[i]
      /\ \A i \in 1 .. Len(d) : abcd[Len(abc) + i] = d[i]
    BY <1>2, <1>4, JoinedPair
<1>6. /\ B \in Seq(S) /\ Len(B) = Len(abcd) + Len(e)
      /\ \A i \in 1 .. Len(abcd) : B[i] = abcd[i]
      /\ \A i \in 1 .. Len(e) : B[Len(abcd) + i] = e[i]
    BY <1>2, <1>5, JoinedPair
<1>7. \A i \in 1 .. Len(a) : B[i] = a[i]
    BY <1>1, <1>3, <1>4, <1>5, <1>6, SMTT(30)
<1>8. \A i \in 1 .. Len(b) : B[Len(a) + i] = b[i]
    BY <1>1, <1>3, <1>4, <1>5, <1>6, SMTT(30)
<1>9. \A i \in 1 .. Len(c) : B[Len(a) + Len(b) + i] = c[i]
    BY <1>1, <1>3, <1>4, <1>5, <1>6, SMTT(30)
<1>10. \A i \in 1 .. Len(d) : B[Len(a) + Len(b) + Len(c) + i] = d[i]
    BY <1>1, <1>3, <1>4, <1>5, <1>6, SMTT(30)
<1>11. \A i \in 1 .. Len(e) : B[Len(a) + Len(b) + Len(c) + Len(d) + i] = e[i]
    BY <1>1, <1>3, <1>4, <1>5, <1>6, SMTT(30)
<1>12. Len(B) = Len(a) + Len(b) + Len(c) + Len(d) + Len(e)
    BY <1>3, <1>4, <1>5, <1>6
<1>. QED
    BY <1>6, <1>7, <1>8, <1>9, <1>10, <1>11, <1>12 DEF StandIn

(* The length prefix has the bytes encodeUInt32 makes of the length.        *)
LEMMA PrefixOf ==
    ASSUME NEW k \in Nat, k <= MAX_LENGTH, NEW S,
           \A i \in DOMAIN LengthPrefix(k) : LengthPrefix(k)[i] \in S
    PROVE LET prefix == LengthPrefix(k)
              p == ByteLength(Bits(k))
          IN /\ p \in 1 .. 5 /\ prefix \in Seq(S) /\ Len(prefix) = p
             /\ \A i \in 1 .. p : /\ prefix[i].bits = Shifted(Bits(k), i - 1) \cap (0 .. 6)
                                  /\ prefix[i].more <=> i < p
<1>. DEFINE value == Bits(k)
            bytes == EncodeUInt32(value)
            prefix == LengthPrefix(k)
            p == ByteLength(value)
<1>1. value \in UInt32
    BY BitsMakeLength
<1>. HIDE DEF value
<1>2. p \in 1 .. 5
    BY <1>1, LengthOfNumber
<1>3. /\ bytes \in Seq(Byte) /\ Len(bytes) = p
      /\ \A i \in 1 .. p : /\ bytes[i].bits = Shifted(value, i - 1) \cap (0 .. 6)
                           /\ bytes[i].more <=> i < p
    BY <1>1, EncodedBytes
<1>4. prefix = [i \in DOMAIN bytes |->
                  [bits |-> bytes[i].bits, more |-> bytes[i].more, of |-> <<"length", k, i>>]]
    BY DEF LengthPrefix, value
<1>. HIDE DEF bytes, p, prefix
<1>5. DOMAIN bytes = 1 .. p
    BY <1>3
<1>6. \A i \in 1 .. p : prefix[i].bits = bytes[i].bits /\ prefix[i].more = bytes[i].more
    BY <1>4, <1>5
<1>7. DOMAIN prefix = 1 .. p /\ prefix = [i \in 1 .. p |-> prefix[i]]
    BY <1>4, <1>5
<1>8. \A i \in 1 .. p : prefix[i] \in S
    BY <1>7 DEF prefix
<1>9. prefix \in Seq(S) /\ Len(prefix) = p
    BY <1>2, <1>7, <1>8
<1>10. \A i \in 1 .. p : /\ prefix[i].bits = Shifted(value, i - 1) \cap (0 .. 6)
                         /\ prefix[i].more <=> i < p
    BY <1>3, <1>6
<1>. QED
    BY <1>2, <1>9, <1>10 DEF value, p, prefix

(* subarray ends where it is told to, or where the data ends.               *)
LEMMA SubarrayOf ==
    ASSUME NEW data, Len(data) \in Nat, NEW from \in Nat, NEW to \in Nat
    PROVE Subarray(data, from, to) =
              SubSeq(data, from + 1, IF to <= Len(data) THEN to ELSE Len(data))
<1>. DEFINE E == {to, Len(data)}
<1>1. Subarray(data, from, to) = SubSeq(data, from + 1, Min(E))
    BY DEF Subarray
<1>2. E = {to, Len(data)} /\ to \in Int /\ Len(data) \in Int
    OBVIOUS
<1>. DEFINE len == Len(data)
<1>. HIDE DEF E, len
<1>3. Min(E) = IF to <= len THEN to ELSE len
    BY <1>2, MinMaxOfTwo DEF len
<1>. QED
    BY <1>1, <1>3 DEF len

(* Whatever stands in an envelope. *)
Cells(n, k) ==
    {Part("iv", IV)[i] : i \in 1 .. IV} \cup {Part("tag", TAG)[i] : i \in 1 .. TAG}
    \cup {Part("keys", k)[i] : i \in 1 .. k} \cup {Part("ciphertext", n)[i] : i \in 1 .. n}
    \cup {LengthPrefix(k)[i] : i \in DOMAIN LengthPrefix(k)}

(* The parts are sequences of what stands in the envelope.                  *)
LEMMA PartsOf ==
    ASSUME NEW n \in Nat, NEW k \in Nat
    PROVE LET S == Cells(n, k)
          IN /\ Part("iv", IV) \in Seq(S) /\ Len(Part("iv", IV)) = 12
             /\ Part("tag", TAG) \in Seq(S) /\ Len(Part("tag", TAG)) = 16
             /\ Part("keys", k) \in Seq(S) /\ Len(Part("keys", k)) = k
             /\ Part("ciphertext", n) \in Seq(S) /\ Len(Part("ciphertext", n)) = n
             /\ \A i \in DOMAIN LengthPrefix(k) : LengthPrefix(k)[i] \in S
<1>. DEFINE S == Cells(n, k)
<1>1. IV \in Nat /\ TAG \in Nat /\ IV = 12 /\ TAG = 16
    BY DEF IV, TAG
<1>2. /\ \A i \in 1 .. IV : Part("iv", IV)[i] \in S
      /\ \A i \in 1 .. TAG : Part("tag", TAG)[i] \in S
      /\ \A i \in 1 .. k : Part("keys", k)[i] \in S
      /\ \A i \in 1 .. n : Part("ciphertext", n)[i] \in S
      /\ \A i \in DOMAIN LengthPrefix(k) : LengthPrefix(k)[i] \in S
    BY DEF Cells
<1>. HIDE DEF S
<1>3. Part("iv", IV) \in Seq(S) /\ Len(Part("iv", IV)) = IV
    BY <1>1, <1>2, PartOf
<1>4. Part("tag", TAG) \in Seq(S) /\ Len(Part("tag", TAG)) = TAG
    BY <1>1, <1>2, PartOf
<1>5. Part("keys", k) \in Seq(S) /\ Len(Part("keys", k)) = k
    BY <1>2, PartOf
<1>6. Part("ciphertext", n) \in Seq(S) /\ Len(Part("ciphertext", n)) = n
    BY <1>2, PartOf
<1>. QED
    BY <1>1, <1>2, <1>3, <1>4, <1>5, <1>6 DEF S

(* encrypt cuts the tag off the ciphertext, where WebCrypto put it. *)
LEMMA TagIsCutOff ==
    ASSUME NEW n \in Nat
    PROVE SubtleEncrypt(n) = [ciphertext |-> Part("ciphertext", n), tag |-> Part("tag", TAG)]
<1>. DEFINE S == Cells(n, 0)
            cipher == Part("ciphertext", n)
            tag == Part("tag", TAG)
            gcm == AesGcm(n)
<1>1. cipher \in Seq(S) /\ Len(cipher) = n /\ tag \in Seq(S) /\ Len(tag) = 16
    BY PartsOf
<1>2. gcm = cipher \o tag /\ TAG = 16
    BY DEF AesGcm, TAG
<1>. HIDE DEF S, cipher, tag, gcm
<1>3. /\ gcm \in Seq(S) /\ Len(gcm) = n + 16
      /\ \A i \in 1 .. Len(cipher) : gcm[i] = cipher[i]
      /\ \A i \in 1 .. Len(tag) : gcm[n + i] = tag[i]
    <2>1. /\ gcm \in Seq(S) /\ Len(gcm) = Len(cipher) + Len(tag)
          /\ \A i \in 1 .. Len(cipher) : gcm[i] = cipher[i]
          /\ \A i \in 1 .. Len(tag) : gcm[Len(cipher) + i] = tag[i]
        <3>1. cipher \in Seq(S) /\ tag \in Seq(S) /\ gcm = cipher \o tag
            BY <1>1, <1>2
        <3>. QED
            BY <3>1, JoinedPair
    <2>. QED
        BY <1>1, <2>1
<1>4. SubSeq(gcm, 1, n) = cipher
    <2>. DEFINE zero == 0
    <2>1. \A i \in 1 .. Len(cipher) : gcm[zero + i] = cipher[i]
        BY <1>1, <1>3
    <2>2. zero \in Nat /\ n = zero + Len(cipher) /\ n <= Len(gcm) /\ zero + 1 = 1
        BY <1>1, <1>3
    <2>. HIDE DEF zero
    <2>3. SubSeq(gcm, zero + 1, n) = cipher
        BY <1>1, <1>3, <2>1, <2>2, CutOut
    <2>. QED
        BY <2>2, <2>3
<1>5. SubSeq(gcm, n + 1, n + 16) = tag
    <2>. DEFINE end == n + 16
    <2>1. end \in Nat /\ end = n + Len(tag) /\ end <= Len(gcm)
        BY <1>1, <1>3
    <2>. HIDE DEF end
    <2>2. SubSeq(gcm, n + 1, end) = tag
        BY <1>1, <1>3, <2>1, CutOut, ZenonT(30)
    <2>. QED
        BY <2>2 DEF end
<1>6. Len(gcm) - TAG = n /\ Len(gcm) = n + 16
    BY <1>2, <1>3
<1>. QED
    BY <1>4, <1>5, <1>6 DEF SubtleEncrypt, gcm, cipher, tag

(* Where the parts of an envelope stand. *)
IsLaidOut(n, k, B) ==
    LET p == ByteLength(Bits(k))
    IN /\ B \in Seq(Cells(n, k)) /\ Len(B) = 28 + p + k + n
       /\ \A i \in 1 .. 12 : B[i] = Part("iv", IV)[i]
       /\ \A i \in 1 .. 16 : B[12 + i] = Part("tag", TAG)[i]
       /\ \A i \in 1 .. p : /\ B[28 + i].bits = Shifted(Bits(k), i - 1) \cap (0 .. 6)
                            /\ B[28 + i].more <=> i < p
       /\ \A i \in 1 .. k : B[28 + p + i] = Part("keys", k)[i]
       /\ \A i \in 1 .. n : B[28 + p + k + i] = Part("ciphertext", n)[i]

IsJoined(n, k, buffer) ==
    buffer = Part("iv", IV) \o Part("tag", TAG) \o LengthPrefix(k) \o Part("keys", k)
             \o Part("ciphertext", n)

(* Where five parts one behind the other stand.                             *)
LEMMA EnvelopeLayout ==
    ASSUME NEW n \in Nat, NEW k \in Nat, k <= MAX_LENGTH, NEW buffer, IsJoined(n, k, buffer)
    PROVE IsLaidOut(n, k, buffer)
<1>. DEFINE S == Cells(n, k)
            B == buffer
            p == ByteLength(Bits(k))
            iv == Part("iv", IV)
            tag == Part("tag", TAG)
            prefix == LengthPrefix(k)
            keys == Part("keys", k)
            cipher == Part("ciphertext", n)
<1>1. /\ iv \in Seq(S) /\ Len(iv) = 12 /\ tag \in Seq(S) /\ Len(tag) = 16
      /\ keys \in Seq(S) /\ Len(keys) = k /\ cipher \in Seq(S) /\ Len(cipher) = n
      /\ \A i \in DOMAIN prefix : prefix[i] \in S
    BY PartsOf
<1>2. B = iv \o tag \o prefix \o keys \o cipher
    BY DEF IsJoined
<1>. HIDE DEF S
<1>3. /\ p \in 1 .. 5 /\ prefix \in Seq(S) /\ Len(prefix) = p
      /\ \A i \in 1 .. p : /\ prefix[i].bits = Shifted(Bits(k), i - 1) \cap (0 .. 6)
                           /\ prefix[i].more <=> i < p
    BY <1>1, PrefixOf
<1>. HIDE DEF B, p, iv, tag, prefix, keys, cipher
<1>4. B \in Seq(S) /\ StandIn(B, iv, tag, prefix, keys, cipher)
    <2>1. /\ iv \in Seq(S) /\ tag \in Seq(S) /\ prefix \in Seq(S)
          /\ keys \in Seq(S) /\ cipher \in Seq(S)
        BY <1>1, <1>3
    <2>. QED
        BY <1>2, <2>1, Joined
<1>5. B \in Seq(S) /\ Len(B) = 28 + p + k + n
    BY <1>1, <1>3, <1>4 DEF StandIn
<1>6. \A i \in 1 .. 12 : B[i] = iv[i]
    BY <1>1, <1>4 DEF StandIn
<1>7. \A i \in 1 .. 16 : B[12 + i] = tag[i]
    BY <1>1, <1>4 DEF StandIn
<1>8. \A i \in 1 .. p : B[28 + i] = prefix[i]
    BY <1>1, <1>3, <1>4 DEF StandIn
<1>9. \A i \in 1 .. k : B[28 + p + i] = keys[i]
    BY <1>1, <1>3, <1>4 DEF StandIn
<1>10. \A i \in 1 .. n : B[28 + p + k + i] = cipher[i]
    BY <1>1, <1>3, <1>4 DEF StandIn
<1>11. \A i \in 1 .. p : /\ B[28 + i].bits = Shifted(Bits(k), i - 1) \cap (0 .. 6)
                         /\ B[28 + i].more <=> i < p
    BY <1>3, <1>8
<1>. QED
    BY <1>3, <1>5, <1>6, <1>7, <1>9, <1>10, <1>11 DEF IsLaidOut, S, B, p, iv, tag, keys, cipher

(* encrypt lays its parts out so. *)
LEMMA EncryptLaysOut ==
    ASSUME NEW text, NEW n \in Nat, n = Len(TextEncode(text)), NEW k, NEW ad
    PROVE IsJoined(n, k, Encrypt(text, k, ad).buffer)
<1>. DEFINE cipher == Part("ciphertext", n)
            tag == Part("tag", TAG)
<1>1. SubtleEncrypt(n).tag = tag /\ SubtleEncrypt(n).ciphertext = cipher
    BY TagIsCutOff
<1>. HIDE DEF cipher, tag
<1>2. Encrypt(text, k, ad).buffer =
          Part("iv", IV) \o tag \o LengthPrefix(k) \o Part("keys", k) \o cipher
    BY <1>1 DEF Encrypt
<1>. QED
    BY <1>2 DEF IsJoined, cipher, tag

(* What decode reads of the first `size` bytes of an envelope: all of the    *)
(* length prefix, or an error.                                              *)
IsRead(n, k, B, size, data) ==
    LET S == Cells(n, k)
        p == ByteLength(Bits(k))
    IN /\ p \in 1 .. 5 /\ Len(B) = 28 + p + k + n
       /\ data \in Seq(S) /\ Len(data) = size
       /\ \A i \in 1 .. size : data[i] = B[i]
       /\ size < 28 + p => DecodeUInt32(data, 28).error \notin {"none", "opened"}
       /\ size >= 28 + p =>
             DecodeUInt32(data, 28) =
                 [error |-> "none", value |-> Bits(k), nextIndex |-> 28 + p]

(* decode reads the length prefix of an envelope unless that is cut.        *)
LEMMA CutEnvelope ==
    ASSUME NEW n \in Nat, NEW k \in Nat, k <= MAX_LENGTH, NEW B, IsLaidOut(n, k, B),
           NEW size \in Nat, size <= Len(B), NEW data, data = SubSeq(B, 1, size)
    PROVE IsRead(n, k, B, size, data)
<1>. DEFINE S == Cells(n, k)
            p == ByteLength(Bits(k))
<1>1. Bits(k) \in UInt32
    BY BitsMakeLength
<1>2. p \in 1 .. 5
    BY <1>1, LengthOfNumber
<1>3. {b \in 0 .. 31 : \E i \in 1 .. p :
           b - 7 * (i - 1) \in Shifted(Bits(k), i - 1) \cap (0 .. 6)} = Bits(k)
    BY <1>1, GroupsMakeNumber
<1>4. B \in Seq(S) /\ Len(B) = 28 + p + k + n
    BY DEF IsLaidOut
<1>5. \A i \in 1 .. p : /\ B[28 + i].bits = Shifted(Bits(k), i - 1) \cap (0 .. 6)
                        /\ B[28 + i].more <=> i < p
    BY DEF IsLaidOut
<1>. HIDE DEF S, p
<1>6. data \in Seq(S) /\ Len(data) = size /\ \A i \in 1 .. size : data[i] = B[i]
    BY <1>4
<1>7. ASSUME size < 28 + p PROVE DecodeUInt32(data, 28).error \notin {"none", "opened"}
    <2>1. \A i \in 1 .. size - 28 : i \in 1 .. p /\ i < p /\ 28 + i \in 1 .. size
        BY <1>2, <1>7
    <2>2. \A i \in 1 .. size - 28 : data[28 + i].more
        BY <1>5, <1>6, <2>1
    <2>3. Len(data) \in Nat /\ \A i \in 1 .. Len(data) - 28 : data[28 + i].more
        BY <1>6, <2>2
    <2>. QED
        BY <2>3, CutBytes
<1>8. ASSUME size >= 28 + p
      PROVE DecodeUInt32(data, 28) = [error |-> "none", value |-> Bits(k), nextIndex |-> 28 + p]
    <2>1. \A i \in 1 .. p : 28 + i \in 1 .. size
        BY <1>2, <1>8
    <2>2. \A i \in 1 .. p : data[28 + i].bits = Shifted(Bits(k), i - 1) \cap (0 .. 6)
        BY <1>5, <1>6, <2>1
    <2>3. \A i \in 1 .. p : data[28 + i].more <=> i < p
        BY <1>5, <1>6, <2>1
    <2>4. Len(data) \in Nat /\ 28 + p <= Len(data)
        BY <1>2, <1>6, <1>8
    <2>5. DecodeUInt32(data, 28) =
              [error |-> "none", value |-> Gathered(data, 28, p), nextIndex |-> 28 + p]
        BY <1>2, <2>3, <2>4, DecodedBytes
    <2>6. Gathered(data, 28, p) = Bits(k)
        BY <1>3, <2>2 DEF Gathered
    <2>. QED
        BY <2>5, <2>6
<1>. QED
    BY <1>2, <1>4, <1>6, <1>7, <1>8 DEF IsRead, S, p

(* A part that stands whole in the data is what subarray returns.           *)
StandsAt(S, t, data, from, to) ==
    /\ t \in Seq(S) /\ data \in Seq(S) /\ from \in Nat /\ to \in Nat
    /\ to = from + Len(t) /\ to <= Len(data)
    /\ \A i \in 1 .. Len(t) : data[from + i] = t[i]

LEMMA PartIsTaken ==
    ASSUME NEW S, NEW t, NEW data, NEW from, NEW to, StandsAt(S, t, data, from, to)
    PROVE Subarray(data, from, to) = t
<1>1. t \in Seq(S) /\ data \in Seq(S) /\ from \in Nat /\ to \in Nat
    BY DEF StandsAt
<1>2. Len(data) \in Nat
    BY <1>1
<1>3. Subarray(data, from, to) = SubSeq(data, from + 1, IF to <= Len(data) THEN to ELSE Len(data))
    BY <1>1, <1>2, SubarrayOf
<1>4. Subarray(data, from, to) = SubSeq(data, from + 1, to)
    BY <1>1, <1>2, <1>3 DEF StandsAt
<1>5. SubSeq(data, from + 1, to) = t
    <2>1. to = from + Len(t) /\ to <= Len(data) /\ \A i \in 1 .. Len(t) : data[from + i] = t[i]
        BY DEF StandsAt
    <2>. QED
        BY <1>1, <2>1, CutOut
<1>. QED
    BY <1>4, <1>5

(* subarray ends where the data ends. *)
LEMMA CutIsTaken ==
    ASSUME NEW S, NEW data \in Seq(S), NEW from \in Nat, NEW to \in Nat,
           from <= Len(data), Len(data) <= to
    PROVE /\ Subarray(data, from, to) \in Seq(S)
          /\ Len(Subarray(data, from, to)) = Len(data) - from
<1>1. Len(data) \in Nat
    OBVIOUS
<1>2. Subarray(data, from, to) = SubSeq(data, from + 1, IF to <= Len(data) THEN to ELSE Len(data))
    BY <1>1, SubarrayOf
<1>3. (IF to <= Len(data) THEN to ELSE Len(data)) = Len(data)
    BY <1>1
<1>4. Subarray(data, from, to) = SubSeq(data, from + 1, Len(data))
    BY <1>2, <1>3
<1>5. /\ SubSeq(data, from + 1, Len(data)) \in Seq(S)
      /\ Len(SubSeq(data, from + 1, Len(data))) = Len(data) - from
    BY <1>1
<1>. QED
    BY <1>4, <1>5

(* What decode takes out of the first `size` bytes of an envelope that hold  *)
(* the length prefix: the data key only if they hold all of it, and as much *)
(* ciphertext as they have left.                                            *)
IsDecoded(n, k, B, size, d) ==
    LET start == 28 + ByteLength(Bits(k))
        S == Cells(n, k)
    IN /\ d.error = "none" /\ d.iv = Part("iv", IV) /\ d.tag = Part("tag", TAG)
       /\ d.keys = Part("keys", k) => size >= start + k
       /\ size >= start + k =>
             /\ d.keys = Part("keys", k)
             /\ d.ciphertext \in Seq(S) /\ Len(d.ciphertext) = size - (start + k)
       /\ size = Len(B) => d.ciphertext = Part("ciphertext", n)

(* decode takes out of an envelope what encrypt put in, as far as it        *)
(* goes.                                                                    *)
LEMMA DecodedParts ==
    ASSUME NEW n \in Nat, NEW k \in Nat, k <= MAX_LENGTH, NEW B, IsLaidOut(n, k, B),
           NEW size \in Nat, size <= Len(B), NEW data, data = SubSeq(B, 1, size),
           size >= 28 + ByteLength(Bits(k))
    PROVE IsDecoded(n, k, B, size, Decode(data))
<1>. DEFINE S == Cells(n, k)
            p == ByteLength(Bits(k))
<1>1. /\ p \in 1 .. 5 /\ Len(B) = 28 + p + k + n
      /\ data \in Seq(S) /\ Len(data) = size
      /\ \A i \in 1 .. size : data[i] = B[i]
      /\ DecodeUInt32(data, 28) = [error |-> "none", value |-> Bits(k), nextIndex |-> 28 + p]
    <2>1. IsRead(n, k, B, size, data)
        BY CutEnvelope
    <2>2. size >= 28 + p
        OBVIOUS
    <2>. QED
        BY <2>1, <2>2 DEF IsRead
<1>. DEFINE start == 28 + p
            iv == Part("iv", IV)
            tag == Part("tag", TAG)
            keys == Part("keys", k)
            cipher == Part("ciphertext", n)
            taken == Subarray(data, start, start + k)
            rest == Subarray(data, start + k, Len(data))
<1>2. /\ iv \in Seq(S) /\ Len(iv) = 12 /\ tag \in Seq(S) /\ Len(tag) = 16
      /\ keys \in Seq(S) /\ Len(keys) = k /\ cipher \in Seq(S) /\ Len(cipher) = n
    BY PartsOf
<1>3. /\ \A i \in 1 .. 12 : B[i] = iv[i]
      /\ \A i \in 1 .. 16 : B[12 + i] = tag[i]
      /\ \A i \in 1 .. k : B[28 + p + i] = keys[i]
      /\ \A i \in 1 .. n : B[28 + p + k + i] = cipher[i]
    BY DEF IsLaidOut
<1>4. IV + TAG = 28 /\ IV = 12 /\ TAG = 16
    BY DEF IV, TAG
<1>5. Number(Bits(k)) = k
    BY BitsMakeLength
<1>6. start = 28 + p /\ size >= start
    OBVIOUS
<1>7. Decode(data) = [error |-> "none", iv |-> Subarray(data, 0, 12),
                     tag |-> Subarray(data, 12, 28), keys |-> taken, ciphertext |-> rest]
    <2>. DEFINE prefix == DecodeUInt32(data, 28)
                next == 28 + p
    <2>1. prefix = [error |-> "none", value |-> Bits(k), nextIndex |-> next]
        BY <1>1
    <2>2. Decode(data) =
              IF prefix.error # "none" THEN [error |-> prefix.error]
              ELSE [error |-> "none", iv |-> Subarray(data, 0, 12),
                    tag |-> Subarray(data, 12, 28),
                    keys |-> Subarray(data, prefix.nextIndex,
                                      prefix.nextIndex + Number(prefix.value)),
                    ciphertext |-> Subarray(data, prefix.nextIndex + Number(prefix.value),
                                            Len(data))]
        BY <1>4 DEF Decode
    <2>. HIDE DEF prefix, next
    <2>3. prefix.error = "none" /\ prefix.nextIndex = next /\ Number(prefix.value) = k
        BY <1>5, <2>1
    <2>4. next = start
        BY DEF next
    <2>. HIDE DEF start
    <2>. QED
        BY <2>2, <2>3, <2>4
<1>. HIDE DEF S, p, iv, tag, keys, cipher, start, taken, rest
<1>8. Subarray(data, 0, 12) = iv
    <2>. DEFINE zero == 0
                to == 12
    <2>1. StandsAt(S, iv, data, zero, to)
        <3>1. \A i \in 1 .. 12 : i \in 1 .. size /\ zero + i = i
            BY <1>1, <1>6
        <3>2. 12 <= Len(data)
            BY <1>1, <1>6
        <3>3. \A i \in 1 .. 12 : data[zero + i] = iv[i]
            BY <1>1, <1>3, <3>1
        <3>4. \A i \in 1 .. Len(iv) : data[zero + i] = iv[i]
            BY <1>2, <3>3
        <3>5. iv \in Seq(S) /\ data \in Seq(S) /\ zero \in Nat /\ to \in Nat
            BY <1>1, <1>2
        <3>. QED
            BY <3>5, <1>2, <3>2, <3>4 DEF StandsAt
    <2>. HIDE DEF zero, to
    <2>2. Subarray(data, zero, to) = iv
        BY <2>1, PartIsTaken
    <2>. QED
        BY <2>2 DEF zero, to
<1>9. Subarray(data, 12, 28) = tag
    <2>. DEFINE from == 12
                to == 28
    <2>1. StandsAt(S, tag, data, from, to)
        <3>1. \A i \in 1 .. 16 : from + i \in 1 .. size
            BY <1>1, <1>6
        <3>2. \A i \in 1 .. 16 : data[from + i] = tag[i]
            BY <1>1, <1>3, <3>1
        <3>3. 28 <= Len(data)
            BY <1>1, <1>6
        <3>4. \A i \in 1 .. Len(tag) : data[from + i] = tag[i]
            BY <1>2, <3>2
        <3>5. tag \in Seq(S) /\ data \in Seq(S) /\ from \in Nat /\ to \in Nat
            BY <1>1, <1>2
        <3>. QED
            BY <3>5, <1>2, <3>3, <3>4 DEF StandsAt
    <2>. HIDE DEF from, to
    <2>2. Subarray(data, from, to) = tag
        BY <2>1, PartIsTaken
    <2>. QED
        BY <2>2 DEF from, to
<1>10. start \in Nat /\ start + k \in Nat /\ size = Len(data) /\ Len(data) \in Nat
    BY <1>1, <1>6
<1>11. ASSUME size < start + k PROVE taken # keys
    <2>. DEFINE to == start + k
    <2>1. start \in Nat /\ to \in Nat /\ start <= Len(data) /\ Len(data) <= to
        BY <1>6, <1>10, <1>11
    <2>2. Len(data) - start < k
        BY <1>10, <1>11
    <2>. HIDE DEF to
    <2>3. data \in Seq(S)
        BY <1>1
    <2>4. Len(Subarray(data, start, to)) = Len(data) - start
        BY <2>1, <2>3, CutIsTaken
    <2>5. Len(taken) < k
        BY <2>2, <2>4 DEF taken, to
    <2>. QED
        BY <1>2, <2>5
<1>12. ASSUME size >= start + k PROVE taken = keys
    <2>. DEFINE to == start + k
    <2>1. StandsAt(S, keys, data, start, to)
        <3>1. \A i \in 1 .. k : start + i \in 1 .. size
            BY <1>6, <1>10, <1>12
        <3>2. \A i \in 1 .. k : data[start + i] = B[start + i]
            BY <1>1, <3>1
        <3>3. \A i \in 1 .. k : data[start + i] = keys[i]
            BY <1>3, <1>6, <3>2
        <3>4. keys \in Seq(S) /\ data \in Seq(S) /\ start \in Nat /\ to \in Nat
            BY <1>1, <1>2, <1>10
        <3>. QED
            BY <3>4, <1>2, <1>10, <1>12, <3>3 DEF StandsAt
    <2>. HIDE DEF to
    <2>2. Subarray(data, start, to) = keys
        BY <2>1, PartIsTaken
    <2>. QED
        BY <2>2 DEF to, taken
<1>13. ASSUME size >= start + k PROVE rest \in Seq(S) /\ Len(rest) = size - (start + k)
    <2>. DEFINE from == start + k
                to == Len(data)
    <2>1. from \in Nat /\ to \in Nat /\ from <= Len(data) /\ Len(data) <= to /\ size = Len(data)
        BY <1>10, <1>13
    <2>. HIDE DEF from, to
    <2>2. data \in Seq(S)
        BY <1>1
    <2>3. Subarray(data, from, to) \in Seq(S) /\ Len(Subarray(data, from, to)) = Len(data) - from
        BY <2>1, <2>2, CutIsTaken
    <2>. QED
        BY <2>1, <2>3 DEF from, to, rest
<1>14. ASSUME size = Len(B) PROVE rest = cipher
    <2>. DEFINE from == start + k
                to == Len(data)
    <2>1. StandsAt(S, cipher, data, from, to)
        <3>1. size = start + k + n
            BY <1>1, <1>6, <1>14
        <3>2. \A i \in 1 .. n : from + i \in 1 .. size
            BY <1>10, <3>1
        <3>3. \A i \in 1 .. n : data[from + i] = B[from + i]
            BY <1>1, <3>2
        <3>4. \A i \in 1 .. n : from + i = 28 + p + k + i
            BY <1>6, <1>1
        <3>5. \A i \in 1 .. n : data[from + i] = cipher[i]
            BY <1>3, <3>3, <3>4
        <3>6. cipher \in Seq(S) /\ data \in Seq(S) /\ from \in Nat /\ to \in Nat
            BY <1>1, <1>2, <1>10
        <3>. QED
            BY <1>2, <1>10, <3>1, <3>5, <3>6, SMTT(30) DEF StandsAt
    <2>. HIDE DEF from, to
    <2>2. Subarray(data, from, to) = cipher
        BY <2>1, PartIsTaken
    <2>. QED
        BY <2>2 DEF from, to, rest
<1>15. /\ Decode(data).error = "none" /\ Decode(data).iv = iv /\ Decode(data).tag = tag
       /\ Decode(data).keys = taken /\ Decode(data).ciphertext = rest
    BY <1>7, <1>8, <1>9
<1>16. start + k \in Nat /\ size \in Nat
    BY <1>10
<1>17. /\ taken = keys => size >= start + k
       /\ size >= start + k => /\ taken = keys
                               /\ rest \in Seq(S) /\ Len(rest) = size - (start + k)
    BY <1>11, <1>12, <1>13, <1>16
<1>. QED
    BY <1>14, <1>15, <1>17 DEF IsDecoded, S, p, start, iv, tag, keys, cipher

(* What AES-GCM sealed. *)
IsSealed(n, d) == d.ciphertext \o d.tag = AesGcm(n)

(* What decode puts together again is what was sealed only if nothing is    *)
(* cut.                                                                     *)
LEMMA SealIsWhole ==
    ASSUME NEW n \in Nat, NEW k \in Nat, NEW B, NEW size \in Nat, size <= Len(B), NEW d,
           IsDecoded(n, k, B, size, d), Len(B) = 28 + ByteLength(Bits(k)) + k + n,
           ByteLength(Bits(k)) \in 1 .. 5, d.keys = Part("keys", k)
    PROVE IsSealed(n, d) <=> size = Len(B)
<1>. DEFINE S == Cells(n, k)
            p == ByteLength(Bits(k))
            start == 28 + p
            tag == Part("tag", TAG)
            cipher == Part("ciphertext", n)
            taken == d.ciphertext
<1>1. /\ tag \in Seq(S) /\ Len(tag) = 16
      /\ cipher \in Seq(S) /\ Len(cipher) = n
    BY PartsOf
<1>2. /\ d.tag = tag /\ size >= start + k
      /\ taken \in Seq(S) /\ Len(taken) = size - (start + k)
      /\ size = Len(B) => taken = cipher
    BY DEF IsDecoded
<1>3. AesGcm(n) = cipher \o tag
    BY DEF AesGcm
<1>4. Len(B) = start + k + n /\ start \in Nat
    OBVIOUS
<1>. HIDE DEF S, p, start, tag, cipher, taken
<1>5. Len(taken \o tag) = Len(taken) + 16 /\ Len(cipher \o tag) = n + 16
    <2>1. taken \in Seq(S) /\ cipher \in Seq(S) /\ tag \in Seq(S)
        BY <1>1, <1>2
    <2>2. /\ Len(taken \o tag) = Len(taken) + Len(tag)
          /\ Len(cipher \o tag) = Len(cipher) + Len(tag)
        BY <2>1
    <2>. QED
        BY <1>1, <2>2
<1>6. ASSUME taken \o tag = cipher \o tag PROVE size = Len(B)
    <2>1. Len(taken) + 16 = n + 16
        BY <1>5, <1>6
    <2>2. Len(taken) = size - (start + k)
        BY <1>2
    <2>. QED
        BY <1>4, <2>1, <2>2
<1>. QED
    BY <1>2, <1>3, <1>6 DEF IsSealed, taken

(* decrypt opens a whole envelope, with its associated data, and no         *)
(* other.                                                                   *)
LEMMA OnlyWholeIsOpened ==
    ASSUME NEW n \in Nat, NEW k \in Nat, k <= MAX_LENGTH, NEW sealed,
           Len(sealed.plaintext) = n, sealed.keyLength = k, IsLaidOut(n, k, sealed.buffer),
           NEW size \in Nat, size <= Len(sealed.buffer), NEW ad
    PROVE LET opened == Decrypt(sealed, size, ad)
          IN /\ opened.error = "none" <=>
                    size = Len(sealed.buffer) /\ AadBuffer(ad) = sealed.aad
             /\ opened.error = "none" => opened.text = TextDecode(sealed.plaintext)
<1>. DEFINE B == sealed.buffer
            data == SubSeq(B, 1, size)
            p == ByteLength(Bits(k))
            d == Decode(data)
            result == Decrypt(sealed, size, ad)
            aad == AadBuffer(ad)
            whole == Part("keys", k)
<1>1. IsRead(n, k, B, size, data)
    <2>. DEFINE cut == data
    <2>1. IsLaidOut(n, k, B) /\ size <= Len(B) /\ cut = SubSeq(B, 1, size)
        OBVIOUS
    <2>. HIDE DEF B, cut
    <2>2. IsRead(n, k, B, size, cut)
        BY <2>1, CutEnvelope
    <2>. QED
        BY <2>2 DEF cut
<1>2. p \in 1 .. 5 /\ Len(B) = 28 + p + k + n
    BY <1>1 DEF IsRead
<1>3. result = IF d.error # "none" THEN [error |-> d.error]
               ELSE IF ~DecryptDataKey(d.keys, sealed) THEN [error |-> "data key refused"]
               ELSE IF ~SubtleDecrypt(d, aad, sealed) THEN [error |-> "not authentic"]
               ELSE [error |-> "none", text |-> TextDecode(sealed.plaintext)]
    BY DEF Decrypt
<1>4. DecryptDataKey(d.keys, sealed) <=> d.keys = whole
    BY DEF DecryptDataKey
<1>5. SubtleDecrypt(d, aad, sealed) <=>
          IsSealed(n, d) /\ d.iv = Part("iv", IV) /\ aad = sealed.aad
    BY DEF SubtleDecrypt, IsSealed
<1>6. CASE size < 28 + p
    <2>. DEFINE prefix == DecodeUInt32(data, 28)
    <2>1. prefix.error \notin {"none", "opened"}
        BY <1>1, <1>6 DEF IsRead
    <2>2. IV + TAG = 28
        BY DEF IV, TAG
    <2>3. d = [error |-> prefix.error]
        BY <2>1, <2>2 DEF Decode
    <2>. HIDE DEF prefix, d, result
    <2>4. d.error = prefix.error
        BY <2>3
    <2>5. result.error # "none"
        BY <1>3, <2>1, <2>4
    <2>6. size # Len(B)
        BY <1>2, <1>6
    <2>. QED
        BY <2>5, <2>6 DEF result, B
<1>7. CASE size >= 28 + p
    <2>1. IsDecoded(n, k, B, size, d)
        <3>. DEFINE cut == data
        <3>1. /\ IsLaidOut(n, k, B) /\ size <= Len(B) /\ cut = SubSeq(B, 1, size)
              /\ size >= 28 + ByteLength(Bits(k))
            BY <1>7
        <3>. HIDE DEF B, cut
        <3>2. IsDecoded(n, k, B, size, Decode(cut))
            BY <3>1, DecodedParts
        <3>. QED
            BY <3>2 DEF cut
    <2>2. d.error = "none" /\ d.iv = Part("iv", IV)
        BY <2>1 DEF IsDecoded
    <2>3. ASSUME d.keys = whole
          PROVE IsSealed(n, d) <=> size = Len(B)
        <3>1. /\ size <= Len(B) /\ Len(B) = 28 + ByteLength(Bits(k)) + k + n
              /\ ByteLength(Bits(k)) \in 1 .. 5 /\ d.keys = Part("keys", k)
            BY <1>2, <2>3
        <3>. HIDE DEF B, d
        <3>. QED
            BY <2>1, <3>1, SealIsWhole
    <2>4. ASSUME size = Len(B) PROVE d.keys = whole
        <3>1. size >= 28 + p + k
            BY <1>2, <2>4
        <3>. HIDE DEF B, d
        <3>. QED
            BY <2>1, <3>1 DEF IsDecoded
    <2>. DEFINE text == TextDecode(sealed.plaintext)
                opens == d.keys = whole /\ IsSealed(n, d) /\ aad = sealed.aad
    <2>5. opens <=> size = Len(B) /\ aad = sealed.aad
        BY <2>3, <2>4
    <2>6. /\ opens => result = [error |-> "none", text |-> text]
          /\ ~opens => result \in {[error |-> "data key refused"], [error |-> "not authentic"]}
        <3>. HIDE DEF B, d, result, aad, whole
        <3>1. opens <=> DecryptDataKey(d.keys, sealed) /\ SubtleDecrypt(d, aad, sealed)
            BY <1>4, <1>5, <2>2
        <3>2. opens => result = [error |-> "none", text |-> text]
            BY <1>3, <2>2, <3>1
        <3>3. ~opens =>
                result \in {[error |-> "data key refused"], [error |-> "not authentic"]}
            <4>. HIDE DEF text
            <4>. QED
                BY <1>3, <2>2, <3>1, Zenon
        <3>. QED
            BY <3>2, <3>3
    <2>. HIDE DEF opens, result, text
    <2>7. CASE opens
        <3>1. result.error = "none" /\ result.text = text
            BY <2>6, <2>7
        <3>. QED
            BY <2>5, <2>7, <3>1 DEF result, text
    <2>8. CASE ~opens
        <3>1. \/ result = [error |-> "data key refused"]
              \/ result = [error |-> "not authentic"]
            BY <2>6, <2>8
        <3>2. CASE result = [error |-> "data key refused"]
            <4>1. result.error = "data key refused"
                BY <3>2
            <4>. QED
                BY <2>5, <2>8, <4>1 DEF result
        <3>3. CASE result = [error |-> "not authentic"]
            <4>1. result.error = "not authentic"
                BY <3>3
            <4>. QED
                BY <2>5, <2>8, <4>1 DEF result
        <3>. QED
            BY <3>1, <3>2, <3>3
    <2>. QED
        BY <2>7, <2>8
<1>. QED
    BY <1>2, <1>6, <1>7

(* Characters as a set the provers can take elements of. *)
Characters == STRING \cup {REPLACEMENT}

(* What is left of a text in its bytes: as many characters, each itself or, *)
(* for a lone surrogate, its replacement.                                   *)
LEMMA EncodedText ==
    ASSUME NEW text \in Seq(Characters)
    PROVE /\ TextEncode(text) \in Seq(Characters) /\ Len(TextEncode(text)) = Len(text)
          /\ Len(text) \in Nat
          /\ \A i \in 1 .. Len(text) :
                TextEncode(text)[i] = IF text[i] = LONE THEN REPLACEMENT ELSE text[i]
<1>1. Len(text) \in Nat /\ DOMAIN text = 1 .. Len(text)
    OBVIOUS
<1>2. REPLACEMENT \in Characters
    BY DEF Characters
<1>3. \A i \in 1 .. Len(text) :
          (IF text[i] = LONE THEN REPLACEMENT ELSE text[i]) \in Characters
    BY <1>2
<1>. QED
    BY <1>1, <1>3 DEF TextEncode

(* Characters that stand alike in the bytes.                                *)
LEMMA CharactersAlike ==
    ASSUME NEW a, NEW b
    PROVE (IF a = LONE THEN REPLACEMENT ELSE a) = (IF b = LONE THEN REPLACEMENT ELSE b)
            <=> a = b \/ {a, b} \subseteq {LONE, REPLACEMENT}
OBVIOUS

(* '' and no associated data are one; any others are told apart unless they *)
(* encode alike.                                                            *)
LEMMA AadTellsApart ==
    ASSUME NEW a \in Seq(Characters), NEW b \in Seq(Characters)
    PROVE AadBuffer(a) = AadBuffer(b) <=> EncodeAlike(a, b)
<1>. DEFINE x == TextEncode(a)
            y == TextEncode(b)
<1>1. /\ x \in Seq(Characters) /\ y \in Seq(Characters)
      /\ Len(x) = Len(a) /\ Len(y) = Len(b) /\ Len(a) \in Nat /\ Len(b) \in Nat
      /\ \A i \in 1 .. Len(a) : x[i] = IF a[i] = LONE THEN REPLACEMENT ELSE a[i]
      /\ \A i \in 1 .. Len(b) : y[i] = IF b[i] = LONE THEN REPLACEMENT ELSE b[i]
    BY EncodedText
<1>2. AadBuffer(a) = x /\ AadBuffer(b) = y
    <2>1. \A z \in Seq(Characters) : Len(z) = 0 => z = <<>>
        OBVIOUS
    <2>. HIDE DEF x, y
    <2>2. (Len(a) = 0 => x = <<>>) /\ (Len(b) = 0 => y = <<>>)
        BY <1>1, <2>1
    <2>. QED
        BY <2>2 DEF AadBuffer, x, y
<1>. HIDE DEF x, y
<1>3. x = y <=> Len(a) = Len(b) /\ \A i \in 1 .. Len(a) : x[i] = y[i]
    BY <1>1
<1>4. ASSUME Len(a) = Len(b), NEW i \in 1 .. Len(a)
      PROVE x[i] = y[i] <=> a[i] = b[i] \/ {a[i], b[i]} \subseteq {LONE, REPLACEMENT}
    <2>1. /\ x[i] = IF a[i] = LONE THEN REPLACEMENT ELSE a[i]
          /\ y[i] = IF b[i] = LONE THEN REPLACEMENT ELSE b[i]
        BY <1>1, <1>4
    <2>. QED
        BY <2>1, CharactersAlike
<1>. QED
    BY <1>2, <1>3, <1>4 DEF EncodeAlike

(* The conversion to bytes and back keeps a text without a byte order mark  *)
(* in front and without lone surrogates, and no other.                      *)
LEMMA TextSurvives ==
    ASSUME NEW text \in Seq(Characters)
    PROVE TextDecode(TextEncode(text)) = text <=> Survives(text)
<1>. DEFINE x == TextEncode(text)
<1>1. /\ x \in Seq(Characters) /\ Len(x) = Len(text) /\ Len(text) \in Nat
      /\ \A i \in 1 .. Len(text) : x[i] = IF text[i] = LONE THEN REPLACEMENT ELSE text[i]
    BY EncodedText
<1>2. BOM # LONE /\ BOM # REPLACEMENT /\ LONE # REPLACEMENT
    BY DEF BOM, LONE, REPLACEMENT
<1>. HIDE DEF x
<1>3. ASSUME Len(text) > 0, text[1] = BOM PROVE TextDecode(x) # text /\ ~Survives(text)
    <2>1. x[1] = BOM /\ Len(x) > 0
        BY <1>1, <1>2, <1>3
    <2>2. TextDecode(x) = Tail(x) /\ Len(Tail(x)) = Len(text) - 1
        BY <1>1, <2>1 DEF TextDecode
    <2>3. Len(TextDecode(x)) # Len(text)
        BY <1>1, <2>2
    <2>. QED
        BY <1>3, <2>3 DEF Survives
<1>4. ASSUME Len(text) > 0 => text[1] # BOM
      PROVE TextDecode(x) = text <=> Survives(text)
    <2>1. Len(x) > 0 => x[1] # BOM
        BY <1>1, <1>2, <1>4
    <2>2. TextDecode(x) = x
        BY <2>1 DEF TextDecode
    <2>3. x = text <=> \A i \in 1 .. Len(text) : x[i] = text[i]
        BY <1>1
    <2>4. \A i \in 1 .. Len(text) : x[i] = text[i] <=> text[i] # LONE
        BY <1>1, <1>2
    <2>. QED
        BY <1>4, <2>2, <2>3, <2>4 DEF Survives
<1>. QED
    BY <1>3, <1>4 DEF x

(* So much for one envelope.                                                *)
LEMMA EnvelopeOpensOnce ==
    ASSUME NEW text \in Seq(Characters), NEW k \in Nat, k <= MAX_LENGTH,
           NEW for \in Seq(Characters), NEW by \in Seq(Characters),
           NEW size \in 0 .. Len(Encrypt(text, k, for).buffer)
    PROVE OpensAsSealed(text, k, size, for, by)
<1>. DEFINE n == Len(TextEncode(text))
            sealed == Encrypt(text, k, for)
            buffer == sealed.buffer
            opened == Decrypt(sealed, size, by)
<1>0. n \in Nat
    BY EncodedText
<1>1. IsLaidOut(n, k, buffer)
    <2>. DEFINE m == n
    <2>1. m \in Nat /\ m = Len(TextEncode(text))
        BY <1>0
    <2>. HIDE DEF m
    <2>. DEFINE laid == Encrypt(text, k, for).buffer
    <2>2. IsJoined(m, k, laid)
        BY <2>1, EncryptLaysOut
    <2>. HIDE DEF laid
    <2>3. IsLaidOut(m, k, laid)
        BY <2>1, <2>2, EnvelopeLayout
    <2>. QED
        BY <2>3 DEF m, laid
<1>2. /\ sealed.plaintext = TextEncode(text) /\ Len(sealed.plaintext) = n
      /\ sealed.keyLength = k /\ sealed.aad = AadBuffer(for)
    BY DEF Encrypt
<1>3. Len(buffer) \in Nat
    <2>. HIDE DEF buffer
    <2>. QED
        BY <1>1 DEF IsLaidOut
<1>4. size \in Nat /\ size <= Len(buffer)
    <2>1. size \in 0 .. Len(buffer)
        OBVIOUS
    <2>. HIDE DEF buffer
    <2>. QED
        BY <1>3, <2>1
<1>5. OpensAsSealed(text, k, size, for, by) <=>
          /\ opened.error = "none" <=> size = Len(buffer) /\ EncodeAlike(for, by)
          /\ opened.error = "none" => (opened.text = text <=> Survives(text))
    BY DEF OpensAsSealed
<1>. HIDE DEF sealed, n
<1>6. /\ opened.error = "none" <=> size = Len(buffer) /\ AadBuffer(by) = sealed.aad
      /\ opened.error = "none" => opened.text = TextDecode(sealed.plaintext)
    BY <1>0, <1>1, <1>2, <1>4, OnlyWholeIsOpened
<1>7. AadBuffer(by) = sealed.aad <=> EncodeAlike(for, by)
    <2>1. AadBuffer(for) = AadBuffer(by) <=> EncodeAlike(for, by)
        BY AadTellsApart
    <2>. QED
        BY <1>2, <2>1
<1>8. TextDecode(sealed.plaintext) = text <=> Survives(text)
    BY <1>2, TextSurvives
<1>. HIDE DEF buffer, opened
<1>. QED
    BY <1>5, <1>6, <1>7, <1>8

(* decrypt opens an envelope that is whole with the associated data it was  *)
(* sealed with, and nothing else, for texts and wrapped keys of every       *)
(* length, and returns the text itself exactly when that has no byte order  *)
(* mark in front and no lone surrogate (EnvelopeOpens).                     *)
THEOREM EnvelopesOpenAsSealed == Spec => []EnvelopeOpens
<1>. DEFINE Inv == input.of = "seal" => input.seal \in SealInputs
<1>1. Init => Inv
    BY DEF Init, None
<1>2. Inv /\ [Next]_input => Inv'
    BY DEF Next, CompareEntries, TakeDelivery, Respond, EncodeNumber, Seal, FailAttempt,
        EndPoll, Forget, None
<1>3. Inv => EnvelopeOpens
    <2>1. ASSUME NEW s \in SealInputs
          PROVE OpensAsSealed(s.text, s.keyLength, s.size, s.sealedFor, s.openedFor)
        <3>. DEFINE text == s.text
                    k == s.keyLength
                    size == s.size
                    for == s.sealedFor
                    by == s.openedFor
        <3>1. /\ text \in Seq(Characters) /\ k \in Nat /\ k <= MAX_LENGTH
              /\ for \in Seq(Characters) /\ by \in Seq(Characters)
              /\ size \in 0 .. Len(Encrypt(text, k, for).buffer)
            <4>1. IsSealInput(s)
                BY AlgorithmsAssumption
            <4>2. \A x \in Seq(STRING) : x \in Seq(Characters)
                BY DEF Characters
            <4>. QED
                BY <4>1, <4>2 DEF IsSealInput
        <3>. HIDE DEF text, k, size, for, by
        <3>2. OpensAsSealed(text, k, size, for, by)
            BY <3>1, EnvelopeOpensOnce
        <3>. QED
            BY <3>2 DEF text, k, size, for, by
    <2>. QED
        BY <2>1 DEF EnvelopeOpens
<1>. QED
    BY <1>1, <1>2, <1>3, PTL DEF Spec
=============================================================================
