------------------------------- MODULE Events -------------------------------
(***************************************************************************)
(* Events as the API sends them and as an application gets them, from a     *)
(* webhook or from Events.listEvents: the declarations of                   *)
(* common/interfaces/event.interface.ts and the switch of                   *)
(* common/serializers/event.serializer.ts, whose default branch passes on   *)
(* what it does not know and casts it to Event, so that the compiler does   *)
(* not ask for a case per event.                                            *)
(*                                                                         *)
(* An event name is the pair <<family, verb>>.  `data` has a type, named    *)
(* after the application's interface, in two forms: the wire's              *)
(* (UserResponse) and the application's (User).  What a deserializer does   *)
(* to single fields is left out: it takes its type from one to the other.   *)
(***************************************************************************)
EXTENDS Sequences, FiniteSets

Names(family, verbs) == {<<family, verb>> : verb \in verbs}
CRUD == {"created", "updated", "deleted"}

(* Events whose data has a type; a table of events is a set of these. *)
Typed(names, type) == {[event |-> n, type |-> type] : n \in names}

SignInVerbs ==
    {"email_verification_succeeded", "magic_auth_failed", "magic_auth_succeeded",
     "mfa_succeeded", "oauth_failed", "oauth_succeeded", "passkey_failed",
     "passkey_succeeded", "password_failed", "password_succeeded", "sso_failed",
     "sso_succeeded"}

-----------------------------------------------------------------------------
(* The declarations: two interfaces, XEvent and XEventResponse, per event.  *)

DeclaredAuthenticationEvents ==
    Typed(Names("authentication", SignInVerbs), "AuthenticationEvent")
    \cup Typed(Names("authentication", {"radar_risk_detected"}),
              "AuthenticationRadarRiskDetectedEventData")

DeclaredDirectoryEvents ==
    Typed(Names("connection", {"activated", "deactivated", "deleted"}), "Connection")
    \cup Typed(Names("dsync", {"activated"}), "EventDirectory")
    \cup Typed(Names("dsync", {"deleted"}), "DeletedEventDirectory")
    \cup Typed(Names("dsync.group", {"created", "deleted"}), "DirectoryGroup")
    \cup Typed(Names("dsync.group", {"updated"}), "UpdatedDirectoryGroup")
    \cup Typed(Names("dsync.group", {"user_added", "user_removed"}), "DirectoryGroupUser")
    \cup Typed(Names("dsync.user", {"created", "deleted"}), "DirectoryUser")
    \cup Typed(Names("dsync.user", {"updated"}), "UpdatedDirectoryUser")

DeclaredUserEvents ==
    Typed(Names("email_verification", {"created"}), "EmailVerificationEvent")
    \cup Typed(Names("invitation", {"accepted", "created", "revoked", "resent"}),
              "InvitationEvent")
    \cup Typed(Names("magic_auth", {"created"}), "MagicAuthEvent")
    \cup Typed(Names("password_reset", {"created", "succeeded"}), "PasswordResetEvent")
    \cup Typed(Names("user", CRUD), "User")
    \cup Typed(Names("organization_membership", CRUD), "OrganizationMembership")

DeclaredOrganizationEvents ==
    Typed(Names("organization", CRUD), "Organization")
    \cup Typed(Names("role", CRUD), "RoleEvent")
    \cup Typed(Names("organization_role", CRUD), "OrganizationRoleEvent")
    \cup Typed(Names("permission", CRUD), "Permission")
    \cup Typed(Names("session", {"created", "revoked"}), "Session")

DeclaredResourceEvents ==
    Typed(Names("organization_domain", CRUD \cup {"verified"}), "OrganizationDomain")
    \cup Typed(Names("organization_domain", {"verification_failed"}),
              "OrganizationDomainVerificationFailed")
    \cup Typed(Names("api_key", {"created", "revoked"}), "ApiKey")
    \cup Typed(Names("flag", CRUD \cup {"rule_updated"}), "FeatureFlag")
    \cup Typed(Names("group", CRUD), "Group")
    \cup Typed(Names("group", {"member_added", "member_removed"}), "GroupMemberEventData")

DeclaredVaultEvents ==
    Typed(Names("vault.data", {"created"}), "VaultDataCreatedEventData")
    \cup Typed(Names("vault.data", {"updated"}), "VaultDataUpdatedEventData")
    \cup Typed(Names("vault.data", {"read"}), "VaultDataReadEventData")
    \cup Typed(Names("vault.data", {"deleted"}), "VaultDataDeletedEventData")
    \cup Typed(Names("vault.names", {"listed"}), "VaultNamesListedEventData")
    \cup Typed(Names("vault.metadata", {"read"}), "VaultMetadataReadEventData")
    \cup Typed(Names("vault.kek", {"created"}), "VaultKekCreatedEventData")
    \cup Typed(Names("vault.dek", {"read"}), "VaultDekReadEventData")
    \cup Typed(Names("vault.dek", {"decrypted"}), "VaultDekDecryptedEventData")
    \cup Typed(Names("vault.byok_key", {"verification_completed"}),
              "VaultByokKeyVerificationCompletedEventData")

(* The unions Event and EventResponse. *)
Declared ==
    DeclaredAuthenticationEvents \cup DeclaredDirectoryEvents \cup DeclaredUserEvents
    \cup DeclaredOrganizationEvents \cup DeclaredResourceEvents \cup DeclaredVaultEvents

(* UnknownEvent: an event newer than this SDK, its data any record. *)
UnknownEvents == Typed(Names("later", {"created"}), "Record")

-----------------------------------------------------------------------------
(* The switch: each case calls the deserializer of one type. *)

AuthenticationCases ==
    Typed(Names("authentication", SignInVerbs), "AuthenticationEvent")
    \cup Typed(Names("authentication", {"radar_risk_detected"}),
              "AuthenticationRadarRiskDetectedEventData")

DirectoryCases ==
    Typed(Names("connection", {"activated", "deactivated", "deleted"}), "Connection")
    \cup Typed(Names("dsync", {"activated"}), "EventDirectory")
    \cup Typed(Names("dsync", {"deleted"}), "DeletedEventDirectory")
    \cup Typed(Names("dsync.group", {"created", "deleted"}), "DirectoryGroup")
    \cup Typed(Names("dsync.group", {"updated"}), "UpdatedDirectoryGroup")
    \cup Typed(Names("dsync.group", {"user_added", "user_removed"}), "DirectoryGroupUser")
    \cup Typed(Names("dsync.user", {"created", "deleted"}), "DirectoryUser")
    \cup Typed(Names("dsync.user", {"updated"}), "UpdatedDirectoryUser")

UserCases ==
    Typed(Names("email_verification", {"created"}), "EmailVerificationEvent")
    \cup Typed(Names("invitation", {"accepted", "created", "revoked", "resent"}),
              "InvitationEvent")
    \cup Typed(Names("magic_auth", {"created"}), "MagicAuthEvent")
    \cup Typed(Names("password_reset", {"created", "succeeded"}), "PasswordResetEvent")
    \cup Typed(Names("user", CRUD), "User")
    \cup Typed(Names("organization_membership", CRUD), "OrganizationMembership")

OrganizationCases ==
    Typed(Names("role", CRUD), "RoleEvent")
    \cup Typed(Names("organization_role", CRUD), "OrganizationRoleEvent")
    \cup Typed(Names("permission", CRUD), "Permission")
    \cup Typed(Names("session", {"created", "revoked"}), "Session")
    \cup Typed(Names("organization", CRUD), "Organization")

(* Mutant: the events declared last have no case. *)
ResourceCasesOfOld ==
    Typed(Names("organization_domain", CRUD \cup {"verified"}), "OrganizationDomain")
    \cup Typed(Names("organization_domain", {"verification_failed"}),
              "OrganizationDomainVerificationFailed")
    \cup Typed(Names("api_key", {"created", "revoked"}), "ApiKey")
    \cup Typed(Names("flag", CRUD \cup {"rule_updated"}), "FeatureFlag")
    \cup Typed(Names("group", CRUD), "Group")

ResourceCases ==
    Typed(Names("organization_domain", {"verification_failed"}),
              "OrganizationDomainVerificationFailed")
    \cup Typed(Names("organization_domain", CRUD \cup {"verified"}), "OrganizationDomain")
    \cup Typed(Names("api_key", {"created", "revoked"}), "ApiKey")
    \cup Typed(Names("flag", CRUD \cup {"rule_updated"}), "FeatureFlag")
    \cup Typed(Names("group", CRUD), "Group")
    \cup Typed(Names("group", {"member_added", "member_removed"}), "GroupMemberEventData")

VaultCases ==
    Typed(Names("vault.data", {"created"}), "VaultDataCreatedEventData")
    \cup Typed(Names("vault.data", {"updated"}), "VaultDataUpdatedEventData")
    \cup Typed(Names("vault.data", {"read"}), "VaultDataReadEventData")
    \cup Typed(Names("vault.data", {"deleted"}), "VaultDataDeletedEventData")
    \cup Typed(Names("vault.names", {"listed"}), "VaultNamesListedEventData")
    \cup Typed(Names("vault.metadata", {"read"}), "VaultMetadataReadEventData")
    \cup Typed(Names("vault.kek", {"created"}), "VaultKekCreatedEventData")
    \cup Typed(Names("vault.dek", {"read"}), "VaultDekReadEventData")
    \cup Typed(Names("vault.dek", {"decrypted"}), "VaultDekDecryptedEventData")
    \cup Typed(Names("vault.byok_key", {"verification_completed"}),
              "VaultByokKeyVerificationCompletedEventData")

Cases ==
    AuthenticationCases \cup DirectoryCases \cup UserCases
    \cup OrganizationCases \cup ResourceCases \cup VaultCases

(* A deserializer reads the wire's fields of its own type: from other data  *)
(* it makes an object of undefined fields.                                  *)
Deserialize(type, data) ==
    [type |-> type,
     form |-> IF data = [type |-> type, form |-> "wire"] THEN "app" ELSE "garbled"]

(* id, created_at and context are renamed in every branch; the default      *)
(* branch passes the data as it came.                                       *)
DeserializeEvent(event, data) ==
    IF \E c \in Cases : c.event = event
    THEN Deserialize((CHOOSE c \in Cases : c.event = event).type, data)
    ELSE data
=============================================================================
