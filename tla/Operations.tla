------------------------------ MODULE Operations ------------------------------
(***************************************************************************)
(* The methods of the resource modules that send a request, each with the   *)
(* request method of `WorkOS` it goes through.  A list method and its pages *)
(* are GETs.  Exchanges of credentials, which build their request from the  *)
(* client's own, are in Client.  `validateCredential` of agents stands for  *)
(* its remote half, the one that sends a request.                           *)
(***************************************************************************)

(* The methods `names` of a resource module, sent through one verb. *)
Sent(resource, verb, names) ==
    [resource : {resource}, verb : {verb}, name : names]

-----------------------------------------------------------------------------

EnvironmentRoles ==
    Sent("authorization", "GET", {"listEnvironmentRoles", "getEnvironmentRole"})
    \cup Sent("authorization", "POST", {"createEnvironmentRole",
        "addEnvironmentRolePermission"})
    \cup Sent("authorization", "PUT", {"setEnvironmentRolePermissions"})
    \cup Sent("authorization", "PATCH", {"updateEnvironmentRole"})

OrganizationRoles ==
    Sent("authorization", "GET", {"listOrganizationRoles", "getOrganizationRole"})
    \cup Sent("authorization", "POST", {"createOrganizationRole"})
    \cup Sent("authorization", "PATCH", {"updateOrganizationRole"})
    \cup Sent("authorization", "DELETE", {"deleteOrganizationRole"})

OrganizationRolePermissions ==
    Sent("authorization", "POST", {"addOrganizationRolePermission"})
    \cup Sent("authorization", "PUT", {"setOrganizationRolePermissions"})
    \cup Sent("authorization", "DELETE", {"removeOrganizationRolePermission"})

Permissions ==
    Sent("authorization", "GET", {"listPermissions", "getPermission"})
    \cup Sent("authorization", "POST", {"createPermission"})
    \cup Sent("authorization", "PATCH", {"updatePermission"})
    \cup Sent("authorization", "DELETE", {"deletePermission"})

AuthorizationResources ==
    Sent("authorization", "GET", {"getResource", "listResources"})
    \cup Sent("authorization", "POST", {"createResource"})
    \cup Sent("authorization", "PATCH", {"updateResource"})
    \cup Sent("authorization", "DELETE", {"deleteResource"})

ResourcesByExternalId ==
    Sent("authorization", "GET", {"getResourceByExternalId"})
    \cup Sent("authorization", "PATCH", {"updateResourceByExternalId"})
    \cup Sent("authorization", "DELETE", {"deleteResourceByExternalId"})

RoleAssignments ==
    Sent("authorization", "GET", {"listRoleAssignments",
        "listRoleAssignmentsForResource", "listResourceRoleAssignments"})
    \cup Sent("authorization", "POST", {"check"})

RoleAssignmentChanges ==
    Sent("authorization", "POST", {"assignRole"})
    \cup Sent("authorization", "DELETE", {"removeRoleAssignment"})
    \cup Sent("authorization", "DELETE with body", {"removeRole"})

GroupRoleAssignments ==
    Sent("authorization", "GET", {"listGroupRoleAssignments",
        "getGroupRoleAssignment"})
    \cup Sent("authorization", "POST", {"createGroupRoleAssignment"})
    \cup Sent("authorization", "PUT", {"replaceGroupRoleAssignments"})
    \cup Sent("authorization", "DELETE", {"removeGroupRoleAssignment"})
    \cup Sent("authorization", "DELETE with body", {"removeGroupRoleAssignments"})

ResourceMemberships ==
    Sent("authorization", "GET", {"listResourcesForMembership",
        "listMembershipsForResource", "listMembershipsForResourceByExternalId"})

EffectivePermissions ==
    Sent("authorization", "GET", {"listEffectivePermissions",
        "listEffectivePermissionsByExternalId"})

DataIntegrations ==
    Sent("pipes", "GET", {"listDataIntegrations", "getDataIntegration"})
    \cup Sent("pipes", "POST", {"createDataIntegration"})
    \cup Sent("pipes", "PUT", {"updateDataIntegration"})
    \cup Sent("pipes", "DELETE", {"deleteDataIntegration"})

DataIntegrationCredentials ==
    Sent("pipes", "POST", {"authorizeDataIntegration",
        "createDataIntegrationCredential", "getAccessToken"})
    \cup Sent("pipes", "PUT", {"updateDataIntegrationApiKey"})

ConnectedAccounts ==
    Sent("pipes", "GET", {"getUserConnectedAccount", "listUserDataProviders"})
    \cup Sent("pipes", "POST", {"createUserConnectedAccount"})
    \cup Sent("pipes", "PUT", {"updateUserConnectedAccount"})
    \cup Sent("pipes", "DELETE", {"deleteUserConnectedAccount"})

ConnectApplications ==
    Sent("connect", "GET", {"listApplications"})
    \cup Sent("connect", "POST", {"completeOAuth2", "createApplication",
        "createOAuthApplication", "createM2MApplication"})

ConnectApplicationSecrets ==
    Sent("connect", "GET", {"getApplication", "listApplicationClientSecrets"})
    \cup Sent("connect", "POST", {"createApplicationClientSecret"})
    \cup Sent("connect", "PUT", {"updateApplication"})
    \cup Sent("connect", "DELETE", {"deleteApplication", "deleteClientSecret"})

Groups ==
    Sent("groups", "GET", {"listOrganizationMemberships", "listGroups", "getGroup"})
    \cup Sent("groups", "POST", {"createGroup"})
    \cup Sent("groups", "PATCH", {"updateGroup"})

GroupMembers ==
    Sent("groups", "POST", {"addOrganizationMembership"})
    \cup Sent("groups", "DELETE", {"deleteGroup", "removeOrganizationMembership"})

Agents ==
    Sent("agents", "GET", {"getRegistration"})
    \cup Sent("agents", "POST", {"validateCredential"})
    \cup Sent("agents", "PATCH", {"linkClaimAttemptToExternalUser"})

Organizations ==
    Sent("organizations", "GET", {"listOrganizations", "getOrganization",
        "getOrganizationByExternalId"})
    \cup Sent("organizations", "POST", {"createOrganization"})
    \cup Sent("organizations", "PUT", {"updateOrganization"})
    \cup Sent("organizations", "DELETE", {"deleteOrganization"})

ApiKeys ==
    Sent("apiKeys", "GET", {"listOrganizationApiKeys"})
    \cup Sent("apiKeys", "POST", {"createValidation", "createOrganizationApiKey"})
    \cup Sent("apiKeys", "DELETE", {"deleteApiKey"})

Directories ==
    Sent("directorySync", "GET", {"listDirectories", "getDirectory", "listGroups"})
    \cup Sent("directorySync", "DELETE", {"deleteDirectory"})

DirectoryUsers ==
    Sent("directorySync", "GET", {"listUsers", "getUser", "getGroup"})

Factors ==
    Sent("multiFactorAuth", "GET", {"getFactor"})
    \cup Sent("multiFactorAuth", "POST", {"enrollFactor", "challengeFactor",
        "verifyChallenge"})
    \cup Sent("multiFactorAuth", "DELETE", {"deleteFactor"})

UserFactors ==
    Sent("multiFactorAuth", "GET", {"listUserAuthFactors"})
    \cup Sent("multiFactorAuth", "POST", {"createUserAuthFactor"})

Radar ==
    Sent("radar", "POST", {"createAttempt", "addListEntry"})
    \cup Sent("radar", "PUT", {"updateAttempt"})
    \cup Sent("radar", "DELETE with body", {"removeListEntry"})

AuditLogs ==
    Sent("auditLogs", "GET", {"getExport", "listSchemas"})
    \cup Sent("auditLogs", "POST", {"createEvent", "createExport", "createSchema"})

OrganizationDomains ==
    Sent("organizationDomains", "GET", {"getOrganizationDomain"})
    \cup Sent("organizationDomains", "POST", {"verifyOrganizationDomain",
        "createOrganizationDomain"})
    \cup Sent("organizationDomains", "DELETE", {"deleteOrganizationDomain"})

AdminPortal ==
    Sent("adminPortal", "POST", {"generateLink"})

Passwordless ==
    Sent("passwordless", "POST", {"createSession", "sendSession"})

Widgets ==
    Sent("widgets", "POST", {"createToken"})

Events ==
    Sent("events", "GET", {"listEvents"})

FeatureFlags ==
    Sent("featureFlags", "GET", {"listFeatureFlags", "getFeatureFlag"})
    \cup Sent("featureFlags", "POST", {"addFlagTarget"})
    \cup Sent("featureFlags", "PUT", {"enableFeatureFlag", "disableFeatureFlag"})
    \cup Sent("featureFlags", "DELETE", {"removeFlagTarget"})

AssignedFeatureFlags ==
    Sent("featureFlags", "GET", {"listOrganizationFeatureFlags",
        "listUserFeatureFlags"})

WebhookEndpoints ==
    Sent("webhooks", "GET", {"listWebhookEndpoints"})
    \cup Sent("webhooks", "POST", {"createWebhookEndpoint"})
    \cup Sent("webhooks", "PATCH", {"updateWebhookEndpoint"})
    \cup Sent("webhooks", "DELETE", {"deleteWebhookEndpoint"})

Connections ==
    Sent("sso", "GET", {"listConnections"})
    \cup Sent("sso", "DELETE", {"deleteConnection"})

ConnectionDetails ==
    Sent("sso", "GET", {"getConnection"})

Profiles ==
    Sent("sso", "GET", {"getProfile"})

DataKeys ==
    Sent("vault", "GET", {"readObjectByName"})
    \cup Sent("vault", "POST", {"createDataKey", "decryptDataKey", "createRekey"})

VaultObjects ==
    Sent("vault", "GET", {"listObjects", "readObject", "describeObject",
        "listObjectVersions"})
    \cup Sent("vault", "POST", {"createObject"})
    \cup Sent("vault", "PUT", {"updateObject"})
    \cup Sent("vault", "DELETE", {"deleteObject"})

Users ==
    Sent("userManagement", "GET", {"getUser", "getUserByExternalId", "listUsers"})
    \cup Sent("userManagement", "POST", {"createUser"})

SignInVerifications ==
    Sent("userManagement", "GET", {"getEmailVerification", "getMagicAuth",
        "getPasswordReset"})
    \cup Sent("userManagement", "POST", {"sendVerificationEmail", "createMagicAuth",
        "verifyEmail", "createPasswordReset"})

PasswordsAndSessions ==
    Sent("userManagement", "GET", {"listSessions"})
    \cup Sent("userManagement", "POST", {"resetPassword"})
    \cup Sent("userManagement", "PUT", {"updateUser"})

UserApiKeys ==
    Sent("userManagement", "GET", {"listUserApiKeys", "getUserIdentities"})
    \cup Sent("userManagement", "POST", {"createUserApiKey"})
    \cup Sent("userManagement", "DELETE", {"deleteUser"})

OrganizationMemberships ==
    Sent("userManagement", "GET", {"getOrganizationMembership",
        "listOrganizationMemberships"})
    \cup Sent("userManagement", "POST", {"createOrganizationMembership"})
    \cup Sent("userManagement", "PUT", {"updateOrganizationMembership"})
    \cup Sent("userManagement", "DELETE", {"deleteOrganizationMembership"})

MembershipStates ==
    Sent("userManagement", "GET", {"listGroupsForOrganizationMembership",
        "getInvitation", "findInvitationByToken"})
    \cup Sent("userManagement", "PUT", {"deactivateOrganizationMembership",
        "reactivateOrganizationMembership"})

Invitations ==
    Sent("userManagement", "GET", {"listInvitations"})
    \cup Sent("userManagement", "POST", {"sendInvitation", "acceptInvitation",
        "revokeInvitation", "resendInvitation", "revokeSession"})

-----------------------------------------------------------------------------

(* Every method that sends a request and exchanges no credential.           *)
ApiOperation ==
    UNION {EnvironmentRoles, OrganizationRoles, OrganizationRolePermissions,
           Permissions, AuthorizationResources, ResourcesByExternalId,
           RoleAssignments, RoleAssignmentChanges, GroupRoleAssignments,
           ResourceMemberships, EffectivePermissions, DataIntegrations,
           DataIntegrationCredentials, ConnectedAccounts, ConnectApplications,
           ConnectApplicationSecrets, Groups, GroupMembers, Agents, Organizations,
           ApiKeys, Directories, DirectoryUsers, Factors, UserFactors, Radar,
           AuditLogs, OrganizationDomains, AdminPortal, Passwordless, Widgets,
           Events, FeatureFlags, AssignedFeatureFlags, WebhookEndpoints,
           Connections, ConnectionDetails, Profiles, DataKeys, VaultObjects,
           Users, SignInVerifications, PasswordsAndSessions, UserApiKeys,
           OrganizationMemberships, MembershipStates, Invitations}
=============================================================================
