---------------------------- MODULE KeystonePolicy ----------------------------
(***************************************************************************)
(* The rules of keystone (identity), from policy/manager/keystone.py: the  *)
(* checks that others refer to by name, the named checks that guard no     *)
(* operation of their own, and the operations' rules in the order of the   *)
(* file, those of one resource that ask the same written together. x is    *)
(* the user and the target.                                                *)
(***************************************************************************)
EXTENDS PolicyChecks

AdminRequired(x) == AdminRole(x) \/ Is(x, "is_admin", "1")
Owner(x) == Same(x, "user_id", "user_id")
ServiceRole(x) == Role(x, "service")
ServiceOrAdmin(x) == AdminRequired(x) \/ ServiceRole(x)
TokenSubject(x) == Same(x, "user_id", "target.token.user_id")
ReaderInDomains(x) ==
  \/ ReaderRole(x) /\ Same(x, "domain_id", "target.user.domain_id") /\
       Same(x, "domain_id", "target.project.domain_id")
  \/ ReaderRole(x) /\ Same(x, "domain_id", "target.user.domain_id") /\
       Same(x, "domain_id", "target.domain.id")
  \/ ReaderRole(x) /\ Same(x, "domain_id", "target.group.domain_id") /\
       Same(x, "domain_id", "target.project.domain_id")
  \/ ReaderRole(x) /\ Same(x, "domain_id", "target.group.domain_id") /\
       Same(x, "domain_id", "target.domain.id")
AdminInDomains(x) ==
  \/ AdminRole(x) /\ Same(x, "domain_id", "target.user.domain_id") /\
       Same(x, "domain_id", "target.project.domain_id")
  \/ AdminRole(x) /\ Same(x, "domain_id", "target.user.domain_id") /\
       Same(x, "domain_id", "target.domain.id")
  \/ AdminRole(x) /\ Same(x, "domain_id", "target.group.domain_id") /\
       Same(x, "domain_id", "target.project.domain_id")
  \/ AdminRole(x) /\ Same(x, "domain_id", "target.group.domain_id") /\
       Same(x, "domain_id", "target.domain.id")
RoleInDomain(x) ==
  \/ Same(x, "domain_id", "target.role.domain_id")
  \/ Literal(x, "None", "target.role.domain_id")
WritesUser(x) ==
  \/ SystemAdmin(x)
  \/ AdminRole(x) /\ Same(x, "token.domain.id", "target.user.domain_id")
WritesMembership(x) ==
  \/ SystemAdmin(x)
  \/ AdminRole(x) /\ Same(x, "domain_id", "target.group.domain_id") /\
       Same(x, "domain_id", "target.user.domain_id")
ReadsProject(x) ==
  \/ SystemReader(x)
  \/ ReaderRole(x) /\ Same(x, "domain_id", "target.project.domain_id")
  \/ Same(x, "project_id", "target.project.id")
WritesTags(x) ==
  \/ SystemAdmin(x)
  \/ AdminRole(x) /\ Same(x, "domain_id", "target.project.domain_id")
  \/ AdminRole(x) /\ Same(x, "project_id", "target.project.id")
ReadsDomainRole(x) ==
  \/ SystemReader(x)
  \/ ReaderRole(x) /\ Same(x, "domain_id", "target.domain_id")

NamedChecks(x) ==
       Checks({"admin_required"}, AdminRequired(x))
  \cup Checks({"service_role"}, ServiceRole(x))
  \cup Checks({"service_or_admin"}, ServiceOrAdmin(x))
  \cup Checks({"owner"}, Owner(x))
  \cup Checks({"admin_or_owner"}, AdminRequired(x) \/ Owner(x))
  \cup Checks({"token_subject"}, TokenSubject(x))
  \cup Checks({"admin_or_token_subject"}, AdminRequired(x) \/ TokenSubject(x))
  \cup Checks({"service_admin_or_token_subject"}, ServiceOrAdmin(x) \/ TokenSubject(x))

Credentials(x) ==
       Reads({"access_rule"}, {"get", "list"}, SystemReader(x) \/
         Same(x, "user_id", "target.user.id"))
  \cup Writes({"access_rule"}, {"delete"}, SystemAdmin(x) \/
         Same(x, "user_id", "target.user.id"))
  \cup Writes({"request_token"}, {"authorize"}, AdminRequired(x))
  \cup Reads({"access_token", "access_token_role"}, {"get", "list"}, AdminRequired(x))
  \cup Writes({"access_token"}, {"delete"}, AdminRequired(x))
  \cup Reads({"application_credential"}, {"get", "list"}, SystemReader(x) \/ Owner(x))
  \cup Writes({"application_credential"}, {"create"}, Same(x, "user_id", "user_id"))
  \cup Writes({"application_credential"}, {"delete"}, SystemAdmin(x) \/ Owner(x))
  \cup Reads({"auth_catalog", "auth_project", "auth_domain", "auth_system"}, {"get"},
         Anyone(x))

ConsumersAndDomains(x) ==
       Reads({"consumer"}, {"get", "list"}, SystemReader(x))
  \cup Writes({"consumer", "domain", "domain_config"}, {"create", "update", "delete"},
         SystemAdmin(x))
  \cup Reads({"credential"}, {"get", "list"}, SystemReader(x) \/
         Same(x, "user_id", "target.credential.user_id"))
  \cup Writes({"credential"}, {"create", "update", "delete"}, SystemAdmin(x) \/
         Same(x, "user_id", "target.credential.user_id"))
  \cup Reads({"domain"}, {"get"}, SystemReader(x) \/
         Same(x, "token.domain.id", "target.domain.id") \/
         Same(x, "token.project.domain.id", "target.domain.id"))
  \cup Reads({"domain"}, {"list"}, SystemReader(x))
  \cup Reads({"domain_config", "domain_config_default"}, {"get"}, SystemReader(x))
  \cup Reads({"security_compliance_domain_config"}, {"get"}, Anyone(x))

Endpoints(x) ==
       Reads({"credential"}, {"ec2_get"}, SystemReader(x) \/
         Same(x, "user_id", "target.credential.user_id"))
  \cup Reads({"credential"}, {"ec2_list"}, SystemReader(x) \/ Owner(x))
  \cup Writes({"credential"}, {"ec2_create"}, SystemAdmin(x) \/ Owner(x))
  \cup Writes({"credential"}, {"ec2_delete"}, SystemAdmin(x) \/
         Same(x, "user_id", "target.credential.user_id"))
  \cup Reads({"endpoint"}, {"get", "list"}, SystemReader(x))
  \cup Writes({"endpoint", "endpoint_group"}, {"create", "update", "delete"},
         SystemAdmin(x))
  \cup Reads({"endpoint_group"}, {"list", "get"}, SystemReader(x))
  \cup Reads({"projects_associated_with_endpoint_group",
         "endpoints_associated_with_endpoint_group", "endpoint_groups_for_project"},
         {"list"}, SystemReader(x))
  \cup Reads({"endpoint_group_in_project"}, {"get"}, SystemReader(x))
  \cup Writes({"endpoint_group_to_project"}, {"add"}, SystemAdmin(x))
  \cup Writes({"endpoint_group_from_project"}, {"remove"}, SystemAdmin(x))

GrantsAndGroups(x) ==
       Reads({"grant"}, {"check"}, SystemReader(x) \/ (ReaderInDomains(x) /\
         RoleInDomain(x)))
  \cup Reads({"grant"}, {"list"}, SystemReader(x) \/ ReaderInDomains(x))
  \cup Writes({"grant"}, {"create", "revoke"}, SystemAdmin(x) \/ (AdminInDomains(x) /\
         RoleInDomain(x)))
  \cup Reads({"system_grants_for_user", "system_grants_for_group"}, {"list"},
         SystemReader(x))
  \cup Reads({"system_grant_for_user", "system_grant_for_group"}, {"check"},
         SystemReader(x))
  \cup Writes({"system_grant_for_user", "system_grant_for_group"}, {"create", "revoke"},
         SystemAdmin(x))
  \cup Reads({"group"}, {"get", "list"}, SystemReader(x) \/ (ReaderRole(x) /\
         Same(x, "domain_id", "target.group.domain_id")))
  \cup Reads({"groups_for_user"}, {"list"}, SystemReader(x) \/ (ReaderRole(x) /\
         Same(x, "domain_id", "target.user.domain_id")) \/ Same(x, "user_id", "user_id"))
  \cup Writes({"group"}, {"create", "update", "delete"}, SystemAdmin(x) \/ (AdminRole(x)
         /\ Same(x, "domain_id", "target.group.domain_id")))
  \cup Reads({"users_in_group"}, {"list"}, SystemReader(x) \/ (ReaderRole(x) /\
         Same(x, "domain_id", "target.group.domain_id")))
  \cup Writes({"user_from_group"}, {"remove"}, WritesMembership(x))
  \cup Reads({"user_in_group"}, {"check"}, SystemReader(x) \/ (ReaderRole(x) /\
         Same(x, "domain_id", "target.group.domain_id") /\
         Same(x, "domain_id", "target.user.domain_id")))

ProvidersAndLimits(x) ==
       Writes({"user_to_group"}, {"add"}, WritesMembership(x))
  \cup Writes({"identity_provider", "limit"}, {"create", "update", "delete"},
         SystemAdmin(x))
  \cup Reads({"identity_provider"}, {"list", "get"}, SystemReader(x))
  \cup Reads({"implied_role"}, {"get", "list", "check"}, SystemReader(x))
  \cup Writes({"implied_role"}, {"create", "delete"}, SystemAdmin(x))
  \cup Reads({"role_inference_rule"}, {"list"}, SystemReader(x))
  \cup Reads({"limit_model"}, {"get"}, Anyone(x))
  \cup Reads({"limit"}, {"get"}, SystemReader(x) \/
         Same(x, "domain_id", "target.limit.domain.id") \/
         Same(x, "domain_id", "target.limit.project.domain_id") \/
         (Same(x, "project_id", "target.limit.project_id") /\
         ~Literal(x, "None", "target.limit.project_id")))
  \cup Reads({"limit"}, {"list"}, Anyone(x))

MappingsAndPolicies(x) ==
       Writes({"mapping"}, {"create", "delete", "update"}, SystemAdmin(x))
  \cup Reads({"mapping", "policy"}, {"get", "list"}, SystemReader(x))
  \cup Writes({"policy"}, {"create", "update", "delete"}, SystemAdmin(x))
  \cup Writes({"policy_association_for_endpoint", "policy_association_for_service",
         "policy_association_for_region_and_service"}, {"create", "delete"},
         SystemAdmin(x))
  \cup Reads({"policy_association_for_endpoint", "policy_association_for_service",
         "policy_association_for_region_and_service"}, {"check"}, SystemReader(x))
  \cup Reads({"policy_for_endpoint"}, {"get"}, SystemReader(x))
  \cup Reads({"endpoints_for_policy"}, {"list"}, SystemReader(x))

Projects(x) ==
       Reads({"project"}, {"get"}, ReadsProject(x))
  \cup Reads({"project"}, {"list"}, ReadsDomainRole(x))
  \cup Reads({"user_project"}, {"list"}, SystemReader(x) \/ (ReaderRole(x) /\
         Same(x, "domain_id", "target.user.domain_id")) \/
         Same(x, "user_id", "target.user.id"))
  \cup Writes({"project"}, {"create", "update", "delete"}, SystemAdmin(x) \/ (AdminRole(x)
         /\ Same(x, "domain_id", "target.project.domain_id")))
  \cup Reads({"project_tag"}, {"list", "get"}, ReadsProject(x))
  \cup Writes({"project_tag"}, {"update", "create", "delete_all", "delete"},
         WritesTags(x))
  \cup Reads({"projects_for_endpoint", "endpoints_for_project"}, {"list"},
         SystemReader(x))
  \cup Writes({"endpoint_to_project"}, {"add"}, SystemAdmin(x))
  \cup Reads({"endpoint_in_project"}, {"check"}, SystemReader(x))
  \cup Writes({"endpoint_from_project"}, {"remove"}, SystemAdmin(x))

RegionsAndRoles(x) ==
       Writes({"protocol", "region", "registered_limit", "role"}, {"create", "update",
         "delete"}, SystemAdmin(x))
  \cup Reads({"protocol", "role"}, {"get", "list"}, SystemReader(x))
  \cup Reads({"region", "registered_limit"}, {"get", "list"}, Anyone(x))
  \cup Reads({"revoke_event"}, {"list"}, ServiceOrAdmin(x))

ServicesAndTokens(x) ==
       Reads({"domain_role", "service"}, {"get", "list"}, SystemReader(x))
  \cup Writes({"domain_role", "service", "service_provider"}, {"create", "update",
         "delete"}, SystemAdmin(x))
  \cup Reads({"role_assignment"}, {"list"}, ReadsDomainRole(x))
  \cup Reads({"role_assignments_for_tree"}, {"list"}, SystemReader(x) \/ (ReaderRole(x) /\
         Same(x, "domain_id", "target.project.domain_id")) \/ (AdminRole(x) /\
         Same(x, "project_id", "target.project.id")))
  \cup Reads({"service_provider"}, {"list", "get"}, SystemReader(x))
  \cup Reads({"token"}, {"revocation_list"}, ServiceOrAdmin(x))
  \cup Reads({"token"}, {"check"}, SystemReader(x) \/ TokenSubject(x))
  \cup Reads({"token"}, {"validate"}, SystemReader(x) \/ ServiceRole(x) \/
         TokenSubject(x))
  \cup Writes({"token"}, {"revoke"}, SystemAdmin(x) \/ TokenSubject(x))

TrustsAndUsers(x) ==
       Writes({"trust"}, {"create"}, Same(x, "user_id", "trust.trustor_user_id"))
  \cup Reads({"trust"}, {"list"}, SystemReader(x))
  \cup Reads({"trusts_for_trustor"}, {"list"}, SystemReader(x) \/
         Same(x, "user_id", "target.trust.trustor_user_id"))
  \cup Reads({"trusts_for_trustee"}, {"list"}, SystemReader(x) \/
         Same(x, "user_id", "target.trust.trustee_user_id"))
  \cup Reads({"roles_for_trust"}, {"list"}, SystemReader(x) \/
         Same(x, "user_id", "target.trust.trustor_user_id") \/
         Same(x, "user_id", "target.trust.trustee_user_id"))
  \cup Reads({"role_for_trust", "trust"}, {"get"}, SystemReader(x) \/
         Same(x, "user_id", "target.trust.trustor_user_id") \/
         Same(x, "user_id", "target.trust.trustee_user_id"))
  \cup Writes({"trust"}, {"delete"}, SystemAdmin(x) \/
         Same(x, "user_id", "target.trust.trustor_user_id"))
  \cup Reads({"user"}, {"get"}, SystemReader(x) \/ (ReaderRole(x) /\
         Same(x, "token.domain.id", "target.user.domain_id")) \/
         Same(x, "user_id", "target.user.id"))
  \cup Reads({"user"}, {"list"}, ReadsDomainRole(x))
  \cup Reads({"projects_for_user", "domains_for_user"}, {"list"}, Anyone(x))
  \cup Writes({"user"}, {"create", "update", "delete"}, WritesUser(x))

\* Every registered rule, with its answer for x.
Rules(x) == NamedChecks(x) \cup Credentials(x) \cup ConsumersAndDomains(x) \cup Endpoints(x)
            \cup GrantsAndGroups(x) \cup ProvidersAndLimits(x) \cup MappingsAndPolicies(x)
            \cup Projects(x) \cup RegionsAndRoles(x) \cup ServicesAndTokens(x) \cup
            TrustsAndUsers(x)
================================================================================
