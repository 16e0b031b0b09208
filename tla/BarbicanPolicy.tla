---------------------------- MODULE BarbicanPolicy ----------------------------
(***************************************************************************)
(* The rules of barbican (key manager), from policy/manager/barbican.py:   *)
(* the checks that others refer to by name, the named checks that guard    *)
(* no operation of their own, and the operations' rules in the order of    *)
(* the file, those of one resource that ask the same written together. x   *)
(* is the user and the target.                                             *)
(***************************************************************************)
EXTENDS PolicyChecks

SecretProjectMatch(x) == Same(x, "project_id", "target.secret.project_id")
SecretProjectAdmin(x) == AdminRole(x) /\ SecretProjectMatch(x)
SecretProjectMember(x) == MemberRole(x) /\ SecretProjectMatch(x)
SecretOwner(x) == Same(x, "user_id", "target.secret.creator_id")
SecretIsNotPrivate(x) == Literal(x, "True", "target.secret.read_project_access")
ContainerProjectMatch(x) == Same(x, "project_id", "target.container.project_id")
ContainerProjectAdmin(x) == AdminRole(x) /\ ContainerProjectMatch(x)
ContainerProjectMember(x) == MemberRole(x) /\ ContainerProjectMatch(x)
ContainerOwner(x) == Same(x, "user_id", "target.container.creator_id")
ContainerIsNotPrivate(x) == Literal(x, "True", "target.container.read_project_access")
ContainerAclRead(x) == Literal(x, "read", "target.container.read")
SecretAclRead(x) == Literal(x, "read", "target.secret.read")
OrderProjectMatch(x) == Same(x, "project_id", "target.order.project_id")
OrderProjectMember(x) == MemberRole(x) /\ OrderProjectMatch(x)
NewDefaults(x) == Literal(x, "True", "enforce_new_defaults")
ManagesSecret(x) ==
  \/ SecretProjectAdmin(x)
  \/ SecretProjectMember(x) /\ SecretOwner(x)
  \/ SecretProjectMember(x) /\ SecretIsNotPrivate(x)
ManagesContainer(x) ==
  \/ ContainerProjectAdmin(x)
  \/ ContainerProjectMember(x) /\ ContainerOwner(x)
  \/ ContainerProjectMember(x) /\ ContainerIsNotPrivate(x)
SecretProjectReader(x) == ReaderRole(x) /\ SecretProjectMatch(x)
AllButAudit(x) == AdminRole(x) \/ Role(x, "observer") \/ Role(x, "creator")
AllUsers(x) == AllButAudit(x) \/ Role(x, "audit") \/ Role(x, "key-manager:service-admin")
SecretPrivateRead(x) == Literal(x, "False", "target.secret.read_project_access")
ContainerPrivateRead(x) == Literal(x, "False", "target.container.read_project_access")

NamedMatches(x) ==
       Checks({"system_reader"}, SystemReader(x))
  \cup Checks({"system_admin"}, SystemAdmin(x))
  \cup Checks({"secret_project_match"}, SecretProjectMatch(x))
  \cup Checks({"secret_project_reader"}, SecretProjectReader(x))
  \cup Checks({"secret_project_member"}, SecretProjectMember(x))
  \cup Checks({"secret_project_admin"}, SecretProjectAdmin(x))
  \cup Checks({"secret_owner"}, SecretOwner(x))
  \cup Checks({"secret_is_not_private"}, SecretIsNotPrivate(x))
  \cup Checks({"secret_acl_read"}, SecretAclRead(x))
  \cup Checks({"container_project_match"}, ContainerProjectMatch(x))
  \cup Checks({"container_project_member"}, ContainerProjectMember(x))
  \cup Checks({"container_project_admin"}, ContainerProjectAdmin(x))
  \cup Checks({"container_owner"}, ContainerOwner(x))
  \cup Checks({"container_is_not_private"}, ContainerIsNotPrivate(x))
  \cup Checks({"container_acl_read"}, ContainerAclRead(x))
  \cup Checks({"order_project_match"}, OrderProjectMatch(x))
  \cup Checks({"order_project_member"}, OrderProjectMember(x))

NamedRoles(x) ==
       Checks({"audit"}, Role(x, "audit"))
  \cup Checks({"observer"}, Role(x, "observer"))
  \cup Checks({"creator"}, Role(x, "creator"))
  \cup Checks({"admin"}, AdminRole(x))
  \cup Checks({"service_admin"}, Role(x, "key-manager:service-admin"))
  \cup Checks({"all_users"}, AllUsers(x))
  \cup Checks({"all_but_audit"}, AllButAudit(x))
  \cup Checks({"admin_or_creator"}, AdminRole(x) \/ Role(x, "creator"))
  \cup Checks({"secret_creator_user"}, SecretOwner(x))
  \cup Checks({"secret_private_read"}, SecretPrivateRead(x))
  \cup Checks({"secret_non_private_read"}, AllUsers(x) /\ SecretProjectMatch(x) /\
         ~SecretPrivateRead(x))
  \cup Checks({"secret_decrypt_non_private_read"}, AllButAudit(x) /\ SecretProjectMatch(x)
         /\ ~SecretPrivateRead(x))
  \cup Checks({"secret_project_creator"}, Role(x, "creator") /\ SecretProjectMatch(x) /\
         SecretOwner(x))
  \cup Checks({"secret_project_creator_role"}, Role(x, "creator") /\ SecretProjectMatch(x))
  \cup Checks({"container_private_read"}, ContainerPrivateRead(x))
  \cup Checks({"container_creator_user"}, ContainerOwner(x))
  \cup Checks({"container_non_private_read"}, AllUsers(x) /\ ContainerProjectMatch(x) /\
         ~ContainerPrivateRead(x))
  \cup Checks({"container_project_creator"}, Role(x, "creator") /\ ContainerProjectMatch(x)
         /\ ContainerOwner(x))
  \cup Checks({"container_project_creator_role"}, Role(x, "creator") /\
         ContainerProjectMatch(x))

AclsConsumersContainers(x) ==
       Reads({"secret_acls"}, {"get"}, NewDefaults(x) /\ ManagesSecret(x))
  \cup Writes({"secret_acls"}, {"delete", "put_patch"}, NewDefaults(x) /\
         ManagesSecret(x))
  \cup Reads({"container_acls"}, {"get"}, NewDefaults(x) /\ ManagesContainer(x))
  \cup Writes({"container_acls"}, {"delete", "put_patch"}, NewDefaults(x) /\
         ManagesContainer(x))
  \cup Reads({"consumer", "container_consumers"}, {"get"}, NewDefaults(x) /\
         (SystemAdmin(x) \/ ManagesContainer(x) \/ ContainerAclRead(x)))
  \cup Writes({"container_consumers"}, {"post", "delete"}, NewDefaults(x) /\
         (SystemAdmin(x) \/ ManagesContainer(x) \/ ContainerAclRead(x)))
  \cup Reads({"secret_consumers"}, {"get"}, NewDefaults(x) /\ (SystemAdmin(x) \/
         ManagesSecret(x) \/ SecretAclRead(x)))
  \cup Writes({"secret_consumers"}, {"post", "delete"}, NewDefaults(x) /\ (SystemAdmin(x)
         \/ ManagesSecret(x) \/ SecretAclRead(x)))
  \cup Writes({"containers"}, {"post"}, NewDefaults(x) /\ MemberRole(x))
  \cup Reads({"containers"}, {"get"}, NewDefaults(x) /\ MemberRole(x))
  \cup Reads({"container"}, {"get"}, NewDefaults(x) /\ (ManagesContainer(x) \/
         ContainerAclRead(x)))
  \cup Writes({"container"}, {"delete"}, NewDefaults(x) /\ ManagesContainer(x))
  \cup Writes({"container_secret"}, {"post", "delete"}, NewDefaults(x) /\
         ManagesContainer(x))

OrdersAndSecrets(x) ==
       Reads({"orders", "secrets"}, {"get"}, NewDefaults(x) /\ MemberRole(x))
  \cup Writes({"orders"}, {"post", "put"}, NewDefaults(x) /\ MemberRole(x))
  \cup Reads({"order"}, {"get"}, NewDefaults(x) /\ OrderProjectMember(x))
  \cup Writes({"order"}, {"delete"}, NewDefaults(x) /\ OrderProjectMember(x))
  \cup Reads({"quotas"}, {"get"}, NewDefaults(x) /\ ReaderRole(x))
  \cup Reads({"project_quotas"}, {"get"}, NewDefaults(x) /\ SystemReader(x))
  \cup Writes({"project_quotas"}, {"put", "delete"}, NewDefaults(x) /\ SystemAdmin(x))
  \cup Reads({"secret_meta"}, {"get"}, NewDefaults(x) /\ (ManagesSecret(x) \/
         SecretAclRead(x)))
  \cup Writes({"secret_meta"}, {"post", "put", "delete"}, NewDefaults(x) /\
         ManagesSecret(x))
  \cup Reads({"secret"}, {"decrypt", "get"}, NewDefaults(x) /\ (ManagesSecret(x) \/
         SecretAclRead(x)))
  \cup Writes({"secret"}, {"put", "delete"}, NewDefaults(x) /\ ManagesSecret(x))
  \cup Writes({"secrets"}, {"post"}, NewDefaults(x) /\ MemberRole(x))

StoresAndKeys(x) ==
       Reads({"secretstores"}, {"get", "get_global_default", "get_preferred"},
         NewDefaults(x) /\ ReaderRole(x))
  \cup Writes({"secretstore_preferred"}, {"post", "delete"}, NewDefaults(x) /\
         AdminRole(x))
  \cup Reads({"secretstore", "transport_key", "transport_keys"}, {"get"}, NewDefaults(x)
         /\ ReaderRole(x))
  \cup Writes({"transport_key"}, {"delete"}, NewDefaults(x) /\ SystemAdmin(x))
  \cup Writes({"transport_keys"}, {"post"}, NewDefaults(x) /\ SystemAdmin(x))

\* Every registered rule, with its answer for x.
Rules(x) == NamedMatches(x) \cup NamedRoles(x) \cup AclsConsumersContainers(x) \cup
            OrdersAndSecrets(x) \cup StoresAndKeys(x)
================================================================================
