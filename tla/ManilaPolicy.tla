---------------------------- MODULE ManilaPolicy ----------------------------
(***************************************************************************)
(* The rules of manila (shared file systems), from                         *)
(* policy/manager/manila.py: the checks that others refer to by name, the  *)
(* named checks that guard no operation of their own, and the operations'  *)
(* rules in the order of the file, those of one resource that ask the      *)
(* same written together. x is the user and the target.                    *)
(***************************************************************************)
EXTENDS PolicyChecks

ContextIsAdmin(x) == AdminRole(x)

NamedChecks(x) ==
       Checks({"project-admin"}, AdminRole(x) /\ OwnProject(x))
  \cup Checks({"project-member"}, ProjectMember(x))
  \cup Checks({"project-reader"}, ProjectReader(x))
  \cup Checks({"context_is_admin"}, ContextIsAdmin(x))
  \cup Checks({"admin_or_owner", "default"}, ContextAdmin(x) \/ OwnProject(x))
  \cup Checks({"admin_api"}, ContextAdmin(x))

Pools(x) ==
       Reads({"availability_zone"}, {"index"}, ContextIsAdmin(x) \/ ProjectReader(x))
  \cup Reads({"scheduler_stats"}, {"pools:index", "pools:detail"}, ContextIsAdmin(x))

Shares(x) ==
       Writes({"share"}, {"create", "update", "delete", "soft_delete", "restore",
         "extend", "shrink"}, ContextIsAdmin(x) \/ ProjectMember(x))
  \cup Writes({"share"}, {"create_public_share", "set_public_share", "force_delete",
         "manage", "unmanage", "force_extend", "migration_start", "migration_complete"},
         ContextIsAdmin(x))
  \cup Reads({"share"}, {"get", "get_all", "access_get_all"}, ContextIsAdmin(x) \/
         ProjectReader(x))
  \cup Reads({"share"}, {"list_by_host", "list_by_share_server_id"}, ContextIsAdmin(x))
  \cup Writes({"share"}, {"access_get"}, ContextIsAdmin(x) \/ ProjectReader(x))

ShareMetadata(x) ==
       Writes({"share"}, {"migration_cancel", "migration_get_progress",
         "reset_task_state", "reset_status", "update_admin_only_metadata"},
         ContextIsAdmin(x))
  \cup Writes({"share"}, {"revert_to_snapshot", "allow_access", "deny_access",
         "update_share_metadata", "delete_share_metadata", "create_snapshot",
         "delete_snapshot", "snapshot_update"}, ContextIsAdmin(x) \/ ProjectMember(x))
  \cup Reads({"share"}, {"get_share_metadata"}, ContextIsAdmin(x) \/ ProjectReader(x))
  \cup Writes({"share_instance_export_location"}, {"index"}, ContextIsAdmin(x))
  \cup Reads({"share_instance_export_location"}, {"show"}, ContextIsAdmin(x))

ShareTypes(x) ==
       Writes({"share_type"}, {"create", "update", "delete", "add_project_access",
         "remove_project_access"}, ContextIsAdmin(x))
  \cup Reads({"share_type"}, {"show", "index", "default"}, ContextIsAdmin(x) \/
         ProjectReader(x))
  \cup Reads({"share_type"}, {"list_project_access"}, ContextIsAdmin(x))
  \cup Writes({"share_types_extra_spec"}, {"create", "update", "delete"},
         ContextIsAdmin(x))
  \cup Reads({"share_types_extra_spec"}, {"show", "index"}, ContextIsAdmin(x))

ShareSnapshots(x) ==
       Reads({"share_snapshot"}, {"get_snapshot", "get_all_snapshots", "access_list",
         "get_metadata"}, ContextIsAdmin(x) \/ ProjectReader(x))
  \cup Writes({"share_snapshot"}, {"force_delete", "manage_snapshot", "unmanage_snapshot",
         "reset_status"}, ContextIsAdmin(x))
  \cup Writes({"share_snapshot"}, {"allow_access", "deny_access", "update_metadata",
         "delete_metadata"}, ContextIsAdmin(x) \/ ProjectMember(x))
  \cup Reads({"share_snapshot_export_location"}, {"index", "show"}, ContextIsAdmin(x) \/
         ProjectReader(x))
  \cup Reads({"share_snapshot_instance"}, {"show", "index", "detail"}, ContextIsAdmin(x))
  \cup Writes({"share_snapshot_instance"}, {"reset_status"}, ContextIsAdmin(x))
  \cup Reads({"share_snapshot_instance_export_location"}, {"index", "show"},
         ContextIsAdmin(x))

ShareServersAndQuotas(x) ==
       Reads({"share_server"}, {"index", "show", "details"}, ContextIsAdmin(x))
  \cup Writes({"share_server"}, {"delete", "manage_share_server", "unmanage_share_server",
         "reset_status", "share_server_migration_start", "share_server_migration_check",
         "share_server_migration_complete", "share_server_migration_cancel",
         "share_server_migration_get_progress", "share_server_reset_task_state"},
         ContextIsAdmin(x))
  \cup Reads({"service"}, {"index"}, ContextIsAdmin(x))
  \cup Writes({"service", "quota_class_set"}, {"update"}, ContextIsAdmin(x))
  \cup Writes({"quota_set"}, {"update", "delete"}, ContextIsAdmin(x))
  \cup Reads({"quota_set", "quota_class_set"}, {"show"}, ContextIsAdmin(x) \/
         ProjectReader(x))

ShareGroupTypes(x) ==
       Writes({"share_group_types_spec"}, {"create", "update", "delete"},
         ContextIsAdmin(x))
  \cup Reads({"share_group_types_spec"}, {"index", "show"}, ContextIsAdmin(x))
  \cup Writes({"share_group_type"}, {"create", "delete", "add_project_access",
         "remove_project_access"}, ContextIsAdmin(x))
  \cup Reads({"share_group_type"}, {"index", "show", "default"}, ContextIsAdmin(x) \/
         ProjectReader(x))
  \cup Reads({"share_group_type"}, {"list_project_access"}, ContextIsAdmin(x))
  \cup Writes({"share_group_snapshot"}, {"create", "update", "delete"}, ContextIsAdmin(x)
         \/ ProjectMember(x))
  \cup Reads({"share_group_snapshot"}, {"get", "get_all"}, ContextIsAdmin(x) \/
         ProjectReader(x))
  \cup Writes({"share_group_snapshot"}, {"force_delete", "reset_status"},
         ContextIsAdmin(x))

GroupsAndReplicas(x) ==
       Writes({"share_group"}, {"create", "update", "delete"}, ContextIsAdmin(x) \/
         ProjectMember(x))
  \cup Reads({"share_group"}, {"get", "get_all"}, ContextIsAdmin(x) \/ ProjectReader(x))
  \cup Writes({"share_group"}, {"force_delete", "reset_status"}, ContextIsAdmin(x))
  \cup Writes({"share_replica"}, {"create", "delete", "promote"}, ContextIsAdmin(x) \/
         ProjectMember(x))
  \cup Reads({"share_replica"}, {"get_all", "show"}, ContextIsAdmin(x) \/
         ProjectReader(x))
  \cup Writes({"share_replica"}, {"force_delete", "resync", "reset_replica_state",
         "reset_status"}, ContextIsAdmin(x))
  \cup Reads({"share_replica_export_location"}, {"index", "show"}, ContextIsAdmin(x) \/
         ProjectReader(x))

ShareNetworks(x) ==
       Writes({"share_network"}, {"create", "update", "delete", "add_security_service",
         "add_security_service_check", "remove_security_service",
         "update_security_service", "update_security_service_check",
         "subnet_create_check"}, ContextIsAdmin(x) \/ ProjectMember(x))
  \cup Reads({"share_network"}, {"show", "index", "detail"}, ContextIsAdmin(x) \/
         ProjectReader(x))
  \cup Writes({"share_network"}, {"reset_status"}, ContextIsAdmin(x))
  \cup Reads({"share_network"}, {"get_all_share_networks"}, ContextIsAdmin(x))
  \cup Writes({"share_network_subnet"}, {"create", "delete"}, ContextIsAdmin(x) \/
         ProjectMember(x))
  \cup Reads({"share_network_subnet"}, {"show", "index"}, ContextIsAdmin(x) \/
         ProjectReader(x))

SecurityServicesAndInstances(x) ==
       Writes({"security_service"}, {"create", "update", "delete"}, ContextIsAdmin(x) \/
         ProjectMember(x))
  \cup Reads({"security_service"}, {"show", "detail", "index"}, ContextIsAdmin(x) \/
         ProjectReader(x))
  \cup Reads({"security_service"}, {"get_all_security_services"}, ContextIsAdmin(x))
  \cup Reads({"share_export_location"}, {"index", "show"}, ContextIsAdmin(x) \/
         ProjectReader(x))
  \cup Reads({"share_instance"}, {"index", "show"}, ContextIsAdmin(x))
  \cup Writes({"share_instance"}, {"force_delete", "reset_status"}, ContextIsAdmin(x))
  \cup Reads({"message"}, {"get", "get_all"}, ContextIsAdmin(x) \/ ProjectReader(x))
  \cup Writes({"message"}, {"delete"}, ContextIsAdmin(x) \/ ProjectMember(x))
  \cup Reads({"share_access_rule"}, {"get", "index"}, ContextIsAdmin(x) \/
         ProjectReader(x))
  \cup Writes({"share_access_metadata"}, {"update", "delete"}, ContextIsAdmin(x) \/
         ProjectMember(x))

\* Every registered rule, with its answer for x.
Rules(x) == NamedChecks(x) \cup Pools(x) \cup Shares(x) \cup ShareMetadata(x) \cup
            ShareTypes(x) \cup ShareSnapshots(x) \cup ShareServersAndQuotas(x) \cup
            ShareGroupTypes(x) \cup GroupsAndReplicas(x) \cup ShareNetworks(x) \cup
            SecurityServicesAndInstances(x)
================================================================================
