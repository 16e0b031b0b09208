---------------------------- MODULE TrovePolicy ----------------------------
(***************************************************************************)
(* The rules of trove (databases), from policy/manager/trove.py: the       *)
(* checks that others refer to by name, the named checks that guard no     *)
(* operation of their own, and the operations' rules in the order of the   *)
(* file, those of one resource that ask the same written together. x is    *)
(* the user and the target.                                                *)
(***************************************************************************)
EXTENDS PolicyChecks

Admin(x) == AdminRole(x) \/ ContextAdmin(x)
AdminOrOwner(x) == Admin(x) \/ Same(x, "project_id", "tenant")

NamedChecks(x) ==
       Checks({"admin"}, Admin(x))
  \cup Checks({"admin_or_owner", "default"}, AdminOrOwner(x))

Instances(x) ==
       Writes({"instance"}, {"create", "delete", "force_delete", "update", "edit",
         "restart", "resize_volume", "resize_flavor", "promote_to_replica_source",
         "eject_replica_source", "module_apply", "module_remove",
         "extension:root:create"}, AdminOrOwner(x))
  \cup Reads({"instance"}, {"index", "detail", "show", "configuration", "guest_log_list",
         "backups", "module_list"}, AdminOrOwner(x))
  \cup Writes({"instance"}, {"reset_status"}, Admin(x))

UsersAndDatabases(x) ==
       Writes({"instance"}, {"extension:root:delete", "extension:user:create",
         "extension:user:delete", "extension:user:update", "extension:user:update_all",
         "extension:user_access:update", "extension:user_access:delete",
         "extension:database:create", "extension:database:delete"}, AdminOrOwner(x))
  \cup Reads({"instance"}, {"extension:root:index", "extension:user:index",
         "extension:user:show", "extension:user_access:index", "extension:database:index",
         "extension:database:show"}, AdminOrOwner(x))
  \cup Writes({"cluster"}, {"extension:root:create", "extension:root:delete"},
         AdminOrOwner(x))
  \cup Reads({"cluster"}, {"extension:root:index"}, AdminOrOwner(x))

ClustersAndBackups(x) ==
       Writes({"cluster"}, {"create", "delete", "force_delete", "action"},
         AdminOrOwner(x))
  \cup Reads({"cluster"}, {"index", "show", "show_instance"}, AdminOrOwner(x))
  \cup Writes({"cluster"}, {"reset-status"}, Admin(x))
  \cup Writes({"backup", "backup_strategy"}, {"create", "delete"}, AdminOrOwner(x))
  \cup Reads({"backup"}, {"index", "show"}, AdminOrOwner(x))
  \cup Reads({"backup"}, {"index:all_projects"}, AdminRole(x))
  \cup Reads({"backup_strategy"}, {"index"}, AdminOrOwner(x))

Configurations(x) ==
       Writes({"configuration"}, {"create", "delete", "update", "edit"}, AdminOrOwner(x))
  \cup Reads({"configuration"}, {"index", "show", "instances"}, AdminOrOwner(x))
  \cup Reads({"configuration-parameter"}, {"index", "show", "index_by_version",
         "show_by_version"}, AdminOrOwner(x))
  \cup Reads({"datastore"}, {"index", "show", "version_show", "version_show_by_uuid",
         "version_index", "list_associated_flavors", "list_associated_volume_types"},
         Anyone(x))
  \cup Writes({"datastore"}, {"delete"}, Admin(x))
  \cup Reads({"flavor"}, {"index", "show"}, Anyone(x))

Modules(x) ==
       Reads({"limits"}, {"index"}, AdminOrOwner(x))
  \cup Writes({"module"}, {"create", "delete", "update", "reapply"}, AdminOrOwner(x))
  \cup Reads({"module"}, {"index", "show", "instances"}, AdminOrOwner(x))

\* Every registered rule, with its answer for x.
Rules(x) == NamedChecks(x) \cup Instances(x) \cup UsersAndDatabases(x) \cup
            ClustersAndBackups(x) \cup Configurations(x) \cup Modules(x)
================================================================================
