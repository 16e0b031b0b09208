---------------------------- MODULE CinderPolicy ----------------------------
(***************************************************************************)
(* The rules of cinder (block storage), from policy/manager/cinder.py:     *)
(* the checks that others refer to by name, the named checks that guard    *)
(* no operation of their own, and the operations' rules in the order of    *)
(* the file, those of one resource that ask the same written together. x   *)
(* is the user and the target.                                             *)
(***************************************************************************)
EXTENDS PolicyChecks

XenaSystemAdminOrProjectMember(x) == AdminRole(x) \/ ProjectMember(x)
XenaSystemAdminOrProjectReader(x) == AdminRole(x) \/ ProjectReader(x)
AdminApi(x) == ContextAdmin(x) \/ (AdminRole(x) /\ Is(x, "is_admin_project", "True"))

NamedChecks(x) ==
       Checks({"admin_or_owner"}, AdminApi(x) \/ OwnProject(x))
  \cup Checks({"system_or_domain_or_project_admin"}, SystemAdmin(x) \/ (AdminRole(x) /\
         (Same(x, "domain_id", "domain_id") \/ OwnProject(x))))
  \cup Checks({"context_is_admin"}, AdminRole(x))
  \cup Checks({"admin_api", "volume_extension:volume_type_encryption"}, AdminApi(x))
  \cup Checks({"xena_system_admin_or_project_reader"}, XenaSystemAdminOrProjectReader(x))
  \cup Checks({"xena_system_admin_or_project_member"}, XenaSystemAdminOrProjectMember(x))

AttachmentsAndSnapshots(x) ==
       Writes({"volume"}, {"attachment_create", "attachment_update", "attachment_delete",
         "attachment_complete", "multiattach_bootable_volume", "update_snapshot_metadata",
         "delete_snapshot_metadata", "create_snapshot", "update_snapshot",
         "delete_snapshot"}, XenaSystemAdminOrProjectMember(x))
  \cup Reads({"message"}, {"get_all", "get"}, XenaSystemAdminOrProjectReader(x))
  \cup Writes({"message"}, {"delete"}, XenaSystemAdminOrProjectMember(x))
  \cup Reads({"clusters"}, {"get_all", "get"}, AdminApi(x))
  \cup Writes({"clusters"}, {"update"}, AdminApi(x))
  \cup Writes({"workers"}, {"cleanup"}, AdminApi(x))
  \cup Reads({"volume"}, {"get_snapshot_metadata", "get_all_snapshots", "get_snapshot"},
         XenaSystemAdminOrProjectReader(x))
  \cup Reads({"volume_extension"}, {"extended_snapshot_attributes"},
         XenaSystemAdminOrProjectReader(x))

Backups(x) ==
       Writes({"snapshot_admin_actions", "backup_admin_actions"}, {"reset_status",
         "force_delete"}, AdminApi(x))
  \cup Writes({"snapshot_actions"}, {"update_snapshot_status"},
         XenaSystemAdminOrProjectMember(x))
  \cup Reads({"snapshot_extension"}, {"list_manageable"}, AdminApi(x))
  \cup Writes({"snapshot_extension"}, {"snapshot_manage", "snapshot_unmanage"},
         AdminApi(x))
  \cup Reads({"backup"}, {"get_all", "get"}, XenaSystemAdminOrProjectReader(x))
  \cup Reads({"backup"}, {"backup_project_attribute"}, AdminApi(x))
  \cup Writes({"backup"}, {"create", "update", "delete", "restore"},
         XenaSystemAdminOrProjectMember(x))
  \cup Writes({"backup"}, {"backup-import", "export-import"}, AdminApi(x))

Groups(x) ==
       Reads({"group"}, {"get_all", "get", "get_all_group_snapshots",
         "get_group_snapshot"}, XenaSystemAdminOrProjectReader(x))
  \cup Writes({"group"}, {"create", "update", "create_group_snapshot",
         "delete_group_snapshot", "update_group_snapshot"},
         XenaSystemAdminOrProjectMember(x))
  \cup Reads({"group"}, {"group_project_attribute", "access_group_types_specs",
         "group_types_specs:get", "group_types_specs:get_all",
         "group_snapshot_project_attribute"}, AdminApi(x))
  \cup Writes({"group"}, {"group_types:create", "group_types:update",
         "group_types:delete", "group_types_specs:create", "group_types_specs:update",
         "group_types_specs:delete", "reset_group_snapshot_status"}, AdminApi(x))

QosQuotasServices(x) ==
       Writes({"group"}, {"delete", "enable_replication", "disable_replication",
         "failover_replication", "list_replication_targets"},
         XenaSystemAdminOrProjectMember(x))
  \cup Writes({"group"}, {"reset_status"}, AdminApi(x))
  \cup Reads({"qos_specs_manage"}, {"get_all", "get"}, AdminApi(x))
  \cup Writes({"qos_specs_manage"}, {"create", "update", "delete"}, AdminApi(x))
  \cup Reads({"quota_classes"}, {"get"}, AdminApi(x))
  \cup Writes({"quota_classes", "services"}, {"update"}, AdminApi(x))
  \cup Reads({"quotas"}, {"show"}, XenaSystemAdminOrProjectReader(x))
  \cup Writes({"quotas"}, {"update", "delete"}, AdminApi(x))
  \cup Reads({"volume_extension"}, {"capabilities"}, AdminApi(x))
  \cup Reads({"services"}, {"index"}, AdminApi(x))

Types(x) ==
       Writes({"volume"}, {"freeze_host", "thaw_host", "failover_host"}, AdminApi(x))
  \cup Reads({"scheduler_stats"}, {"get_pools"}, AdminApi(x))
  \cup Writes({"volume_extension"}, {"hosts", "volume_manage", "volume_unmanage",
         "type_create", "type_update", "type_delete"}, AdminApi(x))
  \cup Reads({"limits_extension"}, {"used_limits"}, XenaSystemAdminOrProjectReader(x))
  \cup Reads({"volume_extension"}, {"list_manageable", "access_types_qos_specs_id"},
         AdminApi(x))
  \cup Reads({"volume_extension"}, {"type_get", "type_get_all",
         "access_types_extra_specs"}, XenaSystemAdminOrProjectReader(x))
  \cup Writes({"volume_type_encryption"}, {"create", "update", "delete"}, AdminApi(x))
  \cup Reads({"volume_type_encryption"}, {"get"}, AdminApi(x))
  \cup Writes({"volume_extension"}, {"volume_type_access"},
         XenaSystemAdminOrProjectMember(x))

VolumeActions(x) ==
       Writes({"volume_type_access"}, {"addProjectAccess", "removeProjectAccess"},
         AdminApi(x))
  \cup Reads({"volume_type_access"}, {"get_all_for_type"}, AdminApi(x))
  \cup Writes({"volume"}, {"extend", "extend_attached_volume", "revert_to_snapshot",
         "retype", "update_readonly_flag"}, XenaSystemAdminOrProjectMember(x))
  \cup Writes({"volume_admin_actions"}, {"reset_status", "force_delete", "force_detach",
         "migrate_volume", "migrate_volume_completion"}, AdminApi(x))
  \cup Writes({"volume_actions"}, {"upload_public"}, AdminApi(x))
  \cup Writes({"volume_actions"}, {"upload_image"}, XenaSystemAdminOrProjectMember(x))

TransfersAndMetadata(x) ==
       Writes({"volume_actions"}, {"initialize_connection", "terminate_connection",
         "roll_detaching", "reserve", "unreserve", "begin_detaching", "attach", "detach"},
         XenaSystemAdminOrProjectMember(x))
  \cup Writes({"volume"}, {"reimage", "reimage_reserved", "create_transfer",
         "accept_transfer", "delete_transfer", "create_volume_metadata",
         "update_volume_metadata", "delete_volume_metadata"},
         XenaSystemAdminOrProjectMember(x))
  \cup Reads({"volume"}, {"get_all_transfers", "get_transfer"},
         XenaSystemAdminOrProjectReader(x))
  \cup Writes({"volume"}, {"get_volume_metadata"}, XenaSystemAdminOrProjectReader(x))

Volumes(x) ==
       Reads({"volume_image_metadata"}, {"show"}, XenaSystemAdminOrProjectReader(x))
  \cup Writes({"volume_image_metadata"}, {"set", "remove"},
         XenaSystemAdminOrProjectMember(x))
  \cup Writes({"volume"}, {"update_volume_admin_metadata", "force_delete"}, AdminApi(x))
  \cup Reads({"types_extra_specs"}, {"index", "show"}, XenaSystemAdminOrProjectReader(x))
  \cup Writes({"types_extra_specs"}, {"create", "update", "delete"}, AdminApi(x))
  \cup Reads({"types_extra_specs"}, {"read_sensitive"}, AdminApi(x))
  \cup Writes({"volume"}, {"create", "create_from_image", "update", "delete"},
         XenaSystemAdminOrProjectMember(x))
  \cup Reads({"volume"}, {"get", "get_all"}, XenaSystemAdminOrProjectReader(x))
  \cup Reads({"volume_extension"}, {"volume_host_attribute",
         "volume_mig_status_attribute"}, AdminApi(x))
  \cup Reads({"volume_extension"}, {"volume_tenant_attribute",
         "volume_encryption_metadata"}, XenaSystemAdminOrProjectReader(x))

Defaults(x) ==
       Writes({"volume"}, {"multiattach"}, XenaSystemAdminOrProjectMember(x))
  \cup Writes({"volume_extension"}, {"default_set_or_update", "default_unset"},
         AdminApi(x))
  \cup Reads({"volume_extension"}, {"default_get", "default_get_all"}, AdminApi(x))

\* Every registered rule, with its answer for x.
Rules(x) == NamedChecks(x) \cup AttachmentsAndSnapshots(x) \cup Backups(x) \cup Groups(x) \cup
            QosQuotasServices(x) \cup Types(x) \cup VolumeActions(x) \cup
            TransfersAndMetadata(x) \cup Volumes(x) \cup Defaults(x)
================================================================================
