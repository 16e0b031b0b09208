---------------------------- MODULE NovaPolicy ----------------------------
(***************************************************************************)
(* The rules of nova (compute), from policy/manager/nova.py: the checks    *)
(* that others refer to by name, the named checks that guard no operation  *)
(* of their own, and the operations' rules in the order of the file,       *)
(* those of one resource that ask the same written together. x is the      *)
(* user and the target.                                                    *)
(***************************************************************************)
EXTENDS PolicyChecks

ContextIsAdmin(x) == AdminRole(x)
ProjectMemberApi(x) == ProjectMember(x)
ProjectMemberOrAdmin(x) == ProjectMemberApi(x) \/ ContextIsAdmin(x)
ProjectReaderApi(x) == ProjectReader(x)
ProjectReaderOrAdmin(x) == ProjectReaderApi(x) \/ ContextIsAdmin(x)

NamedChecks(x) ==
       Checks({"context_is_admin"}, ContextIsAdmin(x))
  \cup Checks({"admin_or_owner"}, ContextAdmin(x) \/ OwnProject(x))
  \cup Checks({"admin_api"}, ContextAdmin(x))
  \cup Checks({"project_member_api"}, ProjectMemberApi(x))
  \cup Checks({"project_reader_api"}, ProjectReaderApi(x))
  \cup Checks({"project_member_or_admin"}, ProjectMemberOrAdmin(x))
  \cup Checks({"project_reader_or_admin"}, ProjectReaderOrAdmin(x))

AggregatesAndInterfaces(x) ==
       Writes({"os-admin-actions"}, {"reset_state", "inject_network_info"},
         ContextIsAdmin(x))
  \cup Writes({"os-admin-password"}, {"use"}, ProjectMemberOrAdmin(x))
  \cup Writes({"os-aggregates"}, {"set_metadata", "add_host", "create", "remove_host",
         "update", "delete", "images"}, ContextIsAdmin(x))
  \cup Reads({"os-aggregates"}, {"index", "show"}, ContextIsAdmin(x))
  \cup Writes({"os-assisted-volume-snapshots"}, {"create", "delete"}, ContextIsAdmin(x))
  \cup Reads({"os-attach-interfaces"}, {"list", "show"}, ProjectReaderOrAdmin(x))
  \cup Writes({"os-attach-interfaces"}, {"create", "delete"}, ProjectMemberOrAdmin(x))
  \cup Reads({"os-availability-zone"}, {"list"}, Anyone(x))
  \cup Reads({"os-availability-zone"}, {"detail"}, ContextIsAdmin(x))

FlavorsAndConsoles(x) ==
       Reads({"os-baremetal-nodes"}, {"list", "show"}, ContextIsAdmin(x))
  \cup Reads({"os-console-auth-tokens", "os-flavor-access"}, {"use"}, ContextIsAdmin(x))
  \cup Writes({"os-console-output", "os-create-backup"}, {"use"}, ProjectMemberOrAdmin(x))
  \cup Writes({"os-deferred-delete"}, {"restore", "force"}, ProjectMemberOrAdmin(x))
  \cup Writes({"os-evacuate", "os-extended-server-attributes"}, {"use"},
         ContextIsAdmin(x))
  \cup Reads({"extensions"}, {"use"}, Anyone(x))
  \cup Writes({"os-flavor-access"}, {"add_tenant_access", "remove_tenant_access"},
         ContextIsAdmin(x))
  \cup Reads({"os-flavor-extra-specs"}, {"show"}, ProjectReaderOrAdmin(x))
  \cup Writes({"os-flavor-extra-specs", "os-flavor-manage"}, {"create", "update",
         "delete"}, ContextIsAdmin(x))
  \cup Writes({"os-flavor-extra-specs"}, {"index"}, ProjectReaderOrAdmin(x))

FloatingIpsAndHosts(x) ==
       Reads({"os-floating-ip-pools"}, {"use"}, Anyone(x))
  \cup Writes({"os-floating-ips"}, {"add", "remove", "create", "delete"},
         ProjectMemberOrAdmin(x))
  \cup Reads({"os-floating-ips"}, {"list", "show"}, ProjectReaderOrAdmin(x))
  \cup Reads({"os-hosts"}, {"list", "show", "reboot", "shutdown", "start"},
         ContextIsAdmin(x))
  \cup Writes({"os-hosts"}, {"update"}, ContextIsAdmin(x))
  \cup Reads({"os-hypervisors"}, {"list", "list-detail", "statistics", "show", "uptime",
         "search", "servers"}, ContextIsAdmin(x))

ActionsKeypairsLocks(x) ==
       Reads({"os-instance-actions"}, {"events:details", "events"}, ContextIsAdmin(x))
  \cup Reads({"os-instance-actions"}, {"list", "show"}, ProjectReaderOrAdmin(x))
  \cup Reads({"os-instance-usage-audit-log"}, {"list", "show"}, ContextIsAdmin(x))
  \cup Reads({"ips"}, {"show", "index"}, ProjectReaderOrAdmin(x))
  \cup Reads({"os-keypairs"}, {"index", "show"}, ContextIsAdmin(x) \/
         Same(x, "user_id", "user_id"))
  \cup Writes({"os-keypairs"}, {"create", "delete"}, ContextIsAdmin(x) \/
         Same(x, "user_id", "user_id"))
  \cup Reads({"limits"}, {"use"}, Anyone(x))
  \cup Reads({"limits"}, {"other_project"}, ContextIsAdmin(x))
  \cup Writes({"os-lock-server"}, {"lock", "unlock"}, ProjectMemberOrAdmin(x))
  \cup Writes({"os-lock-server"}, {"unlock:unlock_override"}, ContextIsAdmin(x))
  \cup Writes({"os-migrate-server"}, {"migrate", "migrate_live"}, ContextIsAdmin(x))
  \cup Reads({"os-migrations"}, {"index"}, ContextIsAdmin(x))

QuotasAndConsoles(x) ==
       Writes({"os-multinic"}, {"add", "remove"}, ProjectMemberOrAdmin(x))
  \cup Reads({"os-networks"}, {"list", "show"}, ProjectReaderOrAdmin(x))
  \cup Writes({"os-pause-server"}, {"pause", "unpause"}, ProjectMemberOrAdmin(x))
  \cup Reads({"os-quota-class-sets"}, {"show"}, ContextIsAdmin(x))
  \cup Writes({"os-quota-class-sets"}, {"update"}, ContextIsAdmin(x))
  \cup Writes({"os-quota-sets"}, {"update", "delete"}, ContextIsAdmin(x))
  \cup Reads({"os-quota-sets"}, {"defaults"}, Anyone(x))
  \cup Reads({"os-quota-sets"}, {"show", "detail"}, ProjectReaderOrAdmin(x))
  \cup Writes({"os-remote-consoles", "os-rescue", "os-unrescue"}, {"use"},
         ProjectMemberOrAdmin(x))

SecurityGroups(x) ==
       Reads({"os-security-groups"}, {"get", "show", "list"}, ProjectReaderOrAdmin(x))
  \cup Writes({"os-security-groups"}, {"create", "update", "delete", "rule:create",
         "rule:delete", "add", "remove"}, ProjectMemberOrAdmin(x))
  \cup Reads({"os-server-diagnostics"}, {"use"}, ContextIsAdmin(x))
  \cup Writes({"os-server-external-events"}, {"create"}, ContextIsAdmin(x))
  \cup Writes({"os-server-groups"}, {"create", "delete"}, ProjectMemberOrAdmin(x))
  \cup Reads({"os-server-groups"}, {"index", "show"}, ProjectReaderOrAdmin(x))
  \cup Reads({"os-server-groups"}, {"index:all_projects"}, ContextIsAdmin(x))

ServerDetails(x) ==
       Reads({"server-metadata", "os-server-tags"}, {"index", "show"},
         ProjectReaderOrAdmin(x))
  \cup Writes({"server-metadata"}, {"create", "update_all", "update", "delete"},
         ProjectMemberOrAdmin(x))
  \cup Reads({"os-server-password"}, {"show"}, ProjectReaderOrAdmin(x))
  \cup Writes({"os-server-password"}, {"clear"}, ProjectMemberOrAdmin(x))
  \cup Writes({"os-server-tags"}, {"delete_all", "update_all", "delete", "update"},
         ProjectMemberOrAdmin(x))
  \cup Reads({"server"}, {"topology:index"}, ProjectReaderOrAdmin(x))
  \cup Reads({"server"}, {"topology:host:index"}, ContextIsAdmin(x))

Servers(x) ==
       Reads({"servers"}, {"index", "detail", "detail:get_all_tenants", "show"},
         ProjectReaderOrAdmin(x))
  \cup Reads({"servers"}, {"index:get_all_tenants", "allow_all_filters"},
         ContextIsAdmin(x))
  \cup Writes({"servers"}, {"show:flavor-extra-specs"}, ProjectReaderOrAdmin(x))
  \cup Writes({"servers"}, {"show:host_status", "show:host_status:unknown-only",
         "create:forced_host", "create:requested_destination", "create:zero_disk_flavor"},
         ContextIsAdmin(x))
  \cup Writes({"servers"}, {"create", "create:attach_volume", "create:attach_network",
         "create:trusted_certs"}, ProjectMemberOrAdmin(x))
  \cup Writes({"network"}, {"attach_external_network"}, ContextIsAdmin(x))

ServerActions(x) ==
       Writes({"servers"}, {"delete", "update", "confirm_resize", "revert_resize",
         "reboot", "resize", "rebuild", "rebuild:trusted_certs", "create_image",
         "create_image:allow_volume_backed", "start", "stop", "trigger_crash_dump"},
         ProjectMemberOrAdmin(x))
  \cup Writes({"servers"}, {"resize:cross_cell"}, Nobody(x))
  \cup Reads({"servers"}, {"migrations:show", "migrations:index"}, ContextIsAdmin(x))
  \cup Writes({"servers"}, {"migrations:force_complete", "migrations:delete"},
         ContextIsAdmin(x))
  \cup Reads({"os-services"}, {"list"}, ContextIsAdmin(x))
  \cup Writes({"os-services"}, {"update", "delete"}, ContextIsAdmin(x))

ShelvingAndVolumes(x) ==
       Writes({"os-shelve"}, {"shelve", "unshelve"}, ProjectMemberOrAdmin(x))
  \cup Writes({"os-shelve"}, {"unshelve_to_host", "shelve_offload"}, ContextIsAdmin(x))
  \cup Reads({"os-simple-tenant-usage"}, {"show"}, ProjectReaderOrAdmin(x))
  \cup Reads({"os-simple-tenant-usage"}, {"list"}, ContextIsAdmin(x))
  \cup Writes({"os-suspend-server"}, {"resume", "suspend"}, ProjectMemberOrAdmin(x))
  \cup Reads({"os-tenant-networks"}, {"list", "show"}, ProjectReaderApi(x))
  \cup Reads({"os-volumes"}, {"list", "detail", "show", "snapshots:list",
         "snapshots:detail", "snapshots:show"}, ProjectReaderOrAdmin(x))
  \cup Writes({"os-volumes"}, {"create", "delete", "snapshots:create",
         "snapshots:delete"}, ProjectMemberOrAdmin(x))

Attachments(x) ==
       Reads({"os-volumes-attachments"}, {"index", "show"}, ProjectReaderOrAdmin(x))
  \cup Writes({"os-volumes-attachments"}, {"create", "update", "delete"},
         ProjectMemberOrAdmin(x))
  \cup Writes({"os-volumes-attachments"}, {"swap"}, ContextIsAdmin(x))

\* Every registered rule, with its answer for x.
Rules(x) == NamedChecks(x) \cup AggregatesAndInterfaces(x) \cup FlavorsAndConsoles(x) \cup
            FloatingIpsAndHosts(x) \cup ActionsKeypairsLocks(x) \cup QuotasAndConsoles(x) \cup
            SecurityGroups(x) \cup ServerDetails(x) \cup Servers(x) \cup ServerActions(x) \cup
            ShelvingAndVolumes(x) \cup Attachments(x)
================================================================================
