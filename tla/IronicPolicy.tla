---------------------------- MODULE IronicPolicy ----------------------------
(***************************************************************************)
(* The rules of ironic (bare metal), from policy/manager/ironic.py: the    *)
(* checks that others refer to by name, the named checks that guard no     *)
(* operation of their own, and the operations' rules in the order of the   *)
(* file, those of one resource that ask the same written together. x is    *)
(* the user and the target.                                                *)
(***************************************************************************)
EXTENDS PolicyChecks

IsMember(x) ==
  /\ Is(x, "project_domain_id", "default") \/ Is(x, "project_domain_id", "None")
  /\ Is(x, "project_name", "demo") \/ Is(x, "project_name", "baremetal")
SystemMember(x) == MemberRole(x) /\ Is(x, "system_scope", "all")
OwnerAdmin(x) ==
  \/ AdminRole(x) /\ Same(x, "project_id", "node.owner")
  \/ Role(x, "manager") /\ Same(x, "project_id", "node.owner")
LesseeAdmin(x) ==
  \/ AdminRole(x) /\ Same(x, "project_id", "node.lessee")
  \/ Role(x, "manager") /\ Same(x, "project_id", "node.lessee")
NodeReader(x) ==
  \/ SystemReader(x)
  \/ ReaderRole(x) /\ (Same(x, "project_id", "node.owner") \/
       Same(x, "project_id", "node.lessee"))
OwnerReader(x) ==
  \/ SystemReader(x)
  \/ ReaderRole(x) /\ Same(x, "project_id", "node.owner")
OwnerMember(x) ==
  \/ SystemMember(x)
  \/ MemberRole(x) /\ Same(x, "project_id", "node.owner")
NodeMember(x) ==
  \/ SystemMember(x)
  \/ MemberRole(x) /\ (Same(x, "project_id", "node.owner") \/
       Same(x, "project_id", "node.lessee"))
AdminApi(x) == AdminRole(x) \/ Role(x, "administrator")

NamedChecks(x) ==
       Checks({"admin_api"}, AdminApi(x))
  \cup Checks({"public_api"}, Is(x, "is_public_api", "True"))
  \cup Checks({"show_password", "show_instance_secrets"}, Nobody(x))
  \cup Checks({"is_member"}, IsMember(x))
  \cup Checks({"is_observer"}, IsMember(x) /\ (Role(x, "observer") \/
         Role(x, "baremetal_observer")))
  \cup Checks({"is_admin"}, AdminApi(x) \/ (IsMember(x) /\ Role(x, "baremetal_admin")))
  \cup Checks({"is_node_owner"}, Same(x, "project_id", "node.owner"))
  \cup Checks({"is_node_lessee"}, Same(x, "project_id", "node.lessee"))
  \cup Checks({"is_allocation_owner"}, Same(x, "project_id", "allocation.owner"))

Nodes(x) ==
       Writes({"node"}, {"create", "update:chassis_uuid"}, SystemAdmin(x))
  \cup Writes({"node"}, {"create:self_owned_node"}, AdminRole(x))
  \cup Reads({"node"}, {"list"}, ReaderRole(x))
  \cup Reads({"node"}, {"list_all", "get:filter_threshold"}, SystemReader(x))
  \cup Reads({"node"}, {"get"}, NodeReader(x))
  \cup Reads({"node"}, {"get:last_error", "get:reservation", "get:driver_internal_info",
         "get:driver_info"}, OwnerReader(x))
  \cup Writes({"node"}, {"update:driver_info", "update:properties",
         "update:instance_uuid", "update:lessee", "update:network_data", "update:name",
         "update:retired"}, OwnerMember(x))
  \cup Writes({"node"}, {"update:owner", "update:conductor_group"}, SystemMember(x))
  \cup Writes({"node"}, {"update:driver_interfaces"}, SystemMember(x) \/ OwnerAdmin(x))

NodeStates(x) ==
       Writes({"node"}, {"update", "update_extra", "set_power_state", "set_boot_mode",
         "set_secure_boot"}, NodeMember(x))
  \cup Writes({"node"}, {"update_instance_info", "set_maintenance", "clear_maintenance",
         "set_provision_state"}, OwnerMember(x) \/ LesseeAdmin(x))
  \cup Writes({"node"}, {"update_owner_provisioned", "delete"}, SystemAdmin(x))
  \cup Writes({"node"}, {"delete:self_owned_node"}, AdminRole(x) /\
         Same(x, "project_id", "node.owner"))
  \cup Reads({"node"}, {"validate"}, OwnerMember(x) \/ LesseeAdmin(x))
  \cup Reads({"node"}, {"get_boot_device"}, SystemMember(x) \/ OwnerAdmin(x))
  \cup Writes({"node"}, {"set_boot_device", "inject_nmi"}, SystemMember(x) \/
         OwnerAdmin(x))
  \cup Reads({"node"}, {"get_indicator_state", "get_states"}, NodeReader(x))
  \cup Writes({"node"}, {"set_indicator_state", "set_raid_state"}, OwnerMember(x))
  \cup Reads({"node"}, {"get_console"}, OwnerMember(x))

NodeParts(x) ==
       Writes({"node"}, {"set_console_state"}, OwnerMember(x))
  \cup Reads({"node"}, {"vif:list", "traits:list", "bios:get"}, NodeReader(x))
  \cup Writes({"node"}, {"vif:attach", "vif:detach"}, OwnerMember(x) \/ LesseeAdmin(x))
  \cup Writes({"node"}, {"traits:set", "traits:delete"}, SystemMember(x) \/ OwnerAdmin(x))
  \cup Writes({"node"}, {"disable_cleaning"}, SystemAdmin(x))
  \cup Reads({"node"}, {"history:get"}, OwnerReader(x))
  \cup Reads({"port"}, {"get"}, NodeReader(x))
  \cup Reads({"port"}, {"list"}, ReaderRole(x))
  \cup Reads({"port"}, {"list_all"}, SystemReader(x))
  \cup Writes({"port"}, {"create", "delete"}, SystemAdmin(x) \/ OwnerAdmin(x))
  \cup Writes({"port"}, {"update"}, SystemMember(x) \/ OwnerAdmin(x))

PortgroupsAndDrivers(x) ==
       Reads({"portgroup"}, {"get"}, NodeReader(x))
  \cup Writes({"portgroup"}, {"create", "delete"}, SystemAdmin(x) \/ OwnerAdmin(x))
  \cup Writes({"portgroup"}, {"update"}, SystemMember(x) \/ OwnerAdmin(x))
  \cup Reads({"portgroup"}, {"list"}, ReaderRole(x))
  \cup Reads({"portgroup"}, {"list_all"}, SystemReader(x))
  \cup Reads({"chassis"}, {"get"}, SystemReader(x))
  \cup Writes({"chassis"}, {"create", "delete"}, SystemAdmin(x))
  \cup Writes({"chassis"}, {"update"}, SystemMember(x))
  \cup Reads({"driver"}, {"get", "get_properties", "get_raid_logical_disk_properties"},
         SystemReader(x))
  \cup Writes({"node", "driver"}, {"vendor_passthru"}, SystemAdmin(x))
  \cup Writes({"node"}, {"ipa_heartbeat"}, Anyone(x))
  \cup Reads({"driver"}, {"ipa_lookup"}, Anyone(x))

VolumesAndAllocations(x) ==
       Reads({"volume", "allocation"}, {"list_all"}, SystemReader(x))
  \cup Reads({"volume", "allocation"}, {"list"}, ReaderRole(x))
  \cup Reads({"volume"}, {"get"}, NodeReader(x))
  \cup Writes({"volume"}, {"create", "delete"}, SystemMember(x) \/ OwnerAdmin(x) \/
         LesseeAdmin(x))
  \cup Writes({"volume"}, {"update"}, OwnerMember(x) \/ LesseeAdmin(x))
  \cup Reads({"volume"}, {"view_target_properties"}, SystemReader(x) \/ AdminRole(x))
  \cup Reads({"conductor", "deploy_template"}, {"get"}, SystemReader(x))
  \cup Reads({"allocation"}, {"get"}, SystemReader(x) \/ (ReaderRole(x) /\
         Same(x, "project_id", "allocation.owner")))
  \cup Writes({"allocation"}, {"create"}, SystemMember(x) \/ MemberRole(x))
  \cup Writes({"allocation"}, {"create_restricted"}, SystemMember(x))
  \cup Writes({"allocation"}, {"delete", "update"}, SystemMember(x) \/ (MemberRole(x) /\
         Same(x, "project_id", "allocation.owner")))
  \cup Writes({"allocation"}, {"create_pre_rbac"}, (IsMember(x) /\
         Role(x, "baremetal_admin")) \/ (Is(x, "is_admin_project", "True") /\
         AdminRole(x)))
  \cup Writes({"events"}, {"post"}, SystemAdmin(x))
  \cup Writes({"deploy_template"}, {"create", "delete", "update"}, SystemAdmin(x))

\* Every registered rule, with its answer for x.
Rules(x) == NamedChecks(x) \cup Nodes(x) \cup NodeStates(x) \cup NodeParts(x) \cup
            PortgroupsAndDrivers(x) \cup VolumesAndAllocations(x)
================================================================================
