---------------------------- MODULE DesignatePolicy ----------------------------
(***************************************************************************)
(* The rules of designate (DNS), from policy/manager/designate.py: the     *)
(* checks that others refer to by name, the named checks that guard no     *)
(* operation of their own, and the operations' rules in the order of the   *)
(* file, those of one resource that ask the same written together. x is    *)
(* the user and the target.                                                *)
(***************************************************************************)
EXTENDS PolicyChecks

AdminOrReader(x) == AdminRole(x) \/ ProjectReader(x)
AdminOrMember(x) == AdminRole(x) \/ (Role(x, "member") /\ OwnProject(x))
RecordsetWriter(x) ==
  \/ Role(x, "member") /\ OwnProject(x) /\ Literal(x, "PRIMARY", "zone_type")
  \/ AdminRole(x) /\ Literal(x, "PRIMARY", "zone_type")
  \/ AdminRole(x) /\ Literal(x, "SECONDARY", "zone_type")
  \/ Role(x, "member") /\ Same(x, "project_id", "recordset_project_id") /\
       Literal(x, "PRIMARY", "zone_type")

NamedChecks(x) ==
       Checks({"admin"}, AdminRole(x) \/ ContextAdmin(x))
  \cup Checks({"owner"}, Same(x, "project_id", "tenant_id"))
  \cup Checks({"admin_or_owner"}, AdminRole(x) \/ ContextAdmin(x) \/
         Same(x, "project_id", "tenant_id"))
  \cup Checks({"default", "find_project_zone_share"}, AdminOrMember(x))
  \cup Checks({"all_tenants", "edit_managed_records", "use_low_ttl", "use_sudo",
         "hard_delete", "create_pool", "update_pool", "delete_pool",
         "update_service_status", "find_tenants", "get_tenant", "count_tenants",
         "purge_zones"}, AdminRole(x))
  \cup Checks({"count_records", "get_recordsets", "find_recordset", "count_recordset",
         "get_zones", "get_zone_servers", "count_zones", "count_zones_pending_notify",
         "get_zone_transfer_request_detailed"}, AdminOrReader(x))

Recordsets(x) ==
       Writes({"blacklist"}, {"create", "update", "delete"}, AdminRole(x))
  \cup Reads({"blacklist"}, {"find", "get"}, AdminRole(x))
  \cup Writes({"use_blacklisted_zone", "zone_create_forced_pool"}, {"use"}, AdminRole(x))
  \cup Reads({"pool"}, {"find_all", "find", "get"}, AdminRole(x))
  \cup Reads({"quota"}, {"get"}, AdminOrReader(x) \/ (Literal(x, "True", "all_tenants") /\
         ReaderRole(x)))
  \cup Writes({"quota"}, {"set", "reset"}, AdminRole(x))
  \cup Reads({"record", "recordsets"}, {"find"}, AdminOrReader(x))
  \cup Writes({"recordset"}, {"create"}, (Role(x, "member") /\ OwnProject(x) /\
         Literal(x, "PRIMARY", "zone_type")) \/ (AdminRole(x) /\
         Literal(x, "PRIMARY", "zone_type")) \/ (AdminRole(x) /\
         Literal(x, "SECONDARY", "zone_type")) \/ (Literal(x, "True", "zone_shared") /\
         Literal(x, "PRIMARY", "zone_type")))
  \cup Reads({"recordset"}, {"get"}, AdminOrReader(x) \/
         Literal(x, "True", "zone_shared"))
  \cup Writes({"recordset"}, {"update", "delete"}, RecordsetWriter(x))
  \cup Reads({"service_status"}, {"find", "find_all"}, AdminRole(x))

ZonesAndKeys(x) ==
       Reads({"zone_share"}, {"get"}, AdminOrMember(x))
  \cup Writes({"zone"}, {"share", "unshare", "create", "update", "delete"},
         AdminOrMember(x))
  \cup Reads({"zone_share"}, {"find"}, Anyone(x))
  \cup Writes({"tld", "tsigkey"}, {"create", "update", "delete"}, AdminRole(x))
  \cup Reads({"tld", "tsigkey"}, {"find", "get"}, AdminRole(x))
  \cup Reads({"zone"}, {"get"}, AdminOrReader(x) \/ Literal(x, "True", "zone_shared"))
  \cup Reads({"zone_ns_record"}, {"get"}, AdminOrReader(x))
  \cup Reads({"zone"}, {"find"}, AdminOrReader(x))
  \cup Writes({"xfr_zone"}, {"use"}, AdminOrMember(x))

Transfers(x) ==
       Writes({"abandon_zone"}, {"use"}, AdminRole(x))
  \cup Reads({"zone_export"}, {"use"}, AdminOrMember(x))
  \cup Writes({"zone_export", "zone_import", "zone_transfer_request"}, {"create",
         "update", "delete"}, AdminOrMember(x))
  \cup Reads({"zone_export", "zone_import"}, {"find", "get"}, AdminOrReader(x))
  \cup Writes({"zone_transfer_accept"}, {"create"}, AdminOrMember(x) \/
         Same(x, "project_id", "target_project_id") \/
         Literal(x, "None", "target_project_id"))
  \cup Reads({"zone_transfer_accept"}, {"get"}, AdminOrReader(x))
  \cup Reads({"zone_transfer_accept"}, {"find"}, AdminRole(x))
  \cup Reads({"zone_transfer_request"}, {"get"}, AdminOrMember(x) \/
         Same(x, "project_id", "target_project_id") \/
         Literal(x, "None", "target_project_id"))
  \cup Reads({"zone_transfer_request"}, {"find"}, Anyone(x))

\* Every registered rule, with its answer for x.
Rules(x) == NamedChecks(x) \cup Recordsets(x) \cup ZonesAndKeys(x) \cup Transfers(x)
================================================================================
