---------------------------- MODULE PlacementPolicy ----------------------------
(***************************************************************************)
(* The rules of placement (placement), from policy/manager/placement.py:   *)
(* the checks that others refer to by name, the named checks that guard    *)
(* no operation of their own, and the operations' rules in the order of    *)
(* the file, those of one resource that ask the same written together. x   *)
(* is the user and the target.                                             *)
(***************************************************************************)
EXTENDS PolicyChecks

SystemReaderApi(x) == SystemReader(x)
SystemAdminApi(x) == SystemAdmin(x)
ProjectReaderApi(x) == ProjectReader(x)
SystemOrProjectReader(x) == SystemReaderApi(x) \/ ProjectReaderApi(x)

NamedChecks(x) ==
       Checks({"admin_api"}, AdminRole(x))
  \cup Checks({"system_admin_api"}, SystemAdminApi(x))
  \cup Checks({"system_reader_api"}, SystemReaderApi(x))
  \cup Checks({"project_reader_api"}, ProjectReaderApi(x))
  \cup Checks({"system_or_project_reader"}, SystemOrProjectReader(x))

Providers(x) ==
       Reads({"resource_providers", "resource_classes", "resource_providers:inventories"},
         {"list", "show"}, SystemReaderApi(x))
  \cup Writes({"resource_providers", "resource_classes",
         "resource_providers:inventories"}, {"create", "update", "delete"},
         SystemAdminApi(x))
  \cup Reads({"resource_providers:aggregates"}, {"list"}, SystemReaderApi(x))
  \cup Writes({"resource_providers:aggregates"}, {"update"}, SystemAdminApi(x))
  \cup Reads({"resource_providers:usages"}, {"show"}, SystemReaderApi(x))
  \cup Reads({"usages"}, {"show"}, SystemOrProjectReader(x))

TraitsAndAllocations(x) ==
       Reads({"traits"}, {"list", "show"}, SystemReaderApi(x))
  \cup Writes({"traits", "resource_providers:traits"}, {"update", "delete"},
         SystemAdminApi(x))
  \cup Reads({"resource_providers:traits", "allocations",
         "resource_providers:allocations", "allocation_candidates"}, {"list"},
         SystemReaderApi(x))
  \cup Writes({"allocations"}, {"manage", "update", "delete"}, SystemAdminApi(x))
  \cup Writes({"reshaper"}, {"reshape"}, SystemAdminApi(x))

\* Every registered rule, with its answer for x.
Rules(x) == NamedChecks(x) \cup Providers(x) \cup TraitsAndAllocations(x)
================================================================================
