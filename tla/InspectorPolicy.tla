---------------------------- MODULE InspectorPolicy ----------------------------
(***************************************************************************)
(* The rules of ironic_inspector (bare metal introspection), from          *)
(* policy/manager/ironic_inspector.py: the checks that others refer to by  *)
(* name, the named checks that guard no operation of their own, and the    *)
(* operations' rules in the order of the file, those of one resource that  *)
(* ask the same written together. x is the user and the target.            *)
(***************************************************************************)
EXTENDS PolicyChecks

PublicApi(x) == Is(x, "is_public_api", "True")

NamedChecks(x) ==
       Checks({"is_admin"}, AdminRole(x) \/ Role(x, "administrator") \/
         Role(x, "baremetal_admin"))
  \cup Checks({"is_observer"}, Role(x, "baremetal_observer"))
  \cup Checks({"public_api"}, PublicApi(x))
  \cup Checks({"default"}, Nobody(x))

Introspection(x) ==
       Reads({"introspection"}, {"use", "version"}, PublicApi(x))
  \cup Writes({"introspection"}, {"continue"}, PublicApi(x))
  \cup Reads({"introspection"}, {"status"}, SystemReader(x))
  \cup Writes({"introspection"}, {"start", "abort", "reapply", "rule:delete",
         "rule:create"}, SystemAdmin(x))
  \cup Reads({"introspection"}, {"data", "rule:get"}, SystemAdmin(x))

\* Every registered rule, with its answer for x.
Rules(x) == NamedChecks(x) \cup Introspection(x)
================================================================================
