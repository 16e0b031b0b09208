---------------------------- MODULE HeatPolicy ----------------------------
(***************************************************************************)
(* The rules of heat (orchestration), from policy/manager/heat.py: the     *)
(* checks that others refer to by name, the named checks that guard no     *)
(* operation of their own, and the operations' rules in the order of the   *)
(* file, those of one resource that ask the same written together. The 22  *)
(* named checks of resource types, which all ask the same, are one here.   *)
(* x is the user and the target.                                           *)
(***************************************************************************)
EXTENDS PolicyChecks

StackWriter(x) == SystemAdmin(x) \/ ProjectMember(x)
StackReader(x) == SystemReader(x) \/ ProjectReader(x)
StackUser(x) == StackReader(x) \/ (Role(x, "heat_stack_user") /\ OwnProject(x))

NamedChecks(x) ==
       Checks({"context_is_admin"}, (AdminRole(x) /\ Is(x, "is_admin_project", "True")) \/
         SystemAdmin(x))
  \cup Checks({"project_admin", "resource_types"}, AdminRole(x))
  \cup Checks({"deny_stack_user"}, ~Role(x, "heat_stack_user"))
  \cup Checks({"deny_everybody"}, Nobody(x))
  \cup Checks({"allow_everybody"}, Anyone(x))
  \cup Checks({"cloudformation:CreateStack", "cloudformation:DeleteStack",
         "cloudformation:UpdateStack", "cloudformation:CancelUpdateStack"}, StackWriter(x))
  \cup Checks({"cloudformation:ListStacks", "cloudformation:DescribeStacks",
         "cloudformation:DescribeStackEvents", "cloudformation:ValidateTemplate",
         "cloudformation:GetTemplate", "cloudformation:EstimateTemplateCost",
         "cloudformation:DescribeStackResources", "cloudformation:ListStackResources"},
         StackReader(x))
  \cup Checks({"cloudformation:DescribeStackResource"}, StackUser(x))
  \cup Checks({"service:index"}, SystemReader(x))

ResourcesAndConfigs(x) ==
       Writes({"actions"}, {"action", "snapshot", "suspend", "resume", "cancel_update",
         "cancel_without_rollback"}, StackWriter(x))
  \cup Writes({"actions"}, {"check"}, StackReader(x))
  \cup Reads({"build_info"}, {"build_info"}, StackReader(x))
  \cup Reads({"events", "resource", "software_configs"}, {"index", "show"},
         StackReader(x))
  \cup Reads({"resource"}, {"metadata"}, StackReader(x) \/ (Role(x, "heat_stack_user") /\
         OwnProject(x)))
  \cup Writes({"resource"}, {"signal"}, StackReader(x) \/ (Role(x, "heat_stack_user") /\
         OwnProject(x)))
  \cup Writes({"resource"}, {"mark_unhealthy"}, StackWriter(x))
  \cup Reads({"software_configs"}, {"global_index"}, SystemReader(x))
  \cup Writes({"software_configs"}, {"create"}, StackReader(x))
  \cup Writes({"software_configs"}, {"delete"}, StackWriter(x))

Deployments(x) ==
       Reads({"software_deployments"}, {"index", "show"}, StackReader(x))
  \cup Writes({"software_deployments"}, {"create", "update", "delete"}, StackWriter(x))
  \cup Reads({"software_deployments"}, {"metadata"}, StackReader(x) \/
         (Role(x, "heat_stack_user") /\ OwnProject(x)))

Stacks(x) ==
       Writes({"stacks"}, {"abandon", "create", "delete", "update", "update_patch",
         "update_no_change"}, StackWriter(x))
  \cup Reads({"stacks"}, {"detail", "index", "list_resource_types",
         "list_template_versions", "list_template_functions", "resource_schema", "show",
         "template", "environment", "files"}, StackReader(x))
  \cup Reads({"stacks"}, {"export", "generate_template"}, StackWriter(x))
  \cup Reads({"stacks"}, {"global_index"}, SystemReader(x))
  \cup Reads({"stacks"}, {"lookup"}, StackReader(x) \/ (Role(x, "heat_stack_user") /\
         OwnProject(x)))
  \cup Writes({"stacks"}, {"preview"}, StackReader(x))

Snapshots(x) ==
       Writes({"stacks"}, {"preview_update", "preview_update_patch", "validate_template",
         "snapshot", "delete_snapshot", "restore_snapshot"}, StackWriter(x))
  \cup Reads({"stacks"}, {"show_snapshot", "list_snapshots", "list_outputs",
         "show_output"}, StackReader(x))

\* Every registered rule, with its answer for x.
Rules(x) == NamedChecks(x) \cup ResourcesAndConfigs(x) \cup Deployments(x) \cup Stacks(x) \cup
            Snapshots(x)
================================================================================
