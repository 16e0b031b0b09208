---------------------------- MODULE ZunPolicy ----------------------------
(***************************************************************************)
(* The rules of zun (containers), from policy/manager/zun.py: the checks   *)
(* that others refer to by name, the named checks that guard no operation  *)
(* of their own, and the operations' rules in the order of the file,       *)
(* those of one resource that ask the same written together. x is the      *)
(* user and the target.                                                    *)
(***************************************************************************)
EXTENDS PolicyChecks

ContextIsAdmin(x) == AdminRole(x)
DenyEverybody(x) == FALSE

NamedChecks(x) ==
       Checks({"context_is_admin", "admin_api"}, ContextIsAdmin(x))
  \cup Checks({"admin_or_owner"}, ContextAdmin(x) \/ OwnProject(x))
  \cup Checks({"deny_everybody"}, DenyEverybody(x))

Containers(x) ==
       Writes({"container"}, {"create", "delete", "update", "start", "stop", "reboot",
         "pause"}, ContextAdmin(x) \/ OwnProject(x))
  \cup Writes({"container"}, {"create:runtime", "create:requested_destination",
         "create:image_pull_policy", "delete_all_projects", "delete_force",
         "get_one:host", "get_one:image_pull_policy", "get_one:privileged",
         "get_one:runtime"}, ContextIsAdmin(x))
  \cup Writes({"container"}, {"create:privileged"}, DenyEverybody(x))
  \cup Reads({"container"}, {"get_one", "get_all"}, ContextAdmin(x) \/ OwnProject(x))
  \cup Reads({"container"}, {"get_one_all_projects", "get_all_all_projects"},
         ContextIsAdmin(x))

ContainerActions(x) ==
       Writes({"container"}, {"unpause", "execute", "execute_resize", "kill", "rename",
         "resize", "put_archive", "commit", "add_security_group", "network_detach",
         "network_attach", "remove_security_group", "rebuild", "resize_container"},
         ContextAdmin(x) \/ OwnProject(x))
  \cup Reads({"container"}, {"logs", "attach", "top", "get_archive", "stats"},
         ContextAdmin(x) \/ OwnProject(x))

ImagesAndCapsules(x) ==
       Writes({"image"}, {"pull", "delete"}, ContextIsAdmin(x))
  \cup Reads({"image"}, {"get_all", "get_one"}, ContextIsAdmin(x))
  \cup Reads({"image"}, {"search"}, ContextAdmin(x) \/ OwnProject(x))
  \cup Writes({"zun-service"}, {"delete", "disable", "enable", "force_down"},
         ContextIsAdmin(x))
  \cup Reads({"zun-service"}, {"get_all"}, ContextIsAdmin(x))
  \cup Reads({"host"}, {"get_all", "get"}, ContextIsAdmin(x))
  \cup Writes({"capsule"}, {"create", "delete"}, ContextAdmin(x) \/ OwnProject(x))
  \cup Writes({"capsule"}, {"delete_all_projects", "get:host"}, ContextIsAdmin(x))
  \cup Reads({"capsule"}, {"get", "get_all"}, ContextAdmin(x) \/ OwnProject(x))
  \cup Reads({"capsule"}, {"get_one_all_projects", "get_all_all_projects"},
         ContextIsAdmin(x))

NetworksAndRegistries(x) ==
       Writes({"network"}, {"attach_external_network", "create", "delete"}, AdminRole(x))
  \cup Reads({"container"}, {"actions"}, ContextAdmin(x) \/ OwnProject(x))
  \cup Reads({"container"}, {"action:events"}, ContextIsAdmin(x))
  \cup Reads({"availability_zones"}, {"get_all"}, ContextAdmin(x) \/ OwnProject(x))
  \cup Writes({"quota"}, {"update", "delete"}, ContextIsAdmin(x))
  \cup Reads({"quota"}, {"get", "get_default"}, ContextAdmin(x) \/ OwnProject(x))
  \cup Writes({"quota_class"}, {"update"}, ContextIsAdmin(x))
  \cup Reads({"quota_class"}, {"get"}, ContextIsAdmin(x))
  \cup Writes({"registry"}, {"create", "delete", "update"}, ContextAdmin(x) \/
         OwnProject(x))
  \cup Reads({"registry"}, {"get_one", "get_all"}, ContextAdmin(x) \/ OwnProject(x))
  \cup Reads({"registry"}, {"get_all_all_projects"}, ContextIsAdmin(x))

\* Every registered rule, with its answer for x.
Rules(x) == NamedChecks(x) \cup Containers(x) \cup ContainerActions(x) \cup
            ImagesAndCapsules(x) \cup NetworksAndRegistries(x)
================================================================================
