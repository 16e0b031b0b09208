---------------------------- MODULE MagnumPolicy ----------------------------
(***************************************************************************)
(* The rules of magnum (container clusters), from                          *)
(* policy/manager/magnum.py: the checks that others refer to by name, the  *)
(* named checks that guard no operation of their own, and the operations'  *)
(* rules in the order of the file, those of one resource that ask the      *)
(* same written together. x is the user and the target.                    *)
(***************************************************************************)
EXTENDS PolicyChecks

DenyClusterUser(x) == ~Same(x, "domain_id", "trustee_domain_id")
ContextIsAdmin(x) == AdminRole(x)
AdminApi(x) == ContextIsAdmin(x)
AdminOrUser(x) == ContextAdmin(x) \/ Same(x, "user_id", "user_id")
ClusterUser(x) == Same(x, "user_id", "trustee_user_id")
AdminOrOwner(x) == ContextAdmin(x) \/ OwnProject(x)

NamedChecks(x) ==
       Checks({"context_is_admin"}, ContextIsAdmin(x))
  \cup Checks({"admin_or_owner"}, AdminOrOwner(x))
  \cup Checks({"admin_api"}, AdminApi(x))
  \cup Checks({"admin_or_user"}, AdminOrUser(x))
  \cup Checks({"cluster_user"}, ClusterUser(x))
  \cup Checks({"deny_cluster_user"}, DenyClusterUser(x))

BaysAndModels(x) ==
       Writes({"bay", "baymodel"}, {"create", "delete", "update"}, DenyClusterUser(x))
  \cup Reads({"bay", "baymodel"}, {"detail", "get", "get_all"}, DenyClusterUser(x))
  \cup Writes({"baymodel"}, {"publish"}, AdminApi(x))
  \cup Writes({"certificate"}, {"create"}, AdminOrUser(x) \/ ClusterUser(x))
  \cup Reads({"certificate"}, {"get"}, AdminOrUser(x) \/ ClusterUser(x))
  \cup Writes({"certificate"}, {"rotate_ca"}, AdminOrOwner(x))

Clusters(x) ==
       Writes({"cluster"}, {"create", "delete", "update", "resize", "upgrade"},
         DenyClusterUser(x))
  \cup Writes({"cluster"}, {"delete_all_projects", "update_all_projects",
         "upgrade_all_projects"}, AdminApi(x))
  \cup Reads({"cluster"}, {"detail", "get", "get_all"}, DenyClusterUser(x))
  \cup Reads({"cluster"}, {"detail_all_projects", "get_one_all_projects",
         "get_all_all_projects"}, AdminApi(x))
  \cup Writes({"cluster"}, {"update_health_status"}, AdminOrUser(x) \/ ClusterUser(x))

Templates(x) ==
       Writes({"clustertemplate"}, {"create"}, DenyClusterUser(x))
  \cup Writes({"clustertemplate"}, {"delete", "update"}, AdminOrOwner(x))
  \cup Writes({"clustertemplate"}, {"delete_all_projects", "update_all_projects",
         "publish"}, AdminApi(x))
  \cup Reads({"clustertemplate"}, {"detail_all_projects", "get_one_all_projects",
         "get_all_all_projects"}, AdminApi(x))
  \cup Reads({"clustertemplate", "federation"}, {"detail", "get", "get_all"},
         DenyClusterUser(x))
  \cup Writes({"federation"}, {"create", "delete", "update"}, DenyClusterUser(x))
  \cup Reads({"magnum-service"}, {"get_all"}, AdminApi(x))

NodegroupsAndQuotas(x) ==
       Writes({"quota"}, {"create", "delete", "update"}, AdminApi(x))
  \cup Reads({"quota"}, {"get"}, AdminOrOwner(x))
  \cup Reads({"quota"}, {"get_all"}, AdminApi(x))
  \cup Reads({"stats"}, {"get_all"}, AdminOrOwner(x))
  \cup Reads({"nodegroup"}, {"get", "get_all"}, AdminOrOwner(x))
  \cup Reads({"nodegroup"}, {"get_all_all_projects", "get_one_all_projects"}, AdminApi(x))
  \cup Writes({"nodegroup"}, {"create", "delete", "update"}, AdminOrOwner(x))

\* Every registered rule, with its answer for x.
Rules(x) == NamedChecks(x) \cup BaysAndModels(x) \cup Clusters(x) \cup Templates(x) \cup
            NodegroupsAndQuotas(x)
================================================================================
