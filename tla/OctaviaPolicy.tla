---------------------------- MODULE OctaviaPolicy ----------------------------
(***************************************************************************)
(* The rules of octavia (load balancers), from policy/manager/octavia.py:  *)
(* the checks that others refer to by name, the named checks that guard    *)
(* no operation of their own, and the operations' rules in the order of    *)
(* the file, those of one resource that ask the same written together.     *)
(* The prefix load-balancer: of named checks is left out. x is the user    *)
(* and the target.                                                         *)
(***************************************************************************)
EXTENDS PolicyChecks

LoadBalancerObserverAndOwner(x) == Role(x, "load-balancer_observer") /\ ProjectReader(x)
LoadBalancerGlobalObserver(x) ==
  \/ Role(x, "load-balancer_global_observer")
  \/ SystemReader(x)
LoadBalancerMemberAndOwner(x) == Role(x, "load-balancer_member") /\ ProjectMember(x)
LoadBalancerAdmin(x) ==
  \/ ContextAdmin(x)
  \/ Role(x, "load-balancer_admin")
  \/ SystemAdmin(x)
LoadBalancerRead(x) ==
  \/ LoadBalancerObserverAndOwner(x)
  \/ LoadBalancerGlobalObserver(x)
  \/ LoadBalancerMemberAndOwner(x)
  \/ LoadBalancerAdmin(x)
LoadBalancerReadGlobal(x) == LoadBalancerGlobalObserver(x) \/ LoadBalancerAdmin(x)
LoadBalancerWrite(x) == LoadBalancerMemberAndOwner(x) \/ LoadBalancerAdmin(x)
LoadBalancerReadQuota(x) ==
  \/ LoadBalancerObserverAndOwner(x)
  \/ LoadBalancerGlobalObserver(x)
  \/ LoadBalancerMemberAndOwner(x)
  \/ Role(x, "load-balancer_quota_admin")
  \/ LoadBalancerAdmin(x)
LoadBalancerReadQuotaGlobal(x) ==
  \/ LoadBalancerGlobalObserver(x)
  \/ Role(x, "load-balancer_quota_admin")
  \/ LoadBalancerAdmin(x)
LoadBalancerWriteQuota(x) == Role(x, "load-balancer_quota_admin") \/ LoadBalancerAdmin(x)

NamedChecks(x) ==
       Checks({"system-admin"}, SystemAdmin(x))
  \cup Checks({"system-reader"}, SystemReader(x))
  \cup Checks({"project-member"}, ProjectMember(x))
  \cup Checks({"project-reader"}, ProjectReader(x))
  \cup Checks({"context_is_admin"}, Role(x, "load-balancer_admin") \/ SystemAdmin(x))
  \cup Checks({"owner"}, OwnProject(x))
  \cup Checks({"observer_and_owner"}, LoadBalancerObserverAndOwner(x))
  \cup Checks({"global_observer"}, LoadBalancerGlobalObserver(x))
  \cup Checks({"member_and_owner"}, LoadBalancerMemberAndOwner(x))
  \cup Checks({"admin"}, LoadBalancerAdmin(x))
  \cup Checks({"read"}, LoadBalancerRead(x))
  \cup Checks({"read-global"}, LoadBalancerReadGlobal(x))
  \cup Checks({"write"}, LoadBalancerWrite(x))
  \cup Checks({"read-quota"}, LoadBalancerReadQuota(x))
  \cup Checks({"read-quota-global"}, LoadBalancerReadQuotaGlobal(x))
  \cup Checks({"write-quota"}, LoadBalancerWriteQuota(x))

Flavors(x) ==
       Reads({"flavor", "availability-zone"}, {"get_all", "get_one"}, LoadBalancerRead(x))
  \cup Writes({"flavor", "flavor-profile", "availability-zone",
         "availability-zone-profile"}, {"post", "put", "delete"}, LoadBalancerAdmin(x))
  \cup Reads({"flavor-profile", "availability-zone-profile"}, {"get_all", "get_one"},
         LoadBalancerAdmin(x))

L7Policies(x) ==
       Reads({"healthmonitor", "l7policy", "l7rule"}, {"get_all", "get_one"},
         LoadBalancerRead(x))
  \cup Reads({"healthmonitor", "l7policy"}, {"get_all-global"}, LoadBalancerReadGlobal(x))
  \cup Writes({"healthmonitor", "l7policy", "l7rule"}, {"post", "put", "delete"},
         LoadBalancerWrite(x))

LoadBalancers(x) ==
       Reads({"listener"}, {"get_all", "get_one", "get_stats"}, LoadBalancerRead(x))
  \cup Reads({"listener", "loadbalancer"}, {"get_all-global"}, LoadBalancerReadGlobal(x))
  \cup Writes({"listener", "loadbalancer", "member"}, {"post", "put", "delete"},
         LoadBalancerWrite(x))
  \cup Reads({"loadbalancer"}, {"get_all", "get_one", "get_stats", "get_status"},
         LoadBalancerRead(x))
  \cup Writes({"loadbalancer"}, {"put_failover"}, LoadBalancerAdmin(x))
  \cup Reads({"member"}, {"get_all", "get_one"}, LoadBalancerRead(x))

PoolsAndQuotas(x) ==
       Reads({"pool"}, {"get_all", "get_one"}, LoadBalancerRead(x))
  \cup Reads({"pool"}, {"get_all-global"}, LoadBalancerReadGlobal(x))
  \cup Writes({"pool"}, {"post", "put", "delete"}, LoadBalancerWrite(x))
  \cup Reads({"provider"}, {"get_all"}, LoadBalancerRead(x))
  \cup Reads({"quota"}, {"get_all", "get_one", "get_defaults"}, LoadBalancerReadQuota(x))
  \cup Reads({"quota"}, {"get_all-global"}, LoadBalancerReadQuotaGlobal(x))
  \cup Writes({"quota"}, {"put", "delete"}, LoadBalancerWriteQuota(x))
  \cup Reads({"amphora"}, {"get_all", "get_one", "get_stats"}, LoadBalancerAdmin(x))
  \cup Writes({"amphora"}, {"delete", "put_config", "put_failover"}, LoadBalancerAdmin(x))
  \cup Reads({"provider-flavor", "provider-availability-zone"}, {"get_all"},
         LoadBalancerAdmin(x))

\* Every registered rule, with its answer for x.
Rules(x) == NamedChecks(x) \cup Flavors(x) \cup L7Policies(x) \cup LoadBalancers(x) \cup
            PoolsAndQuotas(x)
================================================================================
