----------------------------- MODULE MCPolicies -----------------------------
(***************************************************************************)
(* Policies for TLC: readers, members and administrators of a project,     *)
(* with one of the special roles that the tables name, or with the scope   *)
(* of the system.                                                          *)
(***************************************************************************)
EXTENDS Policies

Chain == {{}, {"reader"}, {"member"}, {"reader", "member"}, {"reader", "member", "admin"}}

SpecialRoles ==
    {"advsvc", "data_plane_integrator", "service", "creator", "audit", "observer",
     "load-balancer_global_observer", "load-balancer_member",
     "load-balancer_quota_admin", "load-balancer_admin", "heat_stack_user",
     "manager", "baremetal_admin", "system_admin", "administrator",
     "baremetal_observer", "key-manager:service-admin", "load-balancer_observer"}

MCUsers ==
    {[roles |-> roles, system |-> system] : roles \in Chain, system \in BOOLEAN} \cup
    {[roles |-> roles \cup {special}, system |-> FALSE] :
        roles \in Chain, special \in SpecialRoles}

MCAsked == {{service} : service \in SupportedServices} \cup {{"nova", "panko"}}

MCObjects == {<<>>, OthersObject} \cup OwnObjects
=============================================================================
