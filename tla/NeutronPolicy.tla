---------------------------- MODULE NeutronPolicy ----------------------------
(***************************************************************************)
(* The rules of neutron (network), from policy/manager/neutron.py: the     *)
(* checks that others refer to by name, the named checks that guard no     *)
(* operation of their own, and the operations' rules in the order of the   *)
(* file, those of one resource that ask the same written together. x is    *)
(* the user and the target.                                                *)
(***************************************************************************)
EXTENDS PolicyChecks

SharedAddressGroups(x) == Is(x, "field", "address_groups:shared=True")
ContextIsAdmin(x) == AdminRole(x)
AdminOnly(x) == ContextIsAdmin(x)
SharedAddressScopes(x) == Is(x, "field", "address_scopes:shared=True")
ExtParentOwner(x) == Same(x, "tenant_id", "ext_parent:tenant_id")
Shared(x) == Is(x, "field", "networks:shared=True")
External(x) == Is(x, "field", "networks:router:external=True")
ContextIsAdvsvc(x) == Role(x, "advsvc")
NetworkDevice(x) == Is(x, "field", "port:device_owner=~^network:")
NetworkOwner(x) == Same(x, "tenant_id", "network:tenant_id")
SgOwner(x) == Same(x, "tenant_id", "security_group:tenant_id")
SharedSubnetpools(x) == Is(x, "field", "subnetpools:shared=True")
RegularUser(x) == TRUE
Owner(x) == Same(x, "tenant_id", "tenant_id")
AdminOrOwner(x) == ContextIsAdmin(x) \/ Owner(x)
AdminOrMember(x) == AdminOnly(x) \/ ProjectMember(x)
AdminOrReader(x) == AdminOnly(x) \/ ProjectReader(x)
NetworkAdmin(x) == ContextIsAdvsvc(x) \/ NetworkOwner(x) \/ AdminOnly(x)

NamedChecks(x) ==
       Checks({"context_is_admin"}, ContextIsAdmin(x))
  \cup Checks({"owner"}, Owner(x))
  \cup Checks({"admin_or_owner", "default"}, AdminOrOwner(x))
  \cup Checks({"context_is_advsvc"}, ContextIsAdvsvc(x))
  \cup Checks({"admin_or_network_owner"}, ContextIsAdmin(x) \/ NetworkOwner(x))
  \cup Checks({"admin_owner_or_network_owner"}, Owner(x) \/ ContextIsAdmin(x) \/
         NetworkOwner(x))
  \cup Checks({"network_owner"}, NetworkOwner(x))
  \cup Checks({"admin_only"}, AdminOnly(x))
  \cup Checks({"regular_user"}, RegularUser(x))
  \cup Checks({"admin_or_ext_parent_owner"}, ContextIsAdmin(x) \/ ExtParentOwner(x))
  \cup Checks({"ext_parent_owner"}, ExtParentOwner(x))
  \cup Checks({"sg_owner"}, SgOwner(x))
  \cup Checks({"admin_or_sg_owner"}, ContextIsAdmin(x) \/ SgOwner(x))
  \cup Checks({"admin_owner_or_sg_owner"}, Owner(x) \/ ContextIsAdmin(x) \/ SgOwner(x))
  \cup Checks({"get_flavor_service_profile"}, AdminOrReader(x))
  \cup Checks({"admin_or_data_plane_int"}, ContextIsAdmin(x) \/
         Role(x, "data_plane_integrator"))
  \cup Checks({"shared"}, Shared(x))
  \cup Checks({"shared_address_groups"}, SharedAddressGroups(x))
  \cup Checks({"shared_address_scopes"}, SharedAddressScopes(x))
  \cup Checks({"external"}, External(x))
  \cup Checks({"network_device"}, NetworkDevice(x))
  \cup Checks({"shared_subnetpools"}, SharedSubnetpools(x))
  \cup Checks({"restrict_wildcard"}, (~Is(x, "field", "rbac_policy:target_tenant=*") /\
         ~Is(x, "field", "rbac_policy:target_project=*")) \/ AdminOnly(x))

AddressesAndAgents(x) ==
       Reads({"address_group"}, {"get"}, ProjectReader(x) \/ SharedAddressGroups(x))
  \cup Writes({"address_scope"}, {"create", "update", "delete"}, AdminOrMember(x))
  \cup Writes({"address_scope"}, {"create:shared", "update:shared"}, AdminOnly(x))
  \cup Reads({"address_scope"}, {"get"}, AdminOrReader(x) \/ SharedAddressScopes(x))
  \cup Reads({"agent", "dhcp-network", "l3-router", "dhcp-agent", "l3-agent",
         "availability_zone"}, {"get"}, AdminOnly(x))
  \cup Writes({"agent"}, {"update", "delete"}, AdminOnly(x))
  \cup Writes({"dhcp-network", "l3-router"}, {"create", "delete"}, AdminOnly(x))
  \cup Reads({"auto_allocated_topology"}, {"get"}, ProjectReader(x))
  \cup Writes({"auto_allocated_topology"}, {"delete"}, ProjectMember(x))

FlavorsAndFloatingIps(x) ==
       Writes({"flavor", "service_profile"}, {"create", "update", "delete"}, AdminOnly(x))
  \cup Reads({"flavor", "floatingip"}, {"get"}, AdminOrReader(x))
  \cup Reads({"service_profile"}, {"get"}, AdminOnly(x))
  \cup Writes({"flavor_service_profile"}, {"create", "delete"}, AdminOnly(x))
  \cup Writes({"floatingip"}, {"create", "update", "delete"}, AdminOrMember(x))
  \cup Writes({"floatingip"}, {"create:floating_ip_address"}, AdminOnly(x))
  \cup Reads({"floatingip_pool"}, {"get"}, ProjectReader(x))
  \cup Writes({"floatingip_port_forwarding"}, {"create", "update", "delete"},
         ProjectMember(x) \/ ExtParentOwner(x))
  \cup Reads({"floatingip_port_forwarding"}, {"get"}, ProjectReader(x) \/
         ExtParentOwner(x))

LocalIpsAndLogs(x) ==
       Writes({"router_conntrack_helper"}, {"create", "update", "delete"},
         ProjectMember(x) \/ ExtParentOwner(x))
  \cup Reads({"router_conntrack_helper", "local_ip_port_association"}, {"get"},
         ProjectReader(x) \/ ExtParentOwner(x))
  \cup Writes({"local_ip"}, {"create", "update", "delete"}, ProjectMember(x))
  \cup Reads({"local_ip"}, {"get"}, ProjectReader(x))
  \cup Writes({"local_ip_port_association"}, {"create", "delete"}, ProjectMember(x) \/
         ExtParentOwner(x))
  \cup Reads({"loggable_resource", "log"}, {"get"}, AdminOnly(x))
  \cup Writes({"log"}, {"create", "update", "delete"}, AdminOnly(x))
  \cup Writes({"metering_label"}, {"create", "delete"}, AdminOnly(x))
  \cup Reads({"metering_label"}, {"get"}, AdminOrReader(x))

MeteringRules(x) ==
       Writes({"metering_label_rule"}, {"create", "delete"}, AdminOnly(x))
  \cup Reads({"metering_label_rule"}, {"get"}, AdminOrReader(x))
  \cup Writes({"ndp_proxy"}, {"create", "update", "delete"}, ProjectMember(x))
  \cup Reads({"ndp_proxy"}, {"get"}, ProjectReader(x))

Networks(x) ==
       Writes({"network"}, {"create", "create:port_security_enabled", "update"},
         AdminOrMember(x))
  \cup Writes({"network"}, {"create:shared", "create:router:external",
         "create:is_default", "create:segments", "create:provider:network_type",
         "create:provider:physical_network", "create:provider:segmentation_id",
         "update:segments", "update:shared", "update:provider:network_type",
         "update:provider:physical_network", "update:provider:segmentation_id"},
         AdminOnly(x))
  \cup Reads({"network"}, {"get"}, AdminOrReader(x) \/ Shared(x) \/ External(x) \/
         ContextIsAdvsvc(x))
  \cup Reads({"network"}, {"get:router:external"}, AdminOrReader(x))
  \cup Reads({"network"}, {"get:segments", "get:provider:network_type",
         "get:provider:physical_network", "get:provider:segmentation_id"}, AdminOnly(x))

SegmentRanges(x) ==
       Writes({"network"}, {"update:router:external", "update:is_default"}, AdminOnly(x))
  \cup Writes({"network"}, {"update:port_security_enabled", "delete"}, AdminOrMember(x))
  \cup Reads({"network_ip_availability", "network_segment_range"}, {"get"}, AdminOnly(x))
  \cup Writes({"network_segment_range"}, {"create", "update", "delete"}, AdminOnly(x))

PortsCreated(x) ==
       Writes({"port"}, {"create", "create:binding:vnic_type"}, AdminOrMember(x))
  \cup Writes({"port"}, {"create:device_owner", "update:device_owner"}, ~NetworkDevice(x)
         \/ NetworkAdmin(x))
  \cup Writes({"port"}, {"create:mac_address", "create:fixed_ips:ip_address",
         "create:port_security_enabled"}, NetworkAdmin(x))
  \cup Writes({"port"}, {"create:fixed_ips", "create:fixed_ips:subnet_id"},
         NetworkAdmin(x) \/ Shared(x))
  \cup Writes({"port"}, {"create:binding:host_id", "create:binding:profile"},
         AdminOnly(x))
  \cup Writes({"port"}, {"create:allowed_address_pairs",
         "create:allowed_address_pairs:mac_address",
         "create:allowed_address_pairs:ip_address"}, AdminOnly(x) \/ NetworkOwner(x))
  \cup Reads({"port"}, {"get"}, AdminOrReader(x) \/ ContextIsAdvsvc(x))
  \cup Reads({"port"}, {"get:binding:vif_type", "get:binding:vif_details",
         "get:binding:host_id", "get:binding:profile", "get:resource_request"},
         AdminOnly(x))
  \cup Writes({"port"}, {"update"}, AdminOrMember(x) \/ ContextIsAdvsvc(x))

PortsUpdated(x) ==
       Writes({"port"}, {"update:mac_address"}, AdminOnly(x) \/ ContextIsAdvsvc(x))
  \cup Writes({"port"}, {"update:fixed_ips", "update:fixed_ips:ip_address",
         "update:port_security_enabled"}, NetworkAdmin(x))
  \cup Writes({"port"}, {"update:fixed_ips:subnet_id"}, NetworkAdmin(x) \/ Shared(x))
  \cup Writes({"port"}, {"update:binding:host_id", "update:binding:profile"},
         AdminOnly(x))
  \cup Writes({"port"}, {"update:binding:vnic_type", "delete"}, AdminOrMember(x) \/
         ContextIsAdvsvc(x))
  \cup Writes({"port"}, {"update:allowed_address_pairs",
         "update:allowed_address_pairs:mac_address",
         "update:allowed_address_pairs:ip_address"}, AdminOnly(x) \/ NetworkOwner(x))
  \cup Writes({"port"}, {"update:data_plane_status"}, AdminOnly(x) \/
         Role(x, "data_plane_integrator"))
  \cup Reads({"policy"}, {"get"}, AdminOrReader(x))
  \cup Writes({"policy"}, {"create", "update", "delete"}, AdminOnly(x))
  \cup Reads({"rule_type"}, {"get"}, AdminOnly(x))

QosRules(x) ==
       Reads({"policy_bandwidth_limit_rule", "policy_packet_rate_limit_rule",
         "policy_dscp_marking_rule", "policy_minimum_bandwidth_rule",
         "policy_minimum_packet_rate_rule"}, {"get"}, AdminOrReader(x))
  \cup Writes({"policy_bandwidth_limit_rule", "policy_packet_rate_limit_rule",
         "policy_dscp_marking_rule", "policy_minimum_bandwidth_rule",
         "policy_minimum_packet_rate_rule"}, {"create", "update", "delete"}, AdminOnly(x))

AliasRulesAndQuotas(x) ==
       Reads({"alias_bandwidth_limit_rule", "alias_dscp_marking_rule",
         "alias_minimum_bandwidth_rule", "alias_minimum_packet_rate_rule", "rbac_policy"},
         {"get"}, AdminOrReader(x))
  \cup Writes({"alias_bandwidth_limit_rule", "alias_dscp_marking_rule",
         "alias_minimum_bandwidth_rule", "alias_minimum_packet_rate_rule", "quota"},
         {"update", "delete"}, AdminOnly(x))
  \cup Reads({"quota"}, {"get"}, AdminOnly(x))
  \cup Writes({"rbac_policy"}, {"create", "update", "delete"}, AdminOrMember(x))
  \cup Writes({"rbac_policy"}, {"create:target_tenant", "update:target_tenant"},
         AdminOnly(x) \/ (~Is(x, "field", "rbac_policy:target_tenant=*") /\
         ~Is(x, "field", "rbac_policy:target_project=*")))

Routers(x) ==
       Writes({"router"}, {"create", "create:external_gateway_info",
         "create:external_gateway_info:network_id", "update",
         "update:external_gateway_info", "update:external_gateway_info:network_id",
         "delete"}, AdminOrMember(x))
  \cup Writes({"router"}, {"create:distributed", "create:ha",
         "create:external_gateway_info:enable_snat",
         "create:external_gateway_info:external_fixed_ips", "update:distributed",
         "update:ha", "update:external_gateway_info:enable_snat",
         "update:external_gateway_info:external_fixed_ips"}, AdminOnly(x))
  \cup Reads({"router"}, {"get"}, AdminOrReader(x))
  \cup Reads({"router"}, {"get:distributed", "get:ha"}, AdminOnly(x))
  \cup Writes({"router_interface"}, {"add", "remove"}, AdminOrMember(x))

SecurityGroups(x) ==
       Writes({"extraroute"}, {"add", "remove"}, AdminOrMember(x))
  \cup Writes({"security_group"}, {"create", "update", "delete"}, ProjectMember(x))
  \cup Reads({"security_group"}, {"get"}, ProjectReader(x))
  \cup Writes({"security_group_rule"}, {"create", "delete"}, ProjectMember(x))
  \cup Reads({"security_group_rule"}, {"get"}, ProjectReader(x) \/ SgOwner(x))
  \cup Writes({"segment"}, {"create", "update", "delete"}, AdminOnly(x))
  \cup Reads({"segment"}, {"get"}, AdminOnly(x))
  \cup Reads({"service_provider"}, {"get"}, ReaderRole(x))

Subnets(x) ==
       Writes({"subnet"}, {"create", "update", "delete"}, AdminOrMember(x) \/
         NetworkOwner(x))
  \cup Writes({"subnet"}, {"create:segment_id", "create:service_types",
         "update:segment_id", "update:service_types"}, AdminOnly(x))
  \cup Reads({"subnet"}, {"get"}, AdminOrReader(x) \/ Shared(x))
  \cup Reads({"subnet"}, {"get:segment_id"}, AdminOnly(x))
  \cup Writes({"subnetpool"}, {"create", "update", "delete"}, AdminOrMember(x))
  \cup Writes({"subnetpool"}, {"create:shared", "create:is_default", "update:is_default"},
         AdminOnly(x))
  \cup Reads({"subnetpool"}, {"get"}, AdminOrReader(x) \/ SharedSubnetpools(x))
  \cup Writes({"network_subnet"}, {"onboard"}, AdminOrMember(x))
  \cup Writes({"prefixe"}, {"add", "remove"}, AdminOrMember(x))

TrunksAndVpnPolicies(x) ==
       Writes({"trunk"}, {"create", "update", "delete"}, ProjectMember(x))
  \cup Reads({"trunk", "subport"}, {"get"}, ProjectReader(x))
  \cup Writes({"subport"}, {"add", "remove"}, ProjectMember(x))
  \cup Writes({"endpoint_group", "ikepolicy", "ipsecpolicy"}, {"create"}, RegularUser(x))
  \cup Writes({"endpoint_group", "ikepolicy", "ipsecpolicy"}, {"update", "delete"},
         AdminOrOwner(x))
  \cup Reads({"endpoint_group", "ikepolicy", "ipsecpolicy"}, {"get"}, AdminOrOwner(x))

VpnConnections(x) ==
       Writes({"ipsec_site_connection", "vpnservice"}, {"create"}, RegularUser(x))
  \cup Writes({"ipsec_site_connection", "vpnservice"}, {"update", "delete"},
         AdminOrOwner(x))
  \cup Reads({"ipsec_site_connection", "vpnservice"}, {"get"}, AdminOrOwner(x))

\* Every registered rule, with its answer for x.
Rules(x) == NamedChecks(x) \cup AddressesAndAgents(x) \cup FlavorsAndFloatingIps(x) \cup
            LocalIpsAndLogs(x) \cup MeteringRules(x) \cup Networks(x) \cup SegmentRanges(x)
            \cup PortsCreated(x) \cup PortsUpdated(x) \cup QosRules(x) \cup
            AliasRulesAndQuotas(x) \cup Routers(x) \cup SecurityGroups(x) \cup Subnets(x) \cup
            TrunksAndVpnPolicies(x) \cup VpnConnections(x)
================================================================================
