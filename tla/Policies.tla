------------------------------- MODULE Policies -------------------------------
(***************************************************************************)
(* What the console is told that a user may do: GET /policies answers for  *)
(* every rule of every service, on a target made up from the user's own    *)
(* project; POST /policies/check answers for the rules asked for, on a     *)
(* target that the client may describe. The rules are those of the modules *)
(* <Service>Policy, without a policy file (module PolicyFile has those).   *)
(*                                                                         *)
(* Keystone, which is external, holds the user's roles; they are read      *)
(* anew for each request. The console keeps the last answer.               *)
(***************************************************************************)
EXTENDS PolicyChecks

CONSTANTS
    Users,         \* the users: the roles in their project, and the system's
    AdminRoles,    \* system_admin_roles of the configuration
    EnforceNew,    \* enforce_new_defaults of the configuration, as a string
    Asked,         \* the services whose rules are asked for in one check
    Objects        \* the targets that clients describe

ASSUME UsersAssumption == Users \subseteq [roles : SUBSET STRING, system : BOOLEAN]

VARIABLES
    user,   \* the user, as Keystone has it now
    answer  \* the last request and what it was answered

requestVars == <<user, answer>>

Barbican == INSTANCE BarbicanPolicy
Cinder == INSTANCE CinderPolicy
Designate == INSTANCE DesignatePolicy
Glance == INSTANCE GlancePolicy
Heat == INSTANCE HeatPolicy
Ironic == INSTANCE IronicPolicy
Inspector == INSTANCE InspectorPolicy
Keystone == INSTANCE KeystonePolicy
Magnum == INSTANCE MagnumPolicy
Manila == INSTANCE ManilaPolicy
Masakari == INSTANCE MasakariPolicy
Neutron == INSTANCE NeutronPolicy
Nova == INSTANCE NovaPolicy
Octavia == INSTANCE OctaviaPolicy
Placement == INSTANCE PlacementPolicy
Trove == INSTANCE TrovePolicy
Zun == INSTANCE ZunPolicy

(* SUPPORTED_SERVICE_EPS, the services that are listed. *)
SupportedServices ==
    {"barbican", "cinder", "designate", "glance", "heat", "ironic",
     "ironic_inspector", "keystone", "magnum", "manila", "masakari", "neutron",
     "nova", "octavia", "panko", "placement", "trove", "zun"}

(* The services that have a table, and so an entry in ENFORCER. *)
Enforced == SupportedServices \ {"panko"}

ServiceRules(service, x) ==
    CASE service = "barbican" -> Barbican!Rules(x)
      [] service = "cinder" -> Cinder!Rules(x)
      [] service = "designate" -> Designate!Rules(x)
      [] service = "glance" -> Glance!Rules(x)
      [] service = "heat" -> Heat!Rules(x)
      [] service = "ironic" -> Ironic!Rules(x)
      [] service = "ironic_inspector" -> Inspector!Rules(x)
      [] service = "keystone" -> Keystone!Rules(x)
      [] service = "magnum" -> Magnum!Rules(x)
      [] service = "manila" -> Manila!Rules(x)
      [] service = "masakari" -> Masakari!Rules(x)
      [] service = "neutron" -> Neutron!Rules(x)
      [] service = "nova" -> Nova!Rules(x)
      [] service = "octavia" -> Octavia!Rules(x)
      [] service = "placement" -> Placement!Rules(x)
      [] service = "trove" -> Trove!Rules(x)
      [] service = "zun" -> Zun!Rules(x)
-----------------------------------------------------------------------------
(***************************************************************************)
(* The user is "U" of the domain "D", in the project "P" of that domain.   *)
(* The token is the project's: it has no domain of its own, and str() of   *)
(* what is not there is "None".                                            *)
(***************************************************************************)
UserContext(u) ==
    [user_id |-> "U", project_id |-> "P", tenant_id |-> "P", domain_id |-> "None",
     user_domain_id |-> "D", project_domain_id |-> "D", project_name |-> "p",
     system_scope |-> IF u.system THEN "all" ELSE "",
     is_admin |-> IF AdminRoles \cap u.roles # {} THEN "True" ELSE "False"]

UserKeys ==
    {"user_id", "trust.trustor_user_id", "target.user.id",
     "target.trust.trustor_user_id", "target.trust.trustee_user_id",
     "target.token.user_id", "target.credential.user_id", "target.secret.creator_id"}

ProjectKeys ==
    {"project_id", "target.project.id", "target.container.project_id",
     "target.secret.project_id", "target.order.project_id", "allocation.owner",
     "node.lessee", "node.owner", "member_id", "owner", "tenant", "tenant_id"}

(* target.limit.project_id is among the domain's keys in the code too. *)
DomainKeys ==
    {"target.user.domain_id", "target.project.domain_id", "target.domain.id",
     "target.domain_id", "target.role.domain_id", "target.group.domain_id",
     "target.limit.domain.id", "target.limit.project_id",
     "target.limit.project.domain_id", "domain_id"}

(* target.update(object): what the object says goes first. *)
Updated(target, object) ==
    [k \in DOMAIN target \cup DOMAIN object |->
        IF k \in DOMAIN object THEN object[k] ELSE target[k]]

Owned(users, projects, domains) ==
    [k \in UserKeys \cup ProjectKeys \cup DomainKeys |->
        IF k \in UserKeys THEN users ELSE IF k \in ProjectKeys THEN projects ELSE domains]

(* Mutated: the domain is that of the token. *)
TokenDomainTarget ==
    Updated(Owned("U", "P", "None"), [enforce_new_defaults |-> EnforceNew])

(* Mutated: Neutron's old name of the project is forgotten. *)
NoTenantTarget ==
    LET full == Updated(Owned("U", "P", "D"), [enforce_new_defaults |-> EnforceNew])
    IN  [k \in DOMAIN full \ {"tenant_id"} |-> full[k]]

GeneratedTarget ==
    Updated(Owned("U", "P", "D"), [enforce_new_defaults |-> EnforceNew])

TargetOf(object) == Updated(GeneratedTarget, object)

(* What authorize answers for each rule of a service. *)
Authorize(service, u, target) ==
    LET x == [roles |-> u.roles, creds |-> UserContext(u), target |-> target]
    IN  {[service |-> service, resource |-> r.resource, action |-> r.action,
          access |-> r.access, allowed |-> r.allowed] : r \in ServiceRules(service, x)}

AuthorizeAll(services, u, target) ==
    UNION {Authorize(service, u, target) : service \in services}
-----------------------------------------------------------------------------
Nothing == [request |-> "none"]

RequestInit ==
    /\ user \in Users
    /\ answer = Nothing

(* The system's scope, when Keystone has it for this user and says so. *)
Seen ==
    {[user EXCEPT !.system = system] :
        system \in IF user.system THEN BOOLEAN ELSE {FALSE}}

(* A request leaves nothing behind in the server, so a behaviour has one: *)
(* the bound on the number of requests is 1.                              *)
NotAsked == answer = Nothing

(* list_policies: a service without an enforcer is left out with a warning. *)
ListPolicies ==
    /\ NotAsked
    /\ \E seen \in Seen :
          answer' = [request |-> "list", user |-> seen, services |-> SupportedServices,
                     object |-> <<>>, outcome |-> "ok",
                     rules |-> AuthorizeAll(Enforced, seen, GeneratedTarget)]
    /\ UNCHANGED user

(* check_policies: one rule of a service without an enforcer spoils them all. *)
CheckPolicies(services, object) ==
    /\ NotAsked
    /\ \E seen \in Seen :
          answer' = IF services \subseteq Enforced
                    THEN [request |-> "check", user |-> seen, services |-> services,
                          object |-> object, outcome |-> "ok",
                          rules |-> AuthorizeAll(services, seen, TargetOf(object))]
                    ELSE [request |-> "check", user |-> seen, services |-> services,
                          object |-> object, outcome |-> "forbidden", rules |-> {}]
    /\ UNCHANGED user

(* Keystone, external: the user is assigned a role, or the system's scope. *)
Grant ==
    /\ \E u \in Users \ {user} :
          /\ user.roles \subseteq u.roles
          /\ user.system => u.system
          /\ user' = u
    /\ UNCHANGED answer

RequestNext ==
    \/ ListPolicies
    \/ \E services \in Asked, object \in Objects : CheckPolicies(services, object)
    \/ Grant

RequestSpec == RequestInit /\ [][RequestNext]_requestVars
-----------------------------------------------------------------------------
Allowed(rules) == {r \in rules : r.allowed}

Shown(services, u) == Allowed(AuthorizeAll(services \cap Enforced, u, GeneratedTarget))

OtherProjectKeys ==
    {"target.limit.project_id", "network:tenant_id", "ext_parent:tenant_id",
     "security_group:tenant_id", "recordset_project_id"}

SharedKeys ==
    {"target.container.read_project_access", "target.secret.read_project_access"}

(* The whole description of an object: the user's own, shared with the project *)
(* or private, or a stranger's.                                                *)
Described(users, projects, domains) ==
    Updated(Owned(users, projects, domains),
        [k \in OtherProjectKeys \cup SharedKeys
               \cup {"target.container.creator_id", "zone_type"} |->
            CASE k \in OtherProjectKeys -> projects
              [] k \in SharedKeys -> "True"
              [] k = "target.container.creator_id" -> users
              [] k = "zone_type" -> "PRIMARY"])

OwnShared == Updated(Described("U", "P", "D"), [visibility |-> "shared"])

OwnPrivate ==
    Updated(Described("U", "P", "D"),
        [k \in SharedKeys \cup {"visibility"} |->
            IF k \in SharedKeys THEN "False" ELSE "private"])

OwnObjects == {OwnShared, OwnPrivate}

OthersObject == Updated(Described("V", "Q", "E"), [visibility |-> "private"])

(* What the listing cannot tell: the target lacks an attribute of theirs, or, *)
(* for the limits of Keystone, has the domain where the project should be.    *)
Hidden ==
    [barbican |-> {"container", "consumer", "container_acls", "container_consumers",
                   "container_secret", "container_owner", "container_creator_user",
                   "container_project_creator", "container_is_not_private",
                   "container_private_read", "secret_is_not_private",
                   "secret_private_read"},
     designate |-> {"recordset"},
     keystone |-> {"limit"},
     neutron |-> {"port", "floatingip_port_forwarding", "local_ip_port_association",
                  "router_conntrack_helper", "subnet", "security_group_rule",
                  "network_owner", "admin_or_network_owner", "ext_parent_owner",
                  "admin_or_ext_parent_owner", "sg_owner", "admin_or_sg_owner"}]

IsHidden(r) == r.service \in DOMAIN Hidden /\ r.resource \in Hidden[r.service]

(* Rules that ask for a role and for nothing of the target. *)
RoleOnly(r) ==
    \/ /\ r.service = "barbican"
       /\ r.resource \in {"containers", "orders", "quotas", "secrets", "secretstore",
                          "secretstores", "transport_key", "transport_keys"}
    \/ /\ r.service = "ironic"
       /\ r.action = "list" \/ r.resource = "allocation"
    \/ /\ r.service = "neutron"
       /\ r.resource = "service_provider"

(* The named checks of Barbican that ask that a secret or a container not be *)
(* private; of the target that is made up nothing says that it is.           *)
AsksShared(r) ==
    /\ r.service = "barbican"
    /\ r.resource \in {"secret_non_private_read", "secret_decrypt_non_private_read",
                       "container_non_private_read"}

(* The one rule that asks that a role be absent. *)
ForbidsRole(r) == r.service = "heat" /\ r.resource = "deny_stack_user"

Resources(rules) == {<<r.service, r.resource>> : r \in rules}

Answered(request) ==
    /\ answer.request = request
    /\ answer.outcome = "ok"

(* The same request, asked with the roles of now. *)
AskedAgain ==
    AuthorizeAll(answer.services \cap Enforced,
                 [roles |-> user.roles, system |-> user.system],
                 TargetOf(answer.object))

(* What GET /policies shows as allowed is allowed on what is the user's own,  *)
(* described in full: the target that _generate_target makes up never grants  *)
(* what the real one would refuse, but for the three checks of AsksShared,    *)
(* which are shown as allowed and refused on what is the user's and private.  *)
ShownIsGranted ==
    Answered("check") /\ answer.object \in OwnObjects =>
        {r \in Shown(answer.services, answer.user) :
            ~(AsksShared(r) /\ answer.object = OwnPrivate)}
            \subseteq Allowed(answer.rules)

(* And the other way about: what is allowed on the user's own object is shown *)
(* by GET /policies, except for the resources and named checks of Hidden: the *)
(* console does not offer their operations although the service would carry   *)
(* them out.                                                                  *)
GrantedIsShown ==
    Answered("check") /\ answer.object \in OwnObjects =>
        {r \in Allowed(answer.rules) : ~IsHidden(r)}
            \subseteq Shown(answer.services, answer.user)

(* On an object of another user, project and domain, one who is a reader or a *)
(* member of a project may do no more than one without any role, except by    *)
(* the rules of RoleOnly: no table forgets to compare the project.            *)
OthersAreClosed ==
    Answered("check") /\ answer.object = OthersObject
    /\ answer.user.roles \subseteq {"reader", "member"} /\ ~answer.user.system =>
        LET nobody == [roles |-> {}, system |-> FALSE]
        IN  {r \in Allowed(answer.rules) : ~RoleOnly(r)}
                \subseteq AuthorizeAll(answer.services, nobody, TargetOf(OthersObject))

(* A reader who is shown that they may change a resource is also shown that   *)
(* they may read it, where there is a rule for reading it.                    *)
WriterMayRead ==
    Answered("list") /\ "reader" \in answer.user.roles =>
        LET changeable == Resources({r \in Allowed(answer.rules) : r.access = "write"})
            readable == Resources({r \in Allowed(answer.rules) : r.access = "read"})
            withReads == Resources({r \in answer.rules : r.access = "read"})
        IN  changeable \cap withReads \subseteq readable

(* More roles, or the scope of the system, take away nothing that a user was  *)
(* allowed, by any of the tables' rules but Heat's deny_stack_user: of all    *)
(* their "not"s that is the only one that a role may turn.                    *)
RolesOnlyAdd ==
    answer # Nothing /\ answer.outcome = "ok" /\ answer.user # user =>
        {r \in Allowed(answer.rules) : ~ForbidsRole(r)} \subseteq AskedAgain
=============================================================================
