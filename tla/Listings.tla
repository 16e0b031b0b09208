-------------------------------- MODULE Listings --------------------------------
(***************************************************************************)
(* The listings of api/v1/extension.py: what a query for servers, recycled *)
(* servers, volumes, snapshots or ports is answered with, put together     *)
(* from several calls to Nova, Cinder, Neutron and Keystone, some in the   *)
(* session of the user and some in that of the system.                     *)
(*                                                                         *)
(* Paging and sorting are left to the services, as the code does; so are   *)
(* the filters it only passes on (name, status, host, ...).                *)
(***************************************************************************)
EXTENDS Integers, FiniteSets, SequencesExt

CONSTANTS
    Projects,  \* the projects there are or were
    Home,      \* that of the user's session
    Servers, Volumes, Snapshots, Ports, Networks,
    Names,     \* names of projects and of networks
    STEP       \* how many ids are asked for at once (100 in the code)

Items == Servers \cup Volumes \cup Snapshots \cup Ports

ASSUME ListingsAssumption ==
    /\ Home \in Projects
    /\ STEP \in Nat \ {0}
    /\ IsFiniteSet(Projects) /\ IsFiniteSet(Names)
    /\ IsFiniteSet(Items) /\ IsFiniteSet(Networks)
    \* An id is that of one thing.
    /\ Servers \cap (Volumes \cup Snapshots \cup Ports) = {}
    /\ Ports \cap (Volumes \cup Snapshots) = {}

Kinds == {"servers", "recycle_servers", "volumes", "volume_snapshots", "ports"}

Roles == {"plain", "reader", "admin"}

(* A filter that is not given is {}. *)
Queries ==
    [kind : Kinds, all : BOOLEAN,
     project : SUBSET Projects, project_name : SUBSET Names, uuid : SUBSET Items,
     network : SUBSET Networks, network_name : SUBSET Names]

(* One value for each filter but the ids of volumes and of ports. *)
WellFormed(q) ==
    /\ \A filter \in {q.project, q.project_name, q.network, q.network_name} :
          Cardinality(filter) <= 1
    /\ q.kind \notin {"volumes", "ports"} => Cardinality(q.uuid) <= 1

VARIABLES
    role,      \* of the user who asks
    query,     \* what is asked for
    cloud,     \* what the services hold
    answer     \* what is answered

vars == <<role, query, cloud, answer>>

(* owner: the project of an item or a network.  soft: deleted and still to be
   reclaimed.  on: the servers a volume is attached to, or a port belongs to.
   source: the volume a snapshot was taken of.  from: the snapshots a volume
   was made from.  living: the projects Keystone has; title: their names. *)
Clouds ==
    [owner : [Items \cup Networks -> Projects],
     soft : SUBSET Servers,
     on : [Volumes \cup Ports -> SUBSET Servers],
     source : [Snapshots -> Volumes], from : [Volumes -> SUBSET Snapshots],
     network : [Ports -> Networks], net_name : [Networks -> Names],
     shared : SUBSET Networks,
     living : SUBSET Projects, title : [Projects -> Names]]

(* What the services see to: a name is taken once among a domain's projects,
   the home project lives, volumes and ports are on servers of their project,
   snapshots belong to the project of their volume. *)
Sound(c) ==
    /\ Home \in c.living
    /\ \A p, q \in c.living : c.title[p] = c.title[q] => p = q
    /\ \A x \in Volumes \cup Ports : \A s \in c.on[x] : c.owner[s] = c.owner[x]
    /\ \A x \in Snapshots : c.owner[x] = c.owner[c.source[x]]
    /\ \A v \in Volumes : \A x \in c.from[v] : c.owner[x] = c.owner[v]
    /\ \A o \in Ports : \/ c.owner[o] = c.owner[c.network[o]]
                        \/ c.network[o] \in c.shared

(* named: the things (servers of a volume or port, volumes of a snapshot,
   networks) for which the answer has a name. *)
Answers ==
    [status : {"none", "ok", "forbidden", "failed"}, items : SUBSET Items,
     named : SUBSET (Items \cup Networks)]

NoAnswer == [status |-> "none", items |-> {}, named |-> {}]

-----------------------------------------------------------------------------
(* The services, in the session of the user or of the system.              *)

InAdminSession(session) == session = "system" \/ role = "admin"

Matches(x, asked) == asked = {} \/ x \in asked

(* The user's session is one of the home project; the system's has none. *)
OwnProject(session, x) == session = "user" /\ cloud.owner[x] = Home

(* Nova: for users who are no administrators it ignores "deleted", without
   which no soft-deleted server is found. *)
NovaServers(session, all, projects, uuid, deleted) ==
    {s \in Servers :
        /\ IF all THEN Matches(cloud.owner[s], projects) ELSE OwnProject(session, s)
        /\ Matches(s, uuid)
        /\ IF deleted THEN InAdminSession(session) /\ s \in cloud.soft
                      ELSE s \notin cloud.soft}

(* Cinder: for users who are no administrators it ignores "all_tenants". *)
CinderItems(S, session, all, projects, ids) ==
    {x \in S :
        /\ IF all /\ InAdminSession(session) THEN Matches(cloud.owner[x], projects)
                                             ELSE OwnProject(session, x)
        /\ Matches(x, ids)}

VisibleNetworks ==
    {n \in Networks : role # "plain" \/ cloud.owner[n] = Home \/ n \in cloud.shared}

NeutronPorts(projects, networks, ids) ==
    {o \in Ports :
        /\ role # "plain" \/ cloud.owner[o] = Home
        /\ Matches(cloud.owner[o], projects)
        /\ Matches(cloud.network[o], networks)
        /\ Matches(o, ids)}

-----------------------------------------------------------------------------
(* What the listings share.                                                *)

Permitted == query.all => role # "plain"

(* Without all_projects these filters are dropped. *)
AskedProject == IF query.all THEN query.project ELSE {}

AskedName == IF query.all THEN query.project_name ELSE {}

(* Keystone's projects of the name; the code goes on with the first. *)
OfThatName == {p \in cloud.living : cloud.title[p] \in AskedName}

FilterProject ==
    IF AskedName = {} THEN AskedProject ELSE {CHOOSE p \in OfThatName : TRUE}

NoSuchProject ==
    /\ AskedName # {}
    /\ OfThatName = {} \/ (AskedProject # {} /\ AskedProject # FilterProject)

(* Mutated: the last id of each slice is left out. *)
BatchesShort(S) ==
    LET ids == SetToSeq(S)
    IN  {{ids[j] : j \in {j \in DOMAIN ids : i * STEP < j /\ j < (i + 1) * STEP}} :
            i \in 0 .. Len(ids) \div STEP} \ {{}}

(* A list of ids, cut into slices of STEP. *)
Batches(S) ==
    LET ids == SetToSeq(S)
    IN  {{ids[j] : j \in {j \in DOMAIN ids : i * STEP < j /\ j <= (i + 1) * STEP}} :
            i \in 0 .. Len(ids) \div STEP} \ {{}}

Reply(items, named) ==
    /\ answer' = [status |-> "ok", items |-> items, named |-> named]
    /\ UNCHANGED <<role, query, cloud>>

Asked(kind) == answer = NoAnswer /\ query.kind = kind /\ Permitted

Forbid ==
    /\ answer = NoAnswer /\ ~Permitted
    /\ answer' = [NoAnswer EXCEPT !.status = "forbidden"]
    /\ UNCHANGED <<role, query, cloud>>

-----------------------------------------------------------------------------
(* The listings.                                                           *)

(* list_servers, in the user's session.  For all projects the name of each
   server's project is looked up: one that Keystone no longer has is a
   KeyError, answered with a 500. *)
ListServers ==
    /\ Asked("servers")
    /\ LET found == IF NoSuchProject THEN {}
                    ELSE NovaServers("user", query.all, FilterProject, query.uuid, FALSE)
       IN  IF query.all /\ \E s \in found : cloud.owner[s] \notin cloud.living
           THEN /\ answer' = [NoAnswer EXCEPT !.status = "failed"]
                /\ UNCHANGED <<role, query, cloud>>
           ELSE Reply(found, {})

(* list_recycle_servers asks in the system's session and for all tenants, so
   it is its own project filter that keeps a user to the home project. *)
RecycleProject == IF query.all THEN FilterProject ELSE {Home}

ListRecycleServers ==
    /\ Asked("recycle_servers")
    /\ IF NoSuchProject THEN Reply({}, {})
       ELSE Reply(NovaServers("system", TRUE, RecycleProject, query.uuid, TRUE), {})

(* Mutated: a reader's listing of all projects in the reader's own session,
   and a listing by ids that keeps the project filter it was called with. *)
VolumeSessionOwn == IF query.uuid # {} THEN "system" ELSE "user"

VolumeProjectAsAsked == AskedProject

(* list_volumes: by ids, or for a reader of all projects, in the system's. *)
VolumeSession ==
    IF query.uuid # {} \/ (query.all /\ role = "reader") THEN "system" ELSE "user"

VolumeProject == IF query.uuid # {} /\ ~query.all THEN {Home} ELSE AskedProject

(* Each server is asked for twice, the second time among the deleted. *)
ServersFound(wanted) ==
    UNION {NovaServers("user", query.all, {}, {s}, FALSE)
             \cup NovaServers("user", query.all, {}, {s}, TRUE) : s \in wanted}

ListVolumes ==
    /\ Asked("volumes")
    /\ LET found == CinderItems(Volumes, VolumeSession, query.all \/ query.uuid # {},
                                VolumeProject, query.uuid)
       IN  Reply(found, ServersFound(UNION {cloud.on[v] : v \in found}))

(* list_volume_snapshots: an id is looked at in the user's session first. *)
NotMine ==
    /\ query.uuid # {} /\ ~query.all
    /\ \E x \in query.uuid : cloud.owner[x] # Home

SnapshotSession == IF query.uuid # {} THEN "system" ELSE "user"

(* The volumes of the snapshots and those made from them, slice by slice. *)
VolumesAround(found) ==
    LET all == CinderItems(Volumes, "system", TRUE, {}, {})
        sources(ids) == CinderItems(Volumes, "system", TRUE, {}, ids)
        children(ids) == {v \in all : cloud.from[v] \cap ids # {}}
    IN  UNION ({sources(ids) : ids \in Batches({cloud.source[x] : x \in found})}
                 \cup {children(ids) : ids \in Batches(found)})

ListVolumeSnapshots ==
    /\ Asked("volume_snapshots")
    /\ IF NotMine THEN Reply({}, {})
       ELSE LET found == CinderItems(Snapshots, SnapshotSession,
                                     query.all \/ query.uuid # {}, AskedProject, query.uuid)
            IN  Reply(found, VolumesAround(found))

(* list_ports, in the user's session.  A network's id adds nothing to a name
   that fits it. *)
OfNetworkName == {n \in VisibleNetworks : cloud.net_name[n] \in query.network_name}

NoSuchNetwork ==
    /\ query.network_name # {}
    /\ OfNetworkName = {} \/ ~(query.network \subseteq OfNetworkName)

PortNetworks == IF query.network_name # {} THEN OfNetworkName ELSE query.network

PortProject == IF query.all THEN AskedProject ELSE {Home}

(* The shared networks, and by id those of the home project or of all. *)
NetworksFound(wanted) ==
    LET byId(ids) == {n \in VisibleNetworks \cap ids : query.all \/ cloud.owner[n] = Home}
    IN  (VisibleNetworks \cap cloud.shared) \cup (UNION {byId(ids) : ids \in Batches(wanted)})

ListPorts ==
    /\ Asked("ports")
    /\ IF NoSuchNetwork THEN Reply({}, {})
       ELSE LET found == NeutronPorts(PortProject, PortNetworks, query.uuid)
                servers(o) == UNION {NovaServers("user", query.all, {}, {s}, FALSE) :
                                        s \in cloud.on[o]}
            IN  Reply(found, (UNION {servers(o) : o \in found})
                               \cup NetworksFound({cloud.network[o] : o \in found}))

-----------------------------------------------------------------------------
Init ==
    /\ role \in Roles
    /\ query \in Queries /\ WellFormed(query)
    /\ cloud \in Clouds /\ Sound(cloud)
    /\ answer = NoAnswer

Next ==
    \/ Forbid
    \/ ListServers \/ ListRecycleServers \/ ListVolumes \/ ListVolumeSnapshots \/ ListPorts

Spec == Init /\ [][Next]_vars

-----------------------------------------------------------------------------
(* Properties. *)

(* A user without a system role is shown what belongs to the project of the
   session and nothing else, and nobody is who has not asked for all projects;
   also where the listing is made in the system's session. *)
OwnProjectOnly ==
    role = "plain" \/ ~query.all => \A x \in answer.items : cloud.owner[x] = Home

(* The descriptions of the query parameters: the reference for AsAsked. *)
Described(x) ==
    /\ IF query.all THEN Matches(cloud.owner[x], query.project)
                    ELSE cloud.owner[x] = Home
    /\ query.all /\ query.kind \in {"servers", "recycle_servers"}
         => \/ query.project_name = {}
            \/ /\ cloud.owner[x] \in cloud.living
               /\ cloud.title[cloud.owner[x]] \in query.project_name
    /\ Matches(x, query.uuid)
    /\ x \in Servers => (query.kind = "recycle_servers" <=> x \in cloud.soft)
    /\ x \in Ports => /\ Matches(cloud.network[x], query.network)
                      /\ Matches(cloud.net_name[cloud.network[x]], query.network_name)

ItemsOf(kind) ==
    CASE kind \in {"servers", "recycle_servers"} -> Servers
      [] kind = "volumes" -> Volumes
      [] kind = "volume_snapshots" -> Snapshots
      [] kind = "ports" -> Ports

(* The queries known to be answered otherwise than described (README.md):
   all snapshots for a reader, and a network's id beside a name it shares. *)
Divergent ==
    \/ query.kind = "volume_snapshots" /\ query.all /\ role = "reader" /\ query.uuid = {}
    \/ query.kind = "ports" /\ query.network # {} /\ query.network_name # {}

(* A listing that is answered shows what its parameters describe, all of it
   and nothing else, whichever session it was made in. *)
AsAsked ==
    answer.status = "ok" /\ ~Divergent =>
        answer.items = {x \in ItemsOf(query.kind) : Described(x)}

(* Everything an item refers to and the user may see is named in the answer,
   however many ids it takes and however they are cut into slices: servers that
   are not deleted, the volume and the children of a snapshot, networks that are
   shared or, unless all projects are asked for, the project's own. *)
NamesResolved ==
    answer.status = "ok" =>
        /\ query.kind \in {"volumes", "ports"} =>
              \A x \in answer.items : cloud.on[x] \ cloud.soft \subseteq answer.named
        /\ query.kind = "volume_snapshots" =>
              \A x \in answer.items :
                  {cloud.source[x]} \cup {v \in Volumes : x \in cloud.from[v]}
                      \subseteq answer.named
        /\ query.kind = "ports" =>
              \A x \in answer.items :
                  LET n == cloud.network[x]
                  IN  query.all \/ n \in cloud.shared \/ cloud.owner[n] = Home
                          => n \in answer.named
=============================================================================
