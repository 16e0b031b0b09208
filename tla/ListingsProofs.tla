---------------------------- MODULE ListingsProofs ----------------------------
(***************************************************************************)
(* Proofs about Listings, for any cloud, any user and any query: nobody    *)
(* else is shown another project's items, what is shown is what was asked  *)
(* for, and however the ids of an answer are cut into slices no name that  *)
(* the user may see is left out.                                           *)
(***************************************************************************)
EXTENDS Listings, FiniteSetTheorems, TLAPS

(* Every answer but to an administrator's query for all projects shows the home
   project's items only. *)
LEMMA OwnStep == Next => OwnProjectOnly'
<1> SUFFICES ASSUME Next PROVE OwnProjectOnly'
  OBVIOUS
<1> USE DEF OwnProjectOnly, Asked, Permitted, Reply, Matches
<1>1. CASE Forbid
  BY <1>1 DEF Forbid, NoAnswer
<1>2. CASE ListServers
  BY <1>2 DEF ListServers, NoAnswer, NovaServers, OwnProject
<1>3. CASE ListRecycleServers
  BY <1>3 DEF ListRecycleServers, RecycleProject, NovaServers
<1>4. CASE ListVolumes
  BY <1>4 DEF ListVolumes, VolumeSession, VolumeProject, AskedProject, CinderItems,
              OwnProject, InAdminSession
<1>5. CASE ListVolumeSnapshots
  BY <1>5 DEF ListVolumeSnapshots, NotMine, SnapshotSession, AskedProject, CinderItems,
              OwnProject, InAdminSession
<1>6. CASE ListPorts
  <2> DEFINE found == NeutronPorts(PortProject, PortNetworks, query.uuid)
  <2>1. ASSUME role = "plain" \/ ~query.all, NEW x \in found
        PROVE  cloud.owner[x] = Home
    BY <2>1, <1>6 DEF ListPorts, NeutronPorts, PortProject
  <2>2. UNCHANGED <<role, query, cloud>>
    BY <1>6 DEF ListPorts
  <2>3. CASE NoSuchNetwork
    BY <2>3, <1>6 DEF ListPorts
  <2>4. CASE ~NoSuchNetwork
    <3>1. answer'.items = found
      BY <2>4, <1>6 DEF ListPorts
    <3> HIDE DEF found
    <3> QED
      BY <2>1, <2>2, <3>1
  <2> QED
    BY <2>3, <2>4
<1> QED
  BY <1>1, <1>2, <1>3, <1>4, <1>5, <1>6 DEF Next

(* OwnProjectOnly holds of every listing: the sessions that the code chooses and
   the filters it adds keep a user to the project of the session. *)
THEOREM ShowsOwnProject == Spec => []OwnProjectOnly
<1>1. Init => OwnProjectOnly
  BY DEF Init, OwnProjectOnly, NoAnswer
<1>2. OwnProjectOnly /\ [Next]_vars => OwnProjectOnly'
  BY OwnStep DEF vars, OwnProjectOnly
<1> QED
  BY <1>1, <1>2, PTL DEF Spec

-----------------------------------------------------------------------------
(* Slices of ids. *)
LEMMA Slice ==
  ASSUME NEW x \in Nat
  PROVE  /\ x \div STEP \in Nat
         /\ (x \div STEP) * STEP <= x
         /\ x < (x \div STEP + 1) * STEP
<1>1. STEP \in Nat \ {0}
  BY ListingsAssumption
<1>2. x \div STEP \in Int /\ x \div STEP >= 0
  BY <1>1
<1>3. (x \div STEP) * STEP <= x
  BY <1>1
<1>4. x < (x \div STEP) * STEP + STEP
  BY <1>1
<1>5. (x \div STEP + 1) * STEP = (x \div STEP) * STEP + STEP
  BY <1>1
<1> QED
  BY <1>2, <1>3, <1>4, <1>5

LEMMA LaterSlice ==
  ASSUME NEW x \in Nat, NEW y \in Nat, x <= y
  PROVE  x \div STEP <= y \div STEP
BY ListingsAssumption

(* A finite set is the range of its sequence. *)
LEMMA SequenceCovers ==
  ASSUME NEW S, IsFiniteSet(S)
  PROVE  /\ Cardinality(S) \in Nat
         /\ SetToSeq(S) \in [1 .. Cardinality(S) -> S]
         /\ \A x \in S : \E j \in 1 .. Cardinality(S) : SetToSeq(S)[j] = x
<1> DEFINE n == Cardinality(S)
           D == 1 .. n
           ids == SetToSeq(S)
<1>1. n \in Nat
  BY FS_CardinalityType
<1>2. \E f \in [D -> S] : IsInjective(f)
  <2>1. ExistsBijection(D, S)
    BY FS_CardinalityType
  <2> QED
    BY <2>1 DEF ExistsBijection, Bijection, Injection, IsInjective
<1>3. ids \in [D -> S] /\ IsInjective(ids)
  <2>1. ids = CHOOSE f \in [D -> S] : IsInjective(f)
    BY DEF SetToSeq
  <2> HIDE DEF ids, D
  <2> QED
    BY <1>2, <2>1
<1>4. ids \in Injection(D, S)
  BY <1>3 DEF Injection, IsInjective
<1>5. Cardinality(D) = n
  BY <1>1, FS_Interval
<1>6. ids \in Surjection(D, S)
  BY <1>4, <1>5, FS_Injection
<1> QED
  BY <1>1, <1>3, <1>6 DEF Surjection

(* Cut into slices, no id is lost and none is added. *)
LEMMA BatchesCover ==
  ASSUME NEW S, IsFiniteSet(S)
  PROVE  UNION Batches(S) = S
<1> DEFINE n == Cardinality(S)
           ids == SetToSeq(S)
           slice(i) == {ids[j] : j \in {j \in DOMAIN ids : i * STEP < j /\ j <= (i + 1) * STEP}}
<1>1. /\ n \in Nat /\ ids \in [1 .. n -> S]
      /\ \A x \in S : \E j \in 1 .. n : ids[j] = x
  BY SequenceCovers
<1>2. Len(ids) = n
  BY <1>1
<1> HIDE DEF ids, n
<1>3. Batches(S) = {slice(i) : i \in 0 .. n \div STEP} \ {{}}
  BY <1>2 DEF Batches, ids
<1>4. UNION Batches(S) \subseteq S
  BY <1>1, <1>3
<1>5. ASSUME NEW x \in S
      PROVE  x \in UNION Batches(S)
  <2>1. PICK j \in 1 .. n : ids[j] = x
    BY <1>1
  <2> DEFINE i == (j - 1) \div STEP
  <2>2. j - 1 \in Nat /\ j - 1 <= n
    BY <1>1
  <2>3. i \in Nat /\ i * STEP <= j - 1 /\ j - 1 < (i + 1) * STEP
    BY <2>2, Slice
  <2>4. i <= n \div STEP /\ n \div STEP \in Nat
    BY <1>1, <2>2, Slice, LaterSlice
  <2> HIDE DEF i
  <2>5. i * STEP \in Int /\ (i + 1) * STEP \in Int
    BY <2>3, ListingsAssumption
  <2>6. i * STEP < j /\ j <= (i + 1) * STEP
    BY <2>3, <2>5
  <2>7. j \in DOMAIN ids
    BY <1>1
  <2>8. x \in slice(i)
    BY <2>1, <2>6, <2>7
  <2>9. i \in 0 .. n \div STEP
    BY <2>3, <2>4
  <2> HIDE DEF slice
  <2> QED
    BY <1>3, <2>8, <2>9
<1> QED
  BY <1>4, <1>5

-----------------------------------------------------------------------------
(* The query and the cloud stay what they were at first. *)
Valid ==
    /\ role \in Roles
    /\ query \in Queries /\ WellFormed(query)
    /\ cloud \in Clouds /\ Sound(cloud)

LEMMA NothingElseMoves ==
  ASSUME [Next]_vars
  PROVE  UNCHANGED <<role, query, cloud>>
BY DEF vars, Next, Forbid, ListServers, ListRecycleServers, ListVolumes, ListVolumeSnapshots,
       ListPorts, Reply

LEMMA Fields ==
  ASSUME Valid
  PROVE  /\ query.kind \in Kinds /\ query.all \in BOOLEAN
         /\ query.project \subseteq Projects /\ query.project_name \subseteq Names
         /\ query.uuid \subseteq Items
         /\ query.network \subseteq Networks /\ query.network_name \subseteq Names
BY DEF Valid, Queries

(* A filter of one value. *)
LEMMA OneOf ==
  ASSUME NEW S, IsFiniteSet(S), Cardinality(S) <= 1, NEW a \in S
  PROVE  S = {a}
<1>1. {a} \subseteq S /\ Cardinality({a}) = 1
  BY FS_Singleton
<1>2. Cardinality({a}) <= Cardinality(S) /\ Cardinality(S) \in Nat
  BY <1>1, FS_Subset, FS_CardinalityType
<1>3. Cardinality(S) = Cardinality({a})
  BY <1>1, <1>2
<1> QED
  BY <1>1, <1>3, FS_Subset

LEMMA OneEach ==
  ASSUME Valid
  PROVE  /\ \A a \in query.project : query.project = {a}
         /\ \A a \in query.project_name : query.project_name = {a}
         /\ \A a \in query.network : query.network = {a}
         /\ query.kind = "volume_snapshots" => \A a \in query.uuid : query.uuid = {a}
<1>1. /\ IsFiniteSet(query.project) /\ IsFiniteSet(query.project_name)
      /\ IsFiniteSet(query.network) /\ IsFiniteSet(query.uuid)
  BY Fields, FS_Subset, ListingsAssumption
<1>2. /\ Cardinality(query.project) <= 1 /\ Cardinality(query.project_name) <= 1
      /\ Cardinality(query.network) <= 1
      /\ query.kind = "volume_snapshots" => Cardinality(query.uuid) <= 1
  BY DEF Valid, WellFormed
<1> QED
  BY <1>1, <1>2, OneOf

-----------------------------------------------------------------------------
(* The filter by a project's id and name is put into one project's. *)
Named(p) ==
    \/ query.project_name = {}
    \/ p \in cloud.living /\ cloud.title[p] \in query.project_name

LEMMA ProjectFilter ==
  ASSUME Valid, query.all
  PROVE  /\ NoSuchProject => \A p \in Projects : ~(Matches(p, query.project) /\ Named(p))
         /\ ~NoSuchProject =>
              \A p \in Projects :
                  Matches(p, FilterProject) <=> Matches(p, query.project) /\ Named(p)
<1>0. AskedProject = query.project /\ AskedName = query.project_name
  BY DEF AskedProject, AskedName
<1>1. CASE query.project_name = {}
  <2>1. FilterProject = query.project
    BY <1>0, <1>1 DEF FilterProject
  <2>2. ~NoSuchProject
    BY <1>0, <1>1 DEF NoSuchProject
  <2>3. \A p : Matches(p, FilterProject) <=> Matches(p, query.project)
    BY <2>1
  <2> QED
    BY <1>1, <2>2, <2>3 DEF Named
<1>2. CASE query.project_name # {}
  <2>1. \A p, q \in OfThatName : p = q
    <3>1. \A p, q \in cloud.living : cloud.title[p] = cloud.title[q] => p = q
      BY DEF Valid, Sound
    <3> QED
      BY <1>0, <1>2, <3>1, OneEach DEF OfThatName
  <2>2. CASE OfThatName = {}
    BY <1>0, <1>2, <2>2 DEF NoSuchProject, OfThatName, Named
  <2>3. CASE OfThatName # {}
    <3>1. PICK q \in OfThatName : FilterProject = {q}
      BY <1>0, <1>2, <2>3 DEF FilterProject
    <3>2. \A p \in Projects : p = q <=> p \in cloud.living /\ cloud.title[p] \in query.project_name
      BY <1>0, <2>1, <3>1 DEF OfThatName
    <3>3. NoSuchProject <=> query.project # {} /\ query.project # {q}
      BY <1>0, <1>2, <2>3, <3>1 DEF NoSuchProject
    <3>4. \A p \in Projects : Matches(p, {q}) <=> p = q
      BY DEF Matches
    <3>5. \A p \in Projects : Matches(p, query.project)
                                <=> query.project = {} \/ query.project = {p}
      BY OneEach DEF Matches
    <3>6. \A p \in Projects : Named(p) <=> p = q
      BY <1>2, <3>2 DEF Named
    <3> QED
      BY <3>1, <3>3, <3>4, <3>5, <3>6
  <2> QED
    BY <2>2, <2>3
<1> QED
  BY <1>1, <1>2

(* Without all projects there is no filter. *)
LEMMA NoFilter ==
  ASSUME ~query.all
  PROVE  AskedProject = {} /\ FilterProject = {} /\ ~NoSuchProject
BY DEF AskedProject, AskedName, FilterProject, NoSuchProject

-----------------------------------------------------------------------------
(* A listing that shows what is described. *)
Right(items) == \A x : x \in items <=> x \in ItemsOf(query.kind) /\ Described(x)

LEMMA RightReply ==
  ASSUME NEW items, NEW named, Reply(items, named), ~Divergent => Right(items)
  PROVE  AsAsked'
<1>1. UNCHANGED <<role, query, cloud>> /\ answer'.items = items
  BY DEF Reply
<1>2. Divergent' = Divergent
  BY <1>1 DEF Divergent
<1>3. \A x : Described(x)' = Described(x)
  BY <1>1 DEF Described, Matches
<1>4. ItemsOf(query.kind)' = ItemsOf(query.kind)
  BY <1>1
<1> QED
  BY <1>1, <1>2, <1>3, <1>4, Zenon DEF AsAsked, Right

LEMMA NoReply ==
  ASSUME answer' = [NoAnswer EXCEPT !.status = "failed"]
         \/ answer' = [NoAnswer EXCEPT !.status = "forbidden"]
  PROVE  AsAsked' /\ NamesResolved'
BY DEF AsAsked, NamesResolved, NoAnswer

LEMMA ServersRight ==
  ASSUME Valid, Permitted, query.kind = "servers"
  PROVE  /\ NoSuchProject => Right({})
         /\ ~NoSuchProject
              => Right(NovaServers("user", query.all, FilterProject, query.uuid, FALSE))
<1>1. ItemsOf(query.kind) = Servers
  BY DEF ItemsOf
<1>2. \A x \in Servers : x \notin Ports /\ cloud.owner[x] \in Projects
  BY ListingsAssumption DEF Valid, Clouds, Items
<1>3. CASE query.all
  <2>1. \A x \in Servers :
          Described(x) <=> /\ Matches(cloud.owner[x], query.project)
                           /\ Named(cloud.owner[x])
                           /\ Matches(x, query.uuid) /\ x \notin cloud.soft
    BY <1>2, <1>3 DEF Described, Named
  <2>2. NoSuchProject => \A x \in Servers : ~Described(x)
    BY <1>2, <1>3, <2>1, ProjectFilter
  <2>3. ~NoSuchProject => \A x \in Servers :
          Described(x) <=> /\ Matches(cloud.owner[x], FilterProject)
                           /\ Matches(x, query.uuid) /\ x \notin cloud.soft
    BY <1>2, <1>3, <2>1, ProjectFilter
  <2> QED
    BY <1>1, <1>3, <2>2, <2>3 DEF Right, NovaServers
<1>4. CASE ~query.all
  <2>1. \A x \in Servers :
          Described(x) <=> /\ cloud.owner[x] = Home
                           /\ Matches(x, query.uuid) /\ x \notin cloud.soft
    BY <1>2, <1>4 DEF Described
  <2> QED
    BY <1>1, <1>4, <2>1, NoFilter DEF Right, NovaServers, OwnProject
<1> QED
  BY <1>3, <1>4

LEMMA RecycledRight ==
  ASSUME Valid, Permitted, query.kind = "recycle_servers"
  PROVE  /\ NoSuchProject => Right({})
         /\ ~NoSuchProject
              => Right(NovaServers("system", TRUE, RecycleProject, query.uuid, TRUE))
<1>1. ItemsOf(query.kind) = Servers
  BY DEF ItemsOf
<1>2. \A x \in Servers : x \notin Ports /\ cloud.owner[x] \in Projects
  BY ListingsAssumption DEF Valid, Clouds, Items
<1>3. CASE query.all
  <2>1. \A x \in Servers :
          Described(x) <=> /\ Matches(cloud.owner[x], query.project)
                           /\ Named(cloud.owner[x])
                           /\ Matches(x, query.uuid) /\ x \in cloud.soft
    BY <1>2, <1>3 DEF Described, Named
  <2>2. NoSuchProject => \A x \in Servers : ~Described(x)
    BY <1>2, <1>3, <2>1, ProjectFilter
  <2>3. ~NoSuchProject => \A x \in Servers :
          Described(x) <=> /\ Matches(cloud.owner[x], FilterProject)
                           /\ Matches(x, query.uuid) /\ x \in cloud.soft
    BY <1>2, <1>3, <2>1, ProjectFilter
  <2>4. RecycleProject = FilterProject
    BY <1>3 DEF RecycleProject
  <2> QED
    BY <1>1, <1>3, <2>2, <2>3, <2>4 DEF Right, NovaServers, InAdminSession
<1>4. CASE ~query.all
  <2>1. \A x \in Servers :
          Described(x) <=> /\ cloud.owner[x] = Home
                           /\ Matches(x, query.uuid) /\ x \in cloud.soft
    BY <1>2, <1>4 DEF Described
  <2> QED
    BY <1>1, <1>4, <2>1, NoFilter DEF Right, NovaServers, InAdminSession, RecycleProject, Matches
<1> QED
  BY <1>3, <1>4

LEMMA VolumesRight ==
  ASSUME Valid, Permitted, query.kind = "volumes"
  PROVE  Right(CinderItems(Volumes, VolumeSession, query.all \/ query.uuid # {},
                           VolumeProject, query.uuid))
<1>1. ItemsOf(query.kind) = Volumes
  BY DEF ItemsOf
<1>2. \A x \in Volumes : x \notin Ports /\ x \notin Servers
  BY ListingsAssumption
<1>3. \A x \in Volumes :
        Described(x) <=> /\ IF query.all THEN Matches(cloud.owner[x], query.project)
                                         ELSE cloud.owner[x] = Home
                         /\ Matches(x, query.uuid)
  BY <1>2 DEF Described
<1>4. role \in Roles /\ (query.all => role # "plain")
  BY DEF Valid, Permitted
<1>5. query.all \/ query.uuid # {} => InAdminSession(VolumeSession)
  BY <1>4 DEF InAdminSession, VolumeSession, Roles
<1>6. ~(query.all \/ query.uuid # {}) => VolumeSession = "user"
  BY DEF VolumeSession
<1>7. \A x : query.all \/ query.uuid # {} =>
         (Matches(cloud.owner[x], VolumeProject)
            <=> IF query.all THEN Matches(cloud.owner[x], query.project)
                             ELSE cloud.owner[x] = Home)
  BY DEF VolumeProject, AskedProject, Matches
<1> QED
  BY <1>1, <1>3, <1>5, <1>6, <1>7 DEF Right, CinderItems, OwnProject

LEMMA SnapshotsRight ==
  ASSUME Valid, Permitted, query.kind = "volume_snapshots", ~Divergent
  PROVE  /\ NotMine => Right({})
         /\ ~NotMine
              => Right(CinderItems(Snapshots, SnapshotSession, query.all \/ query.uuid # {},
                                   AskedProject, query.uuid))
<1>1. ItemsOf(query.kind) = Snapshots
  BY DEF ItemsOf
<1>2. \A x \in Snapshots : x \notin Ports /\ x \notin Servers
  BY ListingsAssumption
<1>3. \A x \in Snapshots :
        Described(x) <=> /\ IF query.all THEN Matches(cloud.owner[x], query.project)
                                         ELSE cloud.owner[x] = Home
                         /\ Matches(x, query.uuid)
  BY <1>2 DEF Described
<1>4. role \in Roles /\ (query.all => role # "plain")
  BY DEF Valid, Permitted
<1>5. CASE NotMine
  <2>1. PICK a \in query.uuid : cloud.owner[a] # Home
    BY <1>5 DEF NotMine
  <2>2. query.uuid = {a} /\ ~query.all
    BY <1>5, <2>1, OneEach DEF NotMine
  <2> QED
    BY <1>1, <1>3, <1>5, <2>1, <2>2 DEF Right, Matches
<1>6. CASE ~NotMine
  <2>1. query.all \/ query.uuid # {} => InAdminSession(SnapshotSession)
    BY <1>4 DEF InAdminSession, SnapshotSession, Roles, Divergent
  <2>2. ~(query.all \/ query.uuid # {}) => SnapshotSession = "user"
    BY DEF SnapshotSession
  <2>3. ~query.all => \A x \in query.uuid : cloud.owner[x] = Home
    BY <1>6 DEF NotMine
  <2>4. \A x \in Snapshots :
          x \in CinderItems(Snapshots, SnapshotSession, query.all \/ query.uuid # {},
                            AskedProject, query.uuid)
            <=> Described(x)
    BY <1>3, <2>1, <2>2, <2>3 DEF CinderItems, OwnProject, AskedProject, Matches
  <2> QED
    BY <1>1, <1>6, <2>4 DEF Right, CinderItems
<1> QED
  BY <1>5, <1>6

LEMMA PortsRight ==
  ASSUME Valid, Permitted, query.kind = "ports", ~Divergent
  PROVE  /\ NoSuchNetwork => Right({})
         /\ ~NoSuchNetwork => Right(NeutronPorts(PortProject, PortNetworks, query.uuid))
<1>1. ItemsOf(query.kind) = Ports
  BY DEF ItemsOf
<1>2. \A x \in Ports : x \notin Servers
  BY ListingsAssumption
<1>3. \A x \in Ports :
        Described(x) <=> /\ IF query.all THEN Matches(cloud.owner[x], query.project)
                                         ELSE cloud.owner[x] = Home
                         /\ Matches(x, query.uuid)
                         /\ Matches(cloud.network[x], query.network)
                         /\ Matches(cloud.net_name[cloud.network[x]], query.network_name)
  BY <1>2 DEF Described
<1>4. query.network = {} \/ query.network_name = {}
  BY DEF Divergent
<1>5. \A x \in Ports : /\ cloud.network[x] \in Networks
                       /\ \/ cloud.owner[x] = cloud.owner[cloud.network[x]]
                          \/ cloud.network[x] \in cloud.shared
  BY DEF Valid, Sound, Clouds
<1>6. \A x \in Ports : role # "plain" \/ cloud.owner[x] = Home
                         => cloud.network[x] \in VisibleNetworks
  BY <1>5 DEF VisibleNetworks
<1>7. query.all => role # "plain"
  BY DEF Permitted
<1>8. \A x \in Ports :
        (role # "plain" \/ cloud.owner[x] = Home) /\ Matches(cloud.owner[x], PortProject)
          <=> IF query.all THEN Matches(cloud.owner[x], query.project)
                           ELSE cloud.owner[x] = Home
  BY <1>7 DEF PortProject, AskedProject, Matches
<1>9. \A x \in Ports : role # "plain" \/ cloud.owner[x] = Home =>
        (cloud.network[x] \in OfNetworkName
           <=> cloud.net_name[cloud.network[x]] \in query.network_name)
  BY <1>6 DEF OfNetworkName
<1>10. CASE NoSuchNetwork
  <2>1. query.network_name # {} /\ OfNetworkName = {}
    BY <1>4, <1>10 DEF NoSuchNetwork
  <2>2. ASSUME NEW x \in Ports, Described(x) PROVE FALSE
    BY <1>3, <1>8, <1>9, <2>1, <2>2 DEF Matches
  <2> QED
    BY <1>1, <1>10, <2>2 DEF Right
<1>11. CASE ~NoSuchNetwork
  <2>1. \A x \in Ports : role # "plain" \/ cloud.owner[x] = Home =>
          (Matches(cloud.network[x], PortNetworks)
             <=> /\ Matches(cloud.network[x], query.network)
                 /\ Matches(cloud.net_name[cloud.network[x]], query.network_name))
    BY <1>4, <1>9, <1>11 DEF NoSuchNetwork, PortNetworks, Matches
  <2>2. \A x \in Ports :
          x \in NeutronPorts(PortProject, PortNetworks, query.uuid) <=> Described(x)
    BY <1>3, <1>8, <2>1 DEF NeutronPorts
  <2> QED
    BY <1>1, <1>11, <2>2 DEF Right, NeutronPorts
<1> QED
  BY <1>10, <1>11

(* Valid is not the work of the listings, which leave the query and the cloud
   alone; that the answer is right follows from it step by step. *)
LEMMA Invariance ==
  Spec => []Valid
<1>1. Init => Valid
  BY DEF Init, Valid
<1>2. Valid /\ [Next]_vars => Valid'
  BY NothingElseMoves DEF Valid, Sound, WellFormed
<1> QED
  BY <1>1, <1>2, PTL DEF Spec

(* A listing that is answered shows what its parameters describe, all of it and
   nothing else: the session, the filters that are set on one branch and dropped
   on another, and those the services ignore come to the same, but for the two
   kinds of query that README.md names. *)
THEOREM ShowsWhatIsAsked == Spec => []AsAsked
<1>1. Init => AsAsked
  BY DEF Init, AsAsked, NoAnswer
<1>2. Valid /\ AsAsked /\ [Next]_vars => AsAsked'
  <2> SUFFICES ASSUME Valid, Next PROVE AsAsked'
    BY DEF vars, AsAsked, Divergent, Described, Matches
  <2>1. CASE Forbid
    BY <2>1, NoReply DEF Forbid
  <2>2. CASE ListServers
    BY <2>2, ServersRight, RightReply, NoReply DEF ListServers, Asked
  <2>3. CASE ListRecycleServers
    BY <2>3, RecycledRight, RightReply DEF ListRecycleServers, Asked
  <2>4. CASE ListVolumes
    BY <2>4, VolumesRight, RightReply DEF ListVolumes, Asked
  <2>5. CASE ListVolumeSnapshots
    BY <2>5, SnapshotsRight, RightReply DEF ListVolumeSnapshots, Asked
  <2>6. CASE ListPorts
    BY <2>6, PortsRight, RightReply DEF ListPorts, Asked
  <2> QED
    BY <2>1, <2>2, <2>3, <2>4, <2>5, <2>6 DEF Next
<1> QED
  BY <1>1, <1>2, Invariance, PTL DEF Spec

-----------------------------------------------------------------------------
(* The names beside the items. *)

(* A server of an item that is shown is found, unless it is deleted. *)
LEMMA ServerFound ==
  ASSUME Valid, NEW x \in Volumes \cup Ports, query.all \/ cloud.owner[x] = Home,
         NEW s \in cloud.on[x] \ cloud.soft
  PROVE  s \in NovaServers("user", query.all, {}, {s}, FALSE)
<1>1. s \in Servers /\ cloud.owner[s] = cloud.owner[x]
  BY DEF Valid, Sound, Clouds
<1> QED
  BY <1>1 DEF NovaServers, OwnProject, Matches

LEMMA VolumesNamed ==
  ASSUME Valid, ListVolumes
  PROVE  NamesResolved'
<1> DEFINE found == CinderItems(Volumes, VolumeSession, query.all \/ query.uuid # {},
                                VolumeProject, query.uuid)
           named == ServersFound(UNION {cloud.on[v] : v \in found})
<1>1. Reply(found, named) /\ query.kind = "volumes" /\ Permitted
  BY DEF ListVolumes, Asked
<1>2. \A v \in found : v \in Volumes /\ (query.all \/ cloud.owner[v] = Home)
  BY <1>1, VolumesRight DEF Right, CinderItems, Described
<1>3. ASSUME NEW v \in found PROVE cloud.on[v] \ cloud.soft \subseteq named
  <2> HIDE DEF found
  <2> SUFFICES ASSUME NEW s \in cloud.on[v] \ cloud.soft PROVE s \in named
    OBVIOUS
  <2>1. s \in NovaServers("user", query.all, {}, {s}, FALSE)
    BY <1>2, ServerFound
  <2> DEFINE wanted == UNION {cloud.on[w] : w \in found}
  <2>2. s \in wanted
    OBVIOUS
  <2> HIDE DEF wanted
  <2>3. s \in ServersFound(wanted)
    <3> DEFINE either(t) == NovaServers("user", query.all, {}, {t}, FALSE)
                              \cup NovaServers("user", query.all, {}, {t}, TRUE)
    <3>1. s \in either(s) /\ ServersFound(wanted) = UNION {either(t) : t \in wanted}
      BY <2>1 DEF ServersFound
    <3> HIDE DEF either
    <3> QED
      BY <2>2, <3>1
  <2> QED
    BY <2>3 DEF wanted
<1> HIDE DEF found, named
<1>4. answer'.items = found /\ answer'.named = named /\ UNCHANGED <<query, cloud>>
  BY <1>1 DEF Reply
<1> QED
  BY <1>1, <1>3, <1>4 DEF NamesResolved

LEMMA PortsNamed ==
  ASSUME Valid, ListPorts
  PROVE  NamesResolved'
<1> DEFINE found == NeutronPorts(PortProject, PortNetworks, query.uuid)
           servers(o) == UNION {NovaServers("user", query.all, {}, {s}, FALSE) : s \in cloud.on[o]}
           wanted == {cloud.network[o] : o \in found}
           networks == NetworksFound(wanted)
           named == (UNION {servers(o) : o \in found}) \cup networks
<1>1. query.kind = "ports" /\ Permitted
  BY DEF ListPorts, Asked
<1>2. CASE Reply({}, {})
  <2>1. answer'.items = {}
    BY <1>2 DEF Reply
  <2> QED
    BY <1>1, <1>2, <2>1 DEF NamesResolved, Reply
<1>3. CASE Reply(found, named)
  <2>1. \A o \in found : /\ o \in Ports /\ (query.all \/ cloud.owner[o] = Home)
                         /\ cloud.network[o] \in Networks
    BY DEF NeutronPorts, PortProject, Matches, Valid, Clouds
  <2>2. ASSUME NEW o \in found PROVE cloud.on[o] \ cloud.soft \subseteq named
    <3> HIDE DEF found, networks
    <3> SUFFICES ASSUME NEW s \in cloud.on[o] \ cloud.soft PROVE s \in named
      OBVIOUS
    <3>1. s \in NovaServers("user", query.all, {}, {s}, FALSE)
      BY <2>1, ServerFound
    <3>2. s \in servers(o)
      BY <3>1
    <3> HIDE DEF servers
    <3> QED
      BY <3>2
  <2>3. UNION Batches(wanted) = wanted
    <3> HIDE DEF found
    <3>1. wanted \subseteq Networks
      BY <2>1
    <3>2. IsFiniteSet(wanted)
      BY <3>1, FS_Subset, ListingsAssumption
    <3> QED
      BY <3>2, BatchesCover
  <2>4. ASSUME NEW o \in found,
               \/ query.all \/ cloud.network[o] \in cloud.shared
               \/ cloud.owner[cloud.network[o]] = Home
        PROVE  cloud.network[o] \in named
    <3> DEFINE n == cloud.network[o]
    <3>1. n \in Networks /\ n \in wanted
      BY <2>1
    <3>2. n \in VisibleNetworks
      BY <1>1, <2>4, <3>1 DEF VisibleNetworks, Permitted
    <3> HIDE DEF wanted, n
    <3>3. PICK ids \in Batches(wanted) : n \in ids
      BY <2>3, <3>1
    <3>4. n \in networks
      BY <2>4, <3>2, <3>3 DEF NetworksFound, n
    <3> QED
      BY <3>4 DEF n
  <2> HIDE DEF found, named
  <2>5. answer'.items = found /\ answer'.named = named /\ UNCHANGED <<query, cloud>>
    BY <1>3 DEF Reply
  <2> QED
    BY <1>1, <2>2, <2>4, <2>5 DEF NamesResolved
<1> QED
  BY <1>2, <1>3 DEF ListPorts

LEMMA SnapshotsNamed ==
  ASSUME Valid, ListVolumeSnapshots
  PROVE  NamesResolved'
<1> DEFINE found == CinderItems(Snapshots, SnapshotSession, query.all \/ query.uuid # {},
                                AskedProject, query.uuid)
           sources == {cloud.source[x] : x \in found}
           named == VolumesAround(found)
<1>1. query.kind = "volume_snapshots"
  BY DEF ListVolumeSnapshots, Asked
<1>2. CASE Reply({}, {})
  <2>1. answer'.items = {}
    BY <1>2 DEF Reply
  <2> QED
    BY <1>1, <1>2, <2>1 DEF NamesResolved, Reply
<1>3. CASE Reply(found, named)
  <2>1. found \subseteq Snapshots
    BY DEF CinderItems
  <2> HIDE DEF found
  <2>2. sources \subseteq Volumes
    BY <2>1 DEF Valid, Clouds
  <2>3. IsFiniteSet(found) /\ IsFiniteSet(sources)
    <3>1. found \subseteq Items /\ sources \subseteq Items
      BY <2>1, <2>2 DEF Items
    <3> QED
      BY <3>1, FS_Subset, ListingsAssumption
  <2>4. UNION Batches(sources) = sources /\ UNION Batches(found) = found
    BY <2>3, BatchesCover
  <2>5. \A v \in Volumes : v \in CinderItems(Volumes, "system", TRUE, {}, {})
    BY DEF CinderItems, InAdminSession, Matches
  <2>6. ASSUME NEW x \in found PROVE cloud.source[x] \in named
    <3> DEFINE v == cloud.source[x]
    <3>1. v \in sources /\ v \in Volumes
      BY <2>2
    <3>2. PICK ids \in Batches(sources) : v \in ids
      BY <2>4, <3>1, Zenon
    <3>3. v \in CinderItems(Volumes, "system", TRUE, {}, ids)
      BY <3>1, <3>2 DEF CinderItems, InAdminSession, Matches
    <3> QED
      BY <3>2, <3>3, Zenon DEF VolumesAround
  <2>7. ASSUME NEW x \in found, NEW v \in Volumes, x \in cloud.from[v] PROVE v \in named
    <3>1. PICK ids \in Batches(found) : x \in ids
      BY <2>4, Zenon
    <3>2. v \in {w \in CinderItems(Volumes, "system", TRUE, {}, {}) : cloud.from[w] \cap ids # {}}
      BY <2>5, <2>7, <3>1
    <3> QED
      BY <3>1, <3>2, Zenon DEF VolumesAround
  <2> HIDE DEF named
  <2>8. answer'.items = found /\ answer'.named = named /\ UNCHANGED <<query, cloud>>
    BY <1>3 DEF Reply
  <2> QED
    BY <1>1, <2>6, <2>7, <2>8 DEF NamesResolved
<1> QED
  BY <1>2, <1>3 DEF ListVolumeSnapshots

(* Every id of the items shown is asked for in some slice, however long the list:
   what an item refers to and the user may see has its name in the answer. *)
THEOREM NamesAreFound == Spec => []NamesResolved
<1>1. Init => NamesResolved
  BY DEF Init, NamesResolved, NoAnswer
<1>2. Valid /\ NamesResolved /\ [Next]_vars => NamesResolved'
  <2> SUFFICES ASSUME Valid, Next PROVE NamesResolved'
    BY DEF vars, NamesResolved
  <2>1. CASE Forbid
    BY <2>1, NoReply DEF Forbid
  <2>2. CASE ListServers
    <3>1. query'.kind = "servers"
      BY <2>2 DEF ListServers, Asked, Reply
    <3> QED
      BY <3>1 DEF NamesResolved
  <2>3. CASE ListRecycleServers
    <3>1. query'.kind = "recycle_servers"
      BY <2>3 DEF ListRecycleServers, Asked, Reply
    <3> QED
      BY <3>1 DEF NamesResolved
  <2>4. CASE ListVolumes
    BY <2>4, VolumesNamed
  <2>5. CASE ListVolumeSnapshots
    BY <2>5, SnapshotsNamed
  <2>6. CASE ListPorts
    BY <2>6, PortsNamed
  <2> QED
    BY <2>1, <2>2, <2>3, <2>4, <2>5, <2>6 DEF Next
<1> QED
  BY <1>1, <1>2, Invariance, PTL DEF Spec
=============================================================================
