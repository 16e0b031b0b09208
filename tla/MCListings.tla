------------------------------ MODULE MCListings ------------------------------
(***************************************************************************)
(* Listings for TLC: each kind of query over all clouds that differ in     *)
(* what that kind looks at; the rest stays as in Plain.                    *)
(***************************************************************************)
EXTENDS Listings, TLC

CONSTANTS home, other, s1, s2, v1, v2, v3, x1, x2, x3, o1, o2, n1, n2, web, lab

Unset == [p \in Projects |-> IF p = home THEN web ELSE lab]

Plain ==
    [owner |-> [x \in Items \cup Networks |-> IF x \in {s2, o2} THEN other ELSE home],
     soft |-> {}, on |-> [x \in Volumes \cup Ports |-> {}],
     source |-> [x \in Snapshots |-> v1], from |-> [v \in Volumes |-> {}],
     network |-> [o \in Ports |-> n1], net_name |-> [n \in Networks |-> web],
     shared |-> {n1}, living |-> Projects, title |-> Unset]

(* Every choice of owners for the items of S. *)
Owned(S) == {f @@ Plain.owner : f \in [S -> Projects]}

ServerClouds ==
    {[Plain EXCEPT !.owner = f, !.soft = soft, !.living = {home} \cup living, !.title = t] :
        f \in Owned(Servers), soft \in SUBSET Servers,
        living \in SUBSET {other}, t \in [Projects -> Names]}

VolumeClouds ==
    {[Plain EXCEPT !.owner = f, !.soft = soft, !.on = on @@ Plain.on] :
        f \in Owned(Servers \cup {v1, v2}), soft \in SUBSET Servers,
        on \in [{v1, v2} -> SUBSET Servers]}

SnapshotClouds ==
    {[Plain EXCEPT !.owner = f, !.source = source, !.from = (v3 :> from) @@ Plain.from] :
        f \in Owned(Volumes \cup Snapshots), source \in [Snapshots -> Volumes],
        from \in {{}} \cup {{x} : x \in Snapshots}}

PortClouds ==
    {[Plain EXCEPT !.owner = f, !.on = on @@ Plain.on, !.network = network,
                   !.net_name = (n2 :> name) @@ Plain.net_name, !.shared = shared] :
        f \in Owned(Ports \cup Networks), on \in [Ports -> {{}, {s1}}],
        network \in [Ports -> Networks], name \in Names, shared \in SUBSET Networks}

CloudsFor(kind) ==
    CASE kind \in {"servers", "recycle_servers"} -> ServerClouds
      [] kind = "volumes" -> VolumeClouds
      [] kind = "volume_snapshots" -> SnapshotClouds
      [] kind = "ports" -> PortClouds

OrNone(S) == {{}} \cup {{x} : x \in S}

IdsFor(kind) ==
    CASE kind = "volumes" -> SUBSET Volumes
      [] kind = "ports" -> {{}, {o1}, Ports}
      [] OTHER -> OrNone(ItemsOf(kind))

QueriesFor(kind) ==
    [kind : {kind}, all : BOOLEAN, project : OrNone(Projects),
     project_name : IF kind \in {"servers", "recycle_servers"} THEN OrNone(Names) ELSE {{}},
     uuid : IdsFor(kind),
     network : IF kind = "ports" THEN OrNone(Networks) ELSE {{}},
     network_name : IF kind = "ports" THEN OrNone(Names) ELSE {{}}]

MCInit ==
    /\ role \in Roles
    /\ \E kind \in Kinds :
          /\ query \in QueriesFor(kind) /\ WellFormed(query)
          /\ cloud \in CloudsFor(kind) /\ Sound(cloud)
    /\ answer = NoAnswer

MCSpec == MCInit /\ [][Next]_vars
=============================================================================
