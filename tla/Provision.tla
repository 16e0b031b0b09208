------------------------------ MODULE Provision ------------------------------
(***************************************************************************)
(* How an instance is made and unmade (api/v1/instance.py): the create     *)
(* request and its background task (_provision_instance and                *)
(* setup_instance_networking), the delete request and its background task  *)
(* (_delete_volumes_after_instance), the volume and port forwarding        *)
(* requests of a user meanwhile, and Nova, Cinder, Neutron and the proxy   *)
(* VM as far as those requests see them.                                   *)
(*                                                                         *)
(* The tasks run in the event loops of several gunicorn workers, so every  *)
(* call to another service is a step.  A polling loop has no counter here: *)
(* it ends when it sees what it waits for, and can time out only if the    *)
(* fault "slow" is possible or what it waits for can no longer come.       *)
(***************************************************************************)
EXTENDS Integers, Sequences, FiniteSets

CONSTANTS
    Creates,      \* the create requests; each makes at most one server
    Deletes,      \* the delete requests
    Target,       \* the server each of them is for
    Name,         \* the instance name each create request asks for
    Volumed,      \* the create requests that boot from a volume of their own
    DataVolumes,  \* volumes that exist apart from them
    Ports,        \* the ports of an instance
    Forwards,     \* the ports each asks to forward: ssh, then the additional ones
    Attempts,     \* how often a POST to the proxy is tried (3 in the code)
    Scenarios     \* what can go wrong, and which of the requests come

Fault == {"refuse",    \* a service answers with an error
          "lost",      \* a request or its answer gets lost
          "slow",      \* what is polled for takes longer than the loop
          "database",  \* the activity record cannot be written
          "crash"}     \* a worker dies with its background tasks

ASSUME ProvisionAssumption ==
    /\ Target \in [Deletes -> Creates]
    /\ DOMAIN Name = Creates
    /\ Volumed \subseteq Creates
    /\ DataVolumes \cap Creates = {}
    /\ Forwards \in [Creates -> Seq(Ports) \ {<<>>}] /\ "nat" \notin Ports
    /\ Attempts \in Nat \ {0}
    /\ \A s \in Scenarios :
          s.faults \subseteq Fault /\ s.creates \subseteq Creates /\ s.deletes \subseteq Deletes

VARIABLES
    task,      \* each create request and the background task it starts
    server,    \* the servers, named by their requests
    deleting,  \* those Nova has accepted a delete of
    volume,    \* the volumes; a root volume is named by its request
    rules,     \* the forwarding rules of the proxy and ("nat") of Neutron
    rows,      \* the servers that have a lifecycle row
    removal,   \* each delete request and the background task it starts
    faults,    \* what can go wrong, the same all through a behaviour
    \* What happened, kept for the properties; no action reads them.
    late,      \* the rules added after a delete of their server listed them
    record     \* per delete request: volumes listed, attached at Nova's delete, wiped;
               \* whether the task that makes the server was still at it

cloud == <<server, deleting, volume>>
ghosts == <<late, record>>
vars == <<task, server, deleting, volume, rules, rows, removal, faults, late, record>>

Volumes == Creates \cup DataVolumes

-----------------------------------------------------------------------------
(* The steps of a create request.                                          *)

Step == {"received", "refused", "accepted", "volume", "boot", "await",
         "address", "forwarding", "register", "ended"}

Task == [at: Step, next: Nat, tries: Nat]

ServerStatus == {"none", "build", "active", "error", "gone"}

Exists(c) == server[c] \notin {"none", "gone"}

Volume == [status: {"none", "creating", "available", "in-use", "error", "gone"},
           on: SUBSET Creates]

AttachedTo(c) == {v \in Volumes : volume[v].status = "in-use" /\ c \in volume[v].on}

At(c, step) == task[c].at = step

Goto(c, step) == task' = [task EXCEPT ![c].at = step]

(* create_instance: a 409 if the project has a server of that name. *)
NameTaken(c) == \E other \in Creates : Exists(other) /\ Name[other] = Name[c]

CheckName(c) ==
    /\ At(c, "received")
    /\ \/ ~NameTaken(c) /\ Goto(c, "accepted")
       \/ NameTaken(c) /\ Goto(c, "refused")
       \/ faults \cap {"refuse", "database"} # {} /\ Goto(c, "refused")
    /\ UNCHANGED <<cloud, rules, removal, ghosts, rows>>

CreateVolume(c) ==
    /\ At(c, "accepted") /\ c \in Volumed
    /\ \/ Goto(c, "volume")
       \/ "lost" \in faults /\ Goto(c, "ended")
    /\ volume' = [volume EXCEPT ![c] = [status |-> "creating", on |-> {}]]
    /\ UNCHANGED <<server, deleting, rules, removal, ghosts, rows>>

(* The loop that waits for the volume; an error while reading it is not
   caught there and ends the task, as its time-out does. *)
VolumePolled(c) ==
    /\ At(c, "volume")
    /\ \/ volume[c].status = "available" /\ Goto(c, "boot")
       \/ volume[c].status \in {"error", "gone"} /\ Goto(c, "ended")
       \/ faults \cap {"refuse", "slow"} # {} /\ Goto(c, "ended")
    /\ UNCHANGED <<cloud, rules, removal, ghosts, rows>>

(* create_instance_from_volume or create_instance_with_network. *)
MayBoot(c) ==
    IF c \in Volumed THEN At(c, "boot") /\ volume[c].status = "available"
                     ELSE At(c, "accepted")

CreateServer(c) ==
    /\ MayBoot(c)
    /\ server' = [server EXCEPT ![c] = "build"]
    /\ volume' = IF c \in Volumed
                 THEN [volume EXCEPT ![c] = [status |-> "in-use", on |-> {c}]]
                 ELSE volume
    /\ \/ Goto(c, "await")
       \/ "lost" \in faults /\ Goto(c, "ended")
    /\ UNCHANGED <<deleting, rules, removal, ghosts, rows>>

(* Cinder or Nova refuses: _provision_instance logs it and ends; nothing it
   has made so far is undone. *)
CreateFails(c) ==
    /\ At(c, "accepted") \/ At(c, "boot")
    /\ \/ "refuse" \in faults
       \/ At(c, "boot") /\ volume[c].status # "available"
    /\ Goto(c, "ended")
    /\ UNCHANGED <<cloud, rules, removal, ghosts, rows>>

(* Mutated: a loop without a last attempt. *)
AwaitForever(c) == FALSE

(* setup_instance_networking: wait for ACTIVE, of which a failing call is no
   proof to the contrary; then for an address. *)
AwaitTimesOut(c) == server[c] = "gone" \/ faults \cap {"refuse", "slow"} # {}

Awaited(c) ==
    /\ At(c, "await")
    /\ \/ server[c] = "active" /\ Goto(c, "address")
       \/ server[c] = "error" /\ Goto(c, "register")
       \/ AwaitTimesOut(c) /\ Goto(c, "register")
    /\ UNCHANGED <<cloud, rules, removal, ghosts, rows>>

AddressFound(c) ==
    /\ At(c, "address")
    /\ \/ /\ Exists(c)
          /\ task' = [task EXCEPT ![c] = [at |-> "forwarding", next |-> 1, tries |-> 0]]
       \/ /\ ~Exists(c) \/ faults \cap {"refuse", "slow"} # {}
          /\ Goto(c, "register")
    /\ UNCHANGED <<cloud, rules, removal, ghosts, rows>>


(* Mutated: the attempts numbered from one. *)
RuleFromOne(c, port, copy) == [server |-> c, port |-> port, copy |-> copy + 1]

(* One POST per port.  A connection error or a time-out is tried again, up to
   Attempts times and with or without a rule made; any other failure is only
   logged.  Either way the loop goes on with the next port. *)
Rule(c, port, copy) == [server |-> c, port |-> port, copy |-> copy]

RulesOf(c) == {r \in rules : r.server = c}

AddRule(r) ==
    /\ rules' = rules \cup {r}
    /\ late' = IF \E d \in Deletes : Target[d] = r.server /\ removal[d].at # "idle"
               THEN late \cup {r} ELSE late

NextPort(c) == task' = [task EXCEPT ![c].next = @ + 1, ![c].tries = 0]

Posting(c) == At(c, "forwarding") /\ task[c].next <= Len(Forwards[c])

PostedRule(c) == Rule(c, Forwards[c][task[c].next], task[c].tries)

PostDone(c) ==
    /\ Posting(c)
    /\ AddRule(PostedRule(c))
    /\ NextPort(c)
    /\ UNCHANGED <<cloud, removal, record, rows>>

PostRefused(c) ==
    /\ Posting(c) /\ "refuse" \in faults
    /\ NextPort(c)
    /\ UNCHANGED <<cloud, rules, removal, ghosts, rows>>

PostTimesOut(c) ==
    /\ Posting(c) /\ "lost" \in faults
    /\ IF task[c].tries + 1 < Attempts
       THEN task' = [task EXCEPT ![c].tries = @ + 1]
       ELSE NextPort(c)
    /\ \/ AddRule(PostedRule(c))
       \/ UNCHANGED <<rules, late>>
    /\ UNCHANGED <<cloud, removal, record, rows>>

(* Mutated: the loop over the additional ports stops one short. *)
AllPostedEarly(c) == task[c].next >= Len(Forwards[c])

AllPosted(c) == task[c].next > Len(Forwards[c])

ForwardingEnds(c) ==
    /\ At(c, "forwarding") /\ AllPosted(c)
    /\ Goto(c, "register")
    /\ UNCHANGED <<cloud, rules, removal, ghosts, rows>>

(* Whatever became of the network, the row of the server's lifetime is
   inserted; a failure is logged and ignored. *)
Register(c) ==
    /\ At(c, "register")
    /\ \/ rows' = rows \cup {c}
       \/ "database" \in faults /\ UNCHANGED rows
    /\ Goto(c, "ended")
    /\ UNCHANGED <<cloud, rules, removal, ghosts>>


-----------------------------------------------------------------------------
(* The steps of a delete request.                                          *)

Stage == {"idle", "clearing", "listing", "deleting", "recording",
          "waiting", "wiping", "done", "failed"}

RuleSet == [server: Creates, port: Ports \cup {"nat"},
            copy: 0 .. Attempts - 1]

Removal == [at: Stage, listed: SUBSET RuleSet, volumes: SUBSET Volumes]

Enter(d, stage) == removal' = [removal EXCEPT ![d].at = stage]

IsAt(d, stage) == removal[d].at = stage

(* Mutated: only the rule for ssh is listed. *)
ListedSsh(c) == {r \in rules : r.server = c /\ r.port = Forwards[c][1]}

(* The proxy's answer to /portforward/vm/{vm_id}. *)
Listed(c) == {r \in RulesOf(c) : r.port # "nat"}

ListRules(d) ==
    /\ IsAt(d, "idle") /\ Exists(Target[d])
    /\ \E listed \in {Listed(Target[d])} \cup (IF "refuse" \in faults THEN {{}} ELSE {}) :
          removal' = [removal EXCEPT ![d].at = "clearing", ![d].listed = listed]
    /\ UNCHANGED <<task, cloud, rules, ghosts, rows>>

(* A failed deletion of a rule is logged and the loop goes on. *)
DeleteRule(d, r) ==
    /\ IsAt(d, "clearing")
    /\ \/ rules' = rules \ {r}
       \/ faults \cap {"refuse", "lost"} # {} /\ UNCHANGED rules
    /\ removal' = [removal EXCEPT ![d].listed = @ \ {r}]
    /\ UNCHANGED <<task, cloud, ghosts, rows>>

(* The rules of Neutron for the server's address, if it can be told. *)
CleanNeutron(d) ==
    /\ IsAt(d, "clearing") /\ removal[d].listed = {}
    /\ \/ rules' = {r \in rules : r.server # Target[d] \/ r.port # "nat"}
       \/ /\ "refuse" \in faults \/ ~Exists(Target[d])
          /\ UNCHANGED rules
    /\ Enter(d, "listing")
    /\ UNCHANGED <<task, cloud, ghosts, rows>>

ListVolumes(d) ==
    /\ IsAt(d, "listing") /\ Exists(Target[d])
    /\ removal' = [removal EXCEPT ![d].at = "deleting",
                                  ![d].volumes = AttachedTo(Target[d])]
    /\ record' = [record EXCEPT ![d].listed = AttachedTo(Target[d])]
    /\ UNCHANGED <<task, cloud, rules, late, rows>>

DeleteServer(d) ==
    /\ IsAt(d, "deleting") /\ Exists(Target[d])
    /\ deleting' = deleting \cup {Target[d]}
    /\ \/ Enter(d, "recording")
       \/ "lost" \in faults /\ Enter(d, "failed")
    /\ record' = [record EXCEPT ![d].attached = AttachedTo(Target[d])]
    /\ UNCHANGED <<task, server, volume, rules, late, rows>>

(* Nova refuses or has no such server any more: a 500. *)
DeleteFails(d) ==
    /\ IsAt(d, "listing") \/ IsAt(d, "deleting")
    /\ "refuse" \in faults \/ ~Exists(Target[d])
    /\ Enter(d, "failed")
    /\ UNCHANGED <<task, cloud, rules, ghosts, rows>>

(* Mutated: only a server with volumes has its row deleted. *)
RowsWithVolumes(d) ==
    IF removal[d].volumes = {} THEN rows ELSE rows \ {Target[d]}

RowsWithout(d) == rows \ {Target[d]}

(* The activity record, without which it is a 500, and no volume and no row
   is deleted; then the row, of which a failure is ignored. *)
RecordDeletion(d) ==
    /\ IsAt(d, "recording")
    /\ \/ /\ Enter(d, IF removal[d].volumes = {} THEN "done" ELSE "waiting")
          /\ rows' = RowsWithout(d)
       \/ /\ "database" \in faults
          /\ Enter(d, IF removal[d].volumes = {} THEN "done" ELSE "waiting")
          /\ UNCHANGED rows
       \/ /\ "database" \in faults
          /\ Enter(d, "failed")
          /\ UNCHANGED rows
    /\ record' = [record EXCEPT ![d].overtook = ~At(Target[d], "ended")]
    /\ UNCHANGED <<task, cloud, rules, late>>

(* Mutated: every error of the call is a reason to ask again, for ever. *)
WaitForever(d) == FALSE

(* _delete_volumes_after_instance waits until Nova no longer has the server;
   any error of that call counts as such, and after two minutes it goes on. *)
WaitIsOver(d) == ~Exists(Target[d]) \/ faults \cap {"refuse", "slow"} # {}

WaitEnds(d) ==
    /\ IsAt(d, "waiting") /\ WaitIsOver(d)
    /\ Enter(d, "wiping")
    /\ UNCHANGED <<task, cloud, rules, ghosts, rows>>

(* Mutated: the volume is deleted whatever its state. *)
DeletableAlways(v) == volume[v].status \in {"available", "in-use", "error"}

(* cinder.delete_volume looks again and refuses a volume in use; Cinder
   itself deletes one that is available or in error. *)
Deletable(v) == volume[v].status \in {"available", "error"}

(* One volume: the wait for "available", then the attempt to delete. *)
WipeVolume(d, v) ==
    /\ IsAt(d, "wiping")
    /\ Deletable(v)
    /\ volume' = [volume EXCEPT ![v] = [status |-> "gone", on |-> {}]]
    /\ removal' = [removal EXCEPT ![d].volumes = @ \ {v}]
    /\ record' = [record EXCEPT ![d].wiped = @ \cup {v}]
    /\ UNCHANGED <<task, server, deleting, rules, late, rows>>

(* Mutated: the loop is left out. *)
StaysInUseNow(c, v) == volume[v].status = "in-use"

(* The volume is still in use after a minute (that of another server stays
   so; that of the deleted one does only if Nova is slow), or is gone, or
   Cinder refuses: logged, and the loop goes on. *)
StaysInUse(c, v) ==
    /\ volume[v].status = "in-use"
    /\ \E other \in volume[v].on : other # c /\ server[other] # "gone"

VolumeKept(d, v) ==
    /\ IsAt(d, "wiping")
    /\ \/ StaysInUse(Target[d], v)
       \/ volume[v].status = "gone"
       \/ "slow" \in faults /\ ~Deletable(v)
       \/ faults \cap {"refuse", "lost"} # {}
    /\ removal' = [removal EXCEPT ![d].volumes = @ \ {v}]
    /\ UNCHANGED <<task, cloud, rules, ghosts, rows>>

WipingEnds(d) ==
    /\ IsAt(d, "wiping") /\ removal[d].volumes = {}
    /\ Enter(d, "done")
    /\ UNCHANGED <<task, cloud, rules, ghosts, rows>>

-----------------------------------------------------------------------------
(* A worker dies: the requests and background tasks it was running are
   lost, wherever they are. *)
TaskDies(c) ==
    /\ "crash" \in faults
    /\ task[c].at \notin {"received", "refused", "ended"}
    /\ Goto(c, "ended")
    /\ UNCHANGED <<cloud, rules, removal, ghosts, rows>>

RemovalDies(d) ==
    /\ "crash" \in faults
    /\ removal[d].at \notin {"idle", "done", "failed"}
    /\ Enter(d, "failed")
    /\ UNCHANGED <<task, cloud, rules, ghosts, rows>>

-----------------------------------------------------------------------------
(* The user's other requests: attach_volume, detach_volume and
   add_port_forwarding.  Nova refuses them for a server it is deleting. *)

AttachVolume(c, v) ==
    /\ server[c] = "active" /\ c \notin deleting /\ volume[v].status = "available"
    /\ v \in DataVolumes
    /\ volume' = [volume EXCEPT ![v] = [status |-> "in-use", on |-> {c}]]
    /\ UNCHANGED <<task, server, deleting, rules, removal, ghosts, rows>>

DetachVolume(c, v) ==
    /\ server[c] = "active" /\ c \notin deleting /\ v \in AttachedTo(c) \cap DataVolumes
    /\ volume' = [volume EXCEPT ![v] = [status |-> "available", on |-> {}]]
    /\ UNCHANGED <<task, server, deleting, rules, removal, ghosts, rows>>

AddPortForwarding(c) ==
    /\ server[c] = "active"
    /\ AddRule(Rule(c, "nat", 0))
    /\ UNCHANGED <<task, cloud, removal, record, rows>>

-----------------------------------------------------------------------------
(* Nova and Cinder at work. *)

ServerReady(c) ==
    /\ server[c] = "build"
    /\ \/ server' = [server EXCEPT ![c] = "active"]
       \/ "refuse" \in faults /\ server' = [server EXCEPT ![c] = "error"]
    /\ UNCHANGED <<task, deleting, volume, rules, removal, ghosts, rows>>

ServerGone(c) ==
    /\ c \in deleting /\ Exists(c)
    /\ server' = [server EXCEPT ![c] = "gone"]
    /\ UNCHANGED <<task, deleting, volume, rules, removal, ghosts, rows>>

VolumeReady(v) ==
    /\ volume[v].status = "creating"
    /\ \/ volume' = [volume EXCEPT ![v].status = "available"]
       \/ "refuse" \in faults /\ volume' = [volume EXCEPT ![v].status = "error"]
    /\ UNCHANGED <<task, server, deleting, rules, removal, ghosts, rows>>

(* The volumes of a server that is gone are released, some time later. *)
ReleaseVolume(v) ==
    /\ volume[v].status = "in-use" /\ \A c \in volume[v].on : server[c] = "gone"
    /\ volume' = [volume EXCEPT ![v] = [status |-> "available", on |-> {}]]
    /\ UNCHANGED <<task, server, deleting, rules, removal, ghosts, rows>>

-----------------------------------------------------------------------------
(* A request that does not come in the scenario has been refused before. *)
Init ==
    /\ \E s \in Scenarios :
          /\ faults = s.faults
          /\ task = [c \in Creates |->
                        [at |-> IF c \in s.creates THEN "received" ELSE "refused",
                         next |-> 1, tries |-> 0]]
          /\ removal = [d \in Deletes |->
                        [at |-> IF d \in s.deletes THEN "idle" ELSE "failed",
                         listed |-> {}, volumes |-> {}]]
    /\ server = [c \in Creates |-> "none"]
    /\ deleting = {}
    /\ volume = [v \in Volumes |->
                    [status |-> IF v \in DataVolumes THEN "available" ELSE "none",
                     on |-> {}]]
    /\ rules = {}
    /\ rows = {}
    /\ late = {}
    /\ record = [d \in Deletes |-> [listed |-> {}, attached |-> {}, wiped |-> {},
                                    overtook |-> FALSE]]

(* What a create request and its background task do, and what a delete
   request and its background task do, apart from dying. *)
Provision(c) ==
    /\ \/ CheckName(c) \/ CreateVolume(c) \/ VolumePolled(c) \/ CreateServer(c)
       \/ CreateFails(c) \/ Awaited(c) \/ AddressFound(c)
       \/ PostDone(c) \/ PostRefused(c) \/ PostTimesOut(c) \/ ForwardingEnds(c)
       \/ Register(c)
    /\ UNCHANGED faults

Remove(d) ==
    /\ \/ CleanNeutron(d) \/ ListVolumes(d) \/ DeleteServer(d) \/ DeleteFails(d)
       \/ RecordDeletion(d) \/ WaitEnds(d) \/ WipingEnds(d)
       \/ \E r \in removal[d].listed : DeleteRule(d, r)
       \/ \E v \in removal[d].volumes : WipeVolume(d, v) \/ VolumeKept(d, v)
    /\ UNCHANGED faults

Dying ==
    /\ \/ \E c \in Creates : TaskDies(c)
       \/ \E d \in Deletes : RemovalDies(d)
    /\ UNCHANGED faults

User ==
    /\ \/ \E d \in Deletes : ListRules(d)
       \/ \E c \in Creates : AddPortForwarding(c)
       \/ \E c \in Creates, v \in Volumes : AttachVolume(c, v) \/ DetachVolume(c, v)
    /\ UNCHANGED faults

NovaOf(c) == (ServerReady(c) \/ ServerGone(c)) /\ UNCHANGED faults

CinderOf(v) == (VolumeReady(v) \/ ReleaseVolume(v)) /\ UNCHANGED faults

Next ==
    \/ User
    \/ Dying
    \/ \E c \in Creates : Provision(c) \/ NovaOf(c)
    \/ \E d \in Deletes : Remove(d)
    \/ \E v \in Volumes : CinderOf(v)

Spec == Init /\ [][Next]_vars

(* The event loop resumes a task that is not waiting for anything, Nova and
   Cinder finish what they have accepted.  No user has to do anything. *)
FairSpec ==
    /\ Spec
    /\ \A c \in Creates : WF_vars(Provision(c)) /\ WF_vars(NovaOf(c))
    /\ \A d \in Deletes : WF_vars(Remove(d))
    /\ \A v \in Volumes : WF_vars(CinderOf(v))

-----------------------------------------------------------------------------
(* Properties. *)

TypeOK ==
    /\ task \in [Creates -> Task]
    /\ server \in [Creates -> ServerStatus]
    /\ deleting \subseteq Creates
    /\ volume \in [Volumes -> Volume]
    /\ rules \subseteq RuleSet
    /\ rows \subseteq Creates
    /\ removal \in [Deletes -> Removal]
    /\ faults \in {s.faults : s \in Scenarios}
    /\ late \subseteq RuleSet
    /\ record \in [Deletes -> [listed: SUBSET Volumes, attached: SUBSET Volumes,
                               wiped: SUBSET Volumes, overtook: BOOLEAN]]

(* A volume that is attached to a server Nova still has is never deleted:
   whatever the waits of _delete_volumes_after_instance have missed, and
   wherever the volume has been attached since it was listed. *)
AttachedNeverWiped ==
    [][\A v \in Volumes :
          (\E c \in volume[v].on : Exists(c)) => volume'[v].status # "gone"]_vars

(* What delete_instance clears leaves no rule behind but those that somebody
   added while it was at it; said of services that answer. *)
OnlyLateRulesRemain ==
    faults = {} => \A d \in Deletes :
        removal[d].at \in {"listing", "deleting", "recording", "waiting", "wiping", "done"}
            => RulesOf(Target[d]) \subseteq late

(* Provisioning ends with one rule for each port asked for, if the server
   came up, services answer, and nobody has begun to delete it. *)
ForwardsComplete ==
    faults = {} => \A c \in Creates :
        At(c, "ended") /\ server[c] = "active"
        /\ (\A d \in Deletes : Target[d] = c => IsAt(d, "idle"))
            => \A k \in DOMAIN Forwards[c] :
                   Cardinality({r \in RulesOf(c) : r.port = Forwards[c][k]}) = 1

(* A row that is left when its server's delete is done was inserted by a task
   that the delete had overtaken, unless the database has failed: no other
   order of the two leaves a row for the scheduler to find no server of. *)
RowsOnlyOvertaken ==
    \A d \in Deletes :
        IsAt(d, "done") /\ Target[d] \in rows =>
            record[d].overtook \/ "database" \in faults

(* Every accepted create request comes to its end, whether its server comes
   up, fails or is deleted meanwhile, and whatever call fails. *)
ProvisioningEnds ==
    \A c \in Creates : At(c, "accepted") ~> At(c, "ended")

(* A delete that Nova has accepted comes to its end with the volumes it
   listed dealt with. *)
RemovalEnds ==
    \A d \in Deletes : IsAt(d, "recording") ~> (IsAt(d, "done") \/ IsAt(d, "failed"))

(* Volume v was listed by delete request d, and still on its server when Nova took
   the delete; and what may become of such a volume. *)
Owed(d, v) == IsAt(d, "recording") /\ v \in record[d].listed \cap record[d].attached

Settled(d, v) ==
    \/ volume[v].status = "gone"
    \/ \E c \in volume[v].on \ {Target[d]} : Exists(c)

(* A deleted server takes its volumes along: each is deleted in the end, or has
   found another server, although Nova and Cinder let go of it in their own time,
   long after the request was answered. Only a failed activity record and the death
   of the worker, which forgets its task, leave one behind, while services answer in
   time ("연결된 볼륨과 포트포워딩 규칙도 함께 삭제됩니다", instance.py:712). *)
VolumesGoWithServer ==
    \A d \in Deletes : \A v \in DataVolumes \cup (Volumed \cap {Target[d]}) :
        (faults \subseteq {"database", "crash"} /\ Owed(d, v))
        ~> (Settled(d, v) \/ IsAt(d, "failed"))
=============================================================================
