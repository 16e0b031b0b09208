---------------------------- MODULE ProvisionProofs ----------------------------
(***************************************************************************)
(* Proofs about Provision, for any number of requests, servers, volumes    *)
(* and ports, and any faults. The inductive invariant has a part per       *)
(* question: where the cursor of the posting loop is, what a volume's      *)
(* status says of its server, how far the rules of a deleted server are    *)
(* cleared, what the deletion has struck off its list, when the row goes,  *)
(* and what provisioning has posted.                                       *)
(***************************************************************************)
EXTENDS Provision, FiniteSetTheorems, TLAPS

(* The posting loop counts ports from one, and attempts from zero. *)
Cursor ==
    \A c \in Creates : task[c].next >= 1 /\ task[c].tries < Attempts

Early == {"received", "refused", "accepted", "volume", "boot"}

(* A server is not there before its request has booted it; one that is gone
   has had a delete accepted, of a request that has begun; and no deletion
   begins before its server is there. *)
Lifeline ==
    /\ \A c \in Creates : task[c].at \in Early => server[c] = "none"
    /\ \A c \in Creates : server[c] = "gone" => c \in deleting
    /\ \A c \in deleting : \E d \in Deletes : Target[d] = c /\ ~IsAt(d, "idle")
    /\ \A d \in Deletes : ~IsAt(d, "idle") /\ ~IsAt(d, "failed") => server[Target[d]] # "none"

(* A volume that is attached to anything is in use, and what it is attached to
   has been a server. *)
Attachment ==
    \A v \in Volumes :
        /\ volume[v].on # {} => volume[v].status = "in-use"
        /\ \A c \in volume[v].on : server[c] # "none"

(* A deletion lists rules of its own server, and volumes only when the rules
   are cleared. *)
Lists ==
    \A d \in Deletes :
        /\ \A r \in removal[d].listed : r.server = Target[d] /\ ~IsAt(d, "idle")
        /\ removal[d].at \in {"idle", "clearing", "listing"} => removal[d].volumes = {}

(* While a deletion clears, the proxy's rules are on its list or late. A server
   whose delete Nova has accepted has none but late rules of Neutron, which is
   why a second deletion may skip them once the server is gone. *)
Clearing ==
    faults = {} =>
        /\ \A d \in Deletes : IsAt(d, "clearing") =>
              \A r \in RulesOf(Target[d]) :
                  r.port # "nat" => r \in late \cup removal[d].listed
        /\ \A c \in deleting : \A r \in RulesOf(c) : r.port = "nat" => r \in late
        /\ OnlyLateRulesRemain

(* A deletion that has overtaken nobody has found the task ended, whose row
   stays deleted. *)
RowTrail ==
    \A d \in Deletes :
        removal[d].at \in {"waiting", "wiping", "done"}
        /\ ~record[d].overtook /\ "database" \notin faults
            => At(Target[d], "ended") /\ Target[d] \notin rows

Forwarded(c, n) == \A k \in 1 .. n : Rule(c, Forwards[c][k], 0) \in rules

Undisturbed(c) == \A d \in Deletes : Target[d] = c => IsAt(d, "idle")

(* When services answer, every port is posted once, and stays forwarded as long
   as nobody begins to delete the server. *)
PostTrail ==
    faults = {} =>
        /\ \A c \in Creates : task[c].tries = 0
        /\ \A r \in rules : r.copy = 0
        /\ \A c \in Creates : Undisturbed(c) =>
              /\ At(c, "forwarding") => Forwarded(c, task[c].next - 1)
              /\ task[c].at \in {"register", "ended"} =>
                    \/ server[c] \in {"none", "error", "gone"}
                    \/ Forwarded(c, Len(Forwards[c]))

-----------------------------------------------------------------------------
(* Goto moves one request, and leaves its cursor. *)
LEMMA GotoMoves ==
  ASSUME TypeOK, NEW c \in Creates, NEW step \in Step, Goto(c, step)
  PROVE  /\ task' \in [Creates -> Task]
         /\ \A k \in Creates : /\ task'[k].next = task[k].next
                               /\ task'[k].tries = task[k].tries
                               /\ task'[k].at = IF k = c THEN step ELSE task[k].at
  BY DEF TypeOK, Goto, Task

(* NextPort moves its cursor one port on, and nothing else. *)
LEMMA NextPortMoves ==
  ASSUME TypeOK, NEW c \in Creates, NextPort(c)
  PROVE  /\ task' \in [Creates -> Task]
         /\ \A k \in Creates :
               /\ task'[k].next = IF k = c THEN task[k].next + 1 ELSE task[k].next
               /\ task'[k].tries = IF k = c THEN 0 ELSE task[k].tries
               /\ task'[k].at = task[k].at
<1> DEFINE moved == [task EXCEPT ![c].next = @ + 1]
<1>1. task \in [Creates -> Task]
  BY DEF TypeOK
<1>2. moved \in [Creates -> Task]
  BY <1>1 DEF Task
<1>3. task' = [moved EXCEPT ![c].tries = 0]
  BY DEF NextPort
<1>4. \A k \in Creates :
         /\ moved[k].next = IF k = c THEN task[k].next + 1 ELSE task[k].next
         /\ moved[k].tries = task[k].tries /\ moved[k].at = task[k].at
  BY <1>1 DEF Task
<1> HIDE DEF moved
<1> QED
  BY <1>2, <1>3, <1>4 DEF Task

(* Enter moves one deletion, and leaves what it has listed. *)
LEMMA EnterMoves ==
  ASSUME TypeOK, NEW d \in Deletes, NEW stage \in Stage, Enter(d, stage)
  PROVE  /\ removal' \in [Deletes -> Removal]
         /\ \A e \in Deletes : /\ removal'[e].listed = removal[e].listed
                               /\ removal'[e].volumes = removal[e].volumes
                               /\ removal'[e].at = IF e = d THEN stage ELSE removal[e].at
<1>1. removal \in [Deletes -> Removal]
  BY DEF TypeOK
<1> QED
  BY <1>1 DEF Enter, Removal

(* The rule that a request is about to post is a rule. *)
LEMMA PostedTyped ==
  ASSUME TypeOK, Cursor, NEW c \in Creates, Posting(c)
  PROVE  PostedRule(c) \in RuleSet
<1>1. task[c].next \in Nat /\ task[c].tries \in Nat
  BY DEF TypeOK, Task
<1>2. Forwards[c] \in Seq(Ports) /\ task[c].next \in 1 .. Len(Forwards[c])
  BY <1>1, ProvisionAssumption DEF Cursor, Posting
<1>3. Forwards[c][task[c].next] \in Ports
  BY <1>2
<1>4. task[c].tries \in 0 .. Attempts - 1
  BY <1>1, ProvisionAssumption DEF Cursor
<1> QED
  BY <1>3, <1>4 DEF PostedRule, Rule, RuleSet

LEMMA AddRuleTyped ==
  ASSUME TypeOK, NEW r \in RuleSet, AddRule(r)
  PROVE  rules' \subseteq RuleSet /\ late' \subseteq RuleSet
  BY DEF TypeOK, AddRule

(* Every step of a create request and its task keeps types and cursor. *)
LEMMA ProvisionTyped ==
  ASSUME TypeOK, Cursor, NEW c \in Creates, Provision(c) \/ (TaskDies(c) /\ UNCHANGED faults)
  PROVE  TypeOK' /\ Cursor'
<1> USE DEF cloud, ghosts, Cursor
<1>0. c \in Volumes
  BY DEF Volumes
<1>a. ASSUME NEW step \in Step, Goto(c, step) PROVE task' \in [Creates -> Task] /\ Cursor'
  BY <1>a, GotoMoves
<1>b. ASSUME NextPort(c) PROVE task' \in [Creates -> Task] /\ Cursor'
  <2>1. Attempts \in Nat \ {0}
    BY ProvisionAssumption
  <2>2. \A k \in Creates : task[k].next \in Nat
    BY DEF TypeOK, Task
  <2> QED
    BY <1>b, NextPortMoves, <2>1, <2>2
<1>v. ASSUME NEW x \in Volume
      PROVE  [volume EXCEPT ![c] = x] \in [Volumes -> Volume]
  BY <1>0 DEF TypeOK
<1>1. CASE CheckName(c) /\ UNCHANGED faults
  BY <1>1, <1>a DEF CheckName, Step, TypeOK
<1>2. CASE CreateVolume(c) /\ UNCHANGED faults
  <2>1. volume' \in [Volumes -> Volume]
    BY <1>2, <1>v DEF CreateVolume, Volume
  <2> QED
    BY <1>2, <2>1, <1>a DEF CreateVolume, Step, TypeOK
<1>3. CASE VolumePolled(c) /\ UNCHANGED faults
  BY <1>3, <1>a DEF VolumePolled, Step, TypeOK
<1>4. CASE CreateServer(c) /\ UNCHANGED faults
  <2>1. volume' \in [Volumes -> Volume]
    BY <1>4, <1>v DEF CreateServer, Volume, TypeOK
  <2>2. server' \in [Creates -> ServerStatus]
    BY <1>4 DEF CreateServer, ServerStatus, TypeOK
  <2> QED
    BY <1>4, <2>1, <2>2, <1>a DEF CreateServer, Step, TypeOK
<1>5. CASE CreateFails(c) /\ UNCHANGED faults
  BY <1>5, <1>a DEF CreateFails, Step, TypeOK
<1>6. CASE Awaited(c) /\ UNCHANGED faults
  BY <1>6, <1>a DEF Awaited, Step, TypeOK
<1>7. CASE AddressFound(c) /\ UNCHANGED faults
  <2>1. ASSUME task' = [task EXCEPT ![c] = [at |-> "forwarding", next |-> 1, tries |-> 0]]
        PROVE  task' \in [Creates -> Task] /\ Cursor'
    BY <2>1, ProvisionAssumption DEF TypeOK, Task, Step
  <2> QED
    BY <1>7, <2>1, <1>a DEF AddressFound, Step, TypeOK
<1>8. CASE PostDone(c) /\ UNCHANGED faults
  BY <1>8, <1>b, PostedTyped, AddRuleTyped DEF PostDone, TypeOK
<1>9. CASE PostRefused(c) /\ UNCHANGED faults
  BY <1>9, <1>b DEF PostRefused, TypeOK
<1>10. CASE PostTimesOut(c) /\ UNCHANGED faults
  <2>1. ASSUME task[c].tries + 1 < Attempts, task' = [task EXCEPT ![c].tries = @ + 1]
        PROVE  task' \in [Creates -> Task] /\ Cursor'
    <3>1. task \in [Creates -> Task]
      BY DEF TypeOK
    <3>2. task' \in [Creates -> Task]
      BY <2>1, <3>1 DEF Task
    <3>3. \A k \in Creates : /\ task'[k].next = task[k].next
                             /\ task'[k].tries = IF k = c THEN task[c].tries + 1
                                                ELSE task[k].tries
      BY <2>1, <3>1 DEF Task
    <3> QED
      BY <2>1, <3>2, <3>3
  <2>2. rules' \subseteq RuleSet /\ late' \subseteq RuleSet
    BY <1>10, PostedTyped, AddRuleTyped DEF PostTimesOut, TypeOK
  <2> QED
    BY <1>10, <1>b, <2>1, <2>2 DEF PostTimesOut, TypeOK
<1>11. CASE ForwardingEnds(c) /\ UNCHANGED faults
  BY <1>11, <1>a DEF ForwardingEnds, Step, TypeOK
<1>12. CASE Register(c) /\ UNCHANGED faults
  BY <1>12, <1>a DEF Register, Step, TypeOK
<1>13. CASE TaskDies(c) /\ UNCHANGED faults
  BY <1>13, <1>a DEF TaskDies, Step, TypeOK
<1> QED
  BY <1>1, <1>2, <1>3, <1>4, <1>5, <1>6, <1>7, <1>8, <1>9, <1>10, <1>11, <1>12, <1>13
     DEF Provision

(* ListRules and ListVolumes move a deletion and fill one of its lists. *)
LEMMA ListRulesMoves ==
  ASSUME TypeOK, NEW d \in Deletes, ListRules(d)
  PROVE  \E listed \in {Listed(Target[d])} \cup (IF "refuse" \in faults THEN {{}} ELSE {}) :
            /\ removal' \in [Deletes -> Removal]
            /\ \A e \in Deletes :
                  /\ removal'[e].at = IF e = d THEN "clearing" ELSE removal[e].at
                  /\ removal'[e].listed = IF e = d THEN listed ELSE removal[e].listed
                  /\ removal'[e].volumes = removal[e].volumes
<1>1. PICK listed \in {Listed(Target[d])} \cup (IF "refuse" \in faults THEN {{}} ELSE {}) :
         removal' = [removal EXCEPT ![d].at = "clearing", ![d].listed = listed]
  BY DEF ListRules
<1>2. listed \subseteq RuleSet
  BY <1>1 DEF Listed, RulesOf, TypeOK
<1>3. removal \in [Deletes -> Removal]
  BY DEF TypeOK
<1> DEFINE moved == [removal EXCEPT ![d].at = "clearing"]
<1>4. moved \in [Deletes -> Removal]
  BY <1>3 DEF Removal, Stage
<1>5. \A e \in Deletes :
         /\ moved[e].at = IF e = d THEN "clearing" ELSE removal[e].at
         /\ moved[e].listed = removal[e].listed /\ moved[e].volumes = removal[e].volumes
  BY <1>3 DEF Removal
<1>6. removal' = [moved EXCEPT ![d].listed = listed]
  BY <1>1
<1> HIDE DEF moved
<1>7. removal' \in [Deletes -> Removal]
  BY <1>2, <1>4, <1>6 DEF Removal
<1>8. \A e \in Deletes :
            /\ removal'[e].at = moved[e].at
            /\ removal'[e].listed = IF e = d THEN listed ELSE moved[e].listed
            /\ removal'[e].volumes = moved[e].volumes
  BY <1>4, <1>6 DEF Removal
<1> QED
  BY <1>1, <1>5, <1>7, <1>8

LEMMA AttachedTyped ==
  ASSUME NEW c
  PROVE  AttachedTo(c) \subseteq Volumes
  BY DEF AttachedTo

LEMMA ListVolumesMoves ==
  ASSUME TypeOK, NEW d \in Deletes, ListVolumes(d)
  PROVE  /\ removal' \in [Deletes -> Removal]
         /\ \A e \in Deletes :
               /\ removal'[e].at = IF e = d THEN "deleting" ELSE removal[e].at
               /\ removal'[e].listed = removal[e].listed
               /\ removal'[e].volumes = IF e = d THEN AttachedTo(Target[d])
                                        ELSE removal[e].volumes
<1>1. removal \in [Deletes -> Removal]
  BY DEF TypeOK
<1> DEFINE moved == [removal EXCEPT ![d].at = "deleting"]
<1>2. moved \in [Deletes -> Removal]
  BY <1>1 DEF Removal, Stage
<1>3. \A e \in Deletes :
         /\ moved[e].at = IF e = d THEN "deleting" ELSE removal[e].at
         /\ moved[e].listed = removal[e].listed /\ moved[e].volumes = removal[e].volumes
  BY <1>1 DEF Removal
<1>4. removal' = [moved EXCEPT ![d].volumes = AttachedTo(Target[d])]
  BY DEF ListVolumes
<1> HIDE DEF moved
<1>5. removal' \in [Deletes -> Removal]
  BY <1>2, <1>4, AttachedTyped DEF Removal
<1>6. \A e \in Deletes :
            /\ removal'[e].at = moved[e].at /\ removal'[e].listed = moved[e].listed
            /\ removal'[e].volumes = IF e = d THEN AttachedTo(Target[d]) ELSE moved[e].volumes
  BY <1>2, <1>4 DEF Removal
<1> QED
  BY <1>3, <1>5, <1>6

(* Striking a rule or a volume off its list, a deletion stays where it is. *)
LEMMA DeleteRuleMoves ==
  ASSUME TypeOK, NEW d \in Deletes, NEW r, DeleteRule(d, r)
  PROVE  /\ removal' \in [Deletes -> Removal]
         /\ \A e \in Deletes :
               /\ removal'[e].at = removal[e].at
               /\ removal'[e].listed = IF e = d THEN removal[d].listed \ {r}
                                       ELSE removal[e].listed
               /\ removal'[e].volumes = removal[e].volumes
<1>1. removal \in [Deletes -> Removal]
  BY DEF TypeOK
<1> QED
  BY <1>1 DEF DeleteRule, Removal

LEMMA StrikeMoves ==
  ASSUME TypeOK, NEW d \in Deletes, NEW v, WipeVolume(d, v) \/ VolumeKept(d, v)
  PROVE  /\ removal' \in [Deletes -> Removal]
         /\ \A e \in Deletes :
               /\ removal'[e].at = removal[e].at
               /\ removal'[e].listed = removal[e].listed
               /\ removal'[e].volumes = IF e = d THEN removal[d].volumes \ {v}
                                        ELSE removal[e].volumes
<1>1. removal \in [Deletes -> Removal]
  BY DEF TypeOK
<1>2. removal' = [removal EXCEPT ![d].volumes = @ \ {v}]
  BY DEF WipeVolume, VolumeKept
<1> QED
  BY <1>1, <1>2 DEF Removal

(* Every step of a delete request and its task keeps types. *)
LEMMA RemoveTyped ==
  ASSUME TypeOK, NEW d \in Deletes,
         Remove(d) \/ ((ListRules(d) \/ RemovalDies(d)) /\ UNCHANGED faults)
  PROVE  TypeOK' /\ UNCHANGED task
<1> USE DEF cloud, ghosts
<1> DEFINE Record == [listed: SUBSET Volumes, attached: SUBSET Volumes,
                      wiped: SUBSET Volumes, overtook: BOOLEAN]
<1>r. record \in [Deletes -> Record]
  BY DEF TypeOK
<1>e. ASSUME NEW stage \in Stage, Enter(d, stage) PROVE removal' \in [Deletes -> Removal]
  BY <1>e, EnterMoves
<1>t. Target[d] \in Creates
  BY ProvisionAssumption
<1>1. CASE ListRules(d) /\ UNCHANGED faults
  BY <1>1, ListRulesMoves DEF ListRules, TypeOK
<1>2. ASSUME NEW r \in removal[d].listed, DeleteRule(d, r) /\ UNCHANGED faults
      PROVE  TypeOK' /\ UNCHANGED task
  BY <1>2, DeleteRuleMoves DEF DeleteRule, TypeOK
<1>3. CASE CleanNeutron(d) /\ UNCHANGED faults
  BY <1>3, <1>e DEF CleanNeutron, Stage, TypeOK
<1>4. CASE ListVolumes(d) /\ UNCHANGED faults
  <2>1. record' \in [Deletes -> Record]
    BY <1>4, <1>r, AttachedTyped DEF ListVolumes
  <2> QED
    BY <1>4, <2>1, ListVolumesMoves DEF ListVolumes, TypeOK
<1>5. CASE DeleteServer(d) /\ UNCHANGED faults
  <2>1. record' \in [Deletes -> Record]
    BY <1>5, <1>r, AttachedTyped DEF DeleteServer
  <2> QED
    BY <1>5, <1>e, <1>t, <2>1 DEF DeleteServer, Stage, TypeOK
<1>6. CASE DeleteFails(d) /\ UNCHANGED faults
  BY <1>6, <1>e DEF DeleteFails, Stage, TypeOK
<1>7. CASE RecordDeletion(d) /\ UNCHANGED faults
  <2>1. record' \in [Deletes -> Record]
    BY <1>7, <1>r DEF RecordDeletion, At
  <2> QED
    BY <1>7, <1>e, <2>1 DEF RecordDeletion, RowsWithout, Stage, TypeOK
<1>8. CASE WaitEnds(d) /\ UNCHANGED faults
  BY <1>8, <1>e DEF WaitEnds, Stage, TypeOK
<1>9. ASSUME NEW v \in removal[d].volumes, WipeVolume(d, v) /\ UNCHANGED faults
      PROVE  TypeOK' /\ UNCHANGED task
  <2>1. v \in Volumes
    BY DEF TypeOK, Removal
  <2>2. record' \in [Deletes -> Record]
    BY <1>9, <1>r, <2>1 DEF WipeVolume
  <2>3. volume' \in [Volumes -> Volume]
    BY <1>9, <2>1 DEF WipeVolume, Volume, TypeOK
  <2> QED
    BY <1>9, <2>2, <2>3, StrikeMoves DEF WipeVolume, TypeOK
<1>10. ASSUME NEW v \in removal[d].volumes, VolumeKept(d, v) /\ UNCHANGED faults
       PROVE  TypeOK' /\ UNCHANGED task
  BY <1>10, StrikeMoves DEF VolumeKept, TypeOK
<1>11. CASE WipingEnds(d) /\ UNCHANGED faults
  BY <1>11, <1>e DEF WipingEnds, Stage, TypeOK
<1>12. CASE RemovalDies(d) /\ UNCHANGED faults
  BY <1>12, <1>e DEF RemovalDies, Stage, TypeOK
<1> QED
  BY <1>1, <1>2, <1>3, <1>4, <1>5, <1>6, <1>7, <1>8, <1>9, <1>10, <1>11, <1>12 DEF Remove

(* So does a step of the user, of Nova or of Cinder. *)
LEMMA OthersTyped ==
  ASSUME TypeOK,
         \/ \E c \in Creates : AddPortForwarding(c) /\ UNCHANGED faults
         \/ \E c \in Creates, v \in Volumes :
               (AttachVolume(c, v) \/ DetachVolume(c, v)) /\ UNCHANGED faults
         \/ \E c \in Creates : NovaOf(c)
         \/ \E v \in Volumes : CinderOf(v)
  PROVE  TypeOK' /\ UNCHANGED task
<1> USE DEF cloud, ghosts
<1>v. ASSUME NEW v \in Volumes, NEW x \in Volume
      PROVE  [volume EXCEPT ![v] = x] \in [Volumes -> Volume]
  BY DEF TypeOK
<1>1. ASSUME NEW c \in Creates, AddPortForwarding(c), UNCHANGED faults
      PROVE  TypeOK' /\ UNCHANGED task
  <2>1. Rule(c, "nat", 0) \in RuleSet
    BY ProvisionAssumption DEF Rule, RuleSet
  <2> QED
    BY <1>1, <2>1, AddRuleTyped DEF AddPortForwarding, TypeOK
<1>2. ASSUME NEW c \in Creates, NEW v \in Volumes,
             AttachVolume(c, v) \/ DetachVolume(c, v), UNCHANGED faults
      PROVE  TypeOK' /\ UNCHANGED task
  <2>1. [status |-> "in-use", on |-> {c}] \in Volume
        /\ [status |-> "available", on |-> {}] \in Volume
    BY DEF Volume
  <2>2. volume' \in [Volumes -> Volume]
    BY <1>2, <1>v, <2>1 DEF AttachVolume, DetachVolume
  <2> QED
    BY <1>2, <2>2 DEF AttachVolume, DetachVolume, TypeOK
<1>3. ASSUME NEW c \in Creates, NovaOf(c) PROVE TypeOK' /\ UNCHANGED task
  BY <1>3 DEF NovaOf, ServerReady, ServerGone, ServerStatus, TypeOK
<1>4. ASSUME NEW v \in Volumes, CinderOf(v) PROVE TypeOK' /\ UNCHANGED task
  <2>1. volume \in [Volumes -> Volume]
    BY DEF TypeOK
  <2>2. volume' \in [Volumes -> Volume]
    BY <1>4, <1>v, <2>1 DEF CinderOf, VolumeReady, ReleaseVolume, Volume
  <2> QED
    BY <1>4, <2>2 DEF CinderOf, VolumeReady, ReleaseVolume, TypeOK
<1> QED
  BY <1>1, <1>2, <1>3, <1>4

LEMMA TypedAtStart == Init => TypeOK /\ Cursor
<1> SUFFICES ASSUME Init PROVE TypeOK /\ Cursor
  OBVIOUS
<1>1. PICK s \in Scenarios :
         /\ faults = s.faults
         /\ task = [c \in Creates |-> [at |-> IF c \in s.creates THEN "received" ELSE "refused",
                                       next |-> 1, tries |-> 0]]
         /\ removal = [d \in Deletes |-> [at |-> IF d \in s.deletes THEN "idle" ELSE "failed",
                                          listed |-> {}, volumes |-> {}]]
  BY DEF Init
<1>2. task \in [Creates -> Task] /\ Cursor
  BY <1>1, ProvisionAssumption DEF Task, Step, Cursor
<1>3. removal \in [Deletes -> Removal]
  BY <1>1 DEF Removal, Stage
<1>4. volume \in [Volumes -> Volume]
  BY DEF Init, Volume
<1> QED
  BY <1>1, <1>2, <1>3, <1>4 DEF Init, TypeOK, ServerStatus

-----------------------------------------------------------------------------
(* What a step of a create request leaves alone: the deletions, the other
   requests, and the server unless it boots it. None comes after its end. *)
LEMMA ProvisionMoves ==
  ASSUME TypeOK, NEW c \in Creates, Provision(c) \/ (TaskDies(c) /\ UNCHANGED faults)
  PROVE  /\ UNCHANGED <<deleting, removal, record, faults>>
         /\ ~At(c, "ended")
         /\ \A k \in Creates \ {c} : task'[k].at = task[k].at
         /\ task'[c].at \in Early => task[c].at \in Early
         /\ UNCHANGED server \/ CreateServer(c)
<1> USE DEF cloud, ghosts, Early, At
<1>g. ASSUME NEW step \in Step, Goto(c, step)
      PROVE  \A k \in Creates : task'[k].at = IF k = c THEN step ELSE task[k].at
  BY <1>g, GotoMoves
<1>1. CASE CheckName(c) /\ UNCHANGED faults
  BY <1>1, <1>g DEF CheckName, Step
<1>2. CASE CreateVolume(c) /\ UNCHANGED faults
  BY <1>2, <1>g DEF CreateVolume, Step
<1>3. CASE VolumePolled(c) /\ UNCHANGED faults
  BY <1>3, <1>g DEF VolumePolled, Step
<1>4. CASE CreateServer(c) /\ UNCHANGED faults
  BY <1>4, <1>g DEF CreateServer, MayBoot, Step
<1>5. CASE CreateFails(c) /\ UNCHANGED faults
  BY <1>5, <1>g DEF CreateFails, Step
<1>6. CASE Awaited(c) /\ UNCHANGED faults
  BY <1>6, <1>g DEF Awaited, Step
<1>7. CASE AddressFound(c) /\ UNCHANGED faults
  BY <1>7, <1>g DEF AddressFound, Step, TypeOK, Task
<1>8. CASE PostDone(c) /\ UNCHANGED faults
  BY <1>8, NextPortMoves DEF PostDone, Posting
<1>9. CASE PostRefused(c) /\ UNCHANGED faults
  BY <1>9, NextPortMoves DEF PostRefused, Posting
<1>10. CASE PostTimesOut(c) /\ UNCHANGED faults
  BY <1>10, NextPortMoves DEF PostTimesOut, Posting, TypeOK, Task
<1>11. CASE ForwardingEnds(c) /\ UNCHANGED faults
  BY <1>11, <1>g DEF ForwardingEnds, Step
<1>12. CASE Register(c) /\ UNCHANGED faults
  BY <1>12, <1>g DEF Register, Step
<1>13. CASE TaskDies(c) /\ UNCHANGED faults
  BY <1>13, <1>g DEF TaskDies, Step
<1> QED
  BY <1>1, <1>2, <1>3, <1>4, <1>5, <1>6, <1>7, <1>8, <1>9, <1>10, <1>11, <1>12, <1>13
     DEF Provision

(* What a step of a delete request leaves alone: the servers and the create
   requests, and the other deletions. None begins again, or comes after its
   end. *)
LEMMA RemoveMoves ==
  ASSUME TypeOK, NEW d \in Deletes,
         Remove(d) \/ ((ListRules(d) \/ RemovalDies(d)) /\ UNCHANGED faults)
  PROVE  /\ UNCHANGED <<task, server, faults, late>>
         /\ \A e \in Deletes \ {d} :
               /\ removal'[e].at = removal[e].at
               /\ removal'[e].listed = removal[e].listed
               /\ removal'[e].volumes = removal[e].volumes
               /\ record'[e] = record[e]
         /\ removal[d].at \notin {"failed", "done"} /\ removal'[d].at # "idle"
         /\ \/ ListRules(d)
            \/ /\ removal[d].at # "idle"
               /\ removal'[d].at = "clearing" => removal[d].at = "clearing"
         /\ UNCHANGED deleting \/ DeleteServer(d)
<1> USE DEF cloud, ghosts, IsAt
<1>e. ASSUME NEW stage \in Stage, Enter(d, stage)
      PROVE  \A e \in Deletes : /\ removal'[e].listed = removal[e].listed
                                /\ removal'[e].volumes = removal[e].volumes
                                /\ removal'[e].at = IF e = d THEN stage ELSE removal[e].at
  BY <1>e, EnterMoves
<1>r. \A e \in Deletes \ {d} : record'[e] = record[e]
  BY DEF Remove, TypeOK, ListRules, RemovalDies, DeleteRule, CleanNeutron, ListVolumes,
         DeleteServer, DeleteFails, RecordDeletion, WaitEnds, WipeVolume, VolumeKept, WipingEnds
<1> DEFINE Frame == /\ UNCHANGED <<task, server, faults, late>>
                    /\ \A e \in Deletes \ {d} : /\ removal'[e].at = removal[e].at
                                                /\ removal'[e].listed = removal[e].listed
                                                /\ removal'[e].volumes = removal[e].volumes
           Onward == /\ removal[d].at \notin {"failed", "done"} /\ removal'[d].at # "idle"
                     /\ \/ ListRules(d)
                        \/ /\ removal[d].at # "idle"
                           /\ removal'[d].at = "clearing" => removal[d].at = "clearing"
<1>1. ASSUME ListRules(d), UNCHANGED faults PROVE Frame /\ Onward
  BY <1>1, ListRulesMoves DEF ListRules
<1>2. ASSUME NEW r \in removal[d].listed, DeleteRule(d, r), UNCHANGED faults
      PROVE  Frame /\ Onward
  BY <1>2, DeleteRuleMoves DEF DeleteRule
<1>3. ASSUME CleanNeutron(d), UNCHANGED faults PROVE Frame /\ Onward
  BY <1>3, <1>e DEF CleanNeutron, Stage
<1>4. ASSUME ListVolumes(d), UNCHANGED faults PROVE Frame /\ Onward
  <2>1. removal[d].at = "listing" /\ UNCHANGED <<task, server, faults, late>>
    BY <1>4 DEF ListVolumes
  <2> QED
    BY <1>4, <2>1, ListVolumesMoves
<1>5. ASSUME DeleteServer(d), UNCHANGED faults PROVE Frame /\ Onward
  BY <1>5, <1>e DEF DeleteServer, Stage
<1>6. ASSUME DeleteFails(d), UNCHANGED faults PROVE Frame /\ Onward
  BY <1>6, <1>e DEF DeleteFails, Stage
<1>7. ASSUME RecordDeletion(d), UNCHANGED faults PROVE Frame /\ Onward
  BY <1>7, <1>e DEF RecordDeletion, Stage
<1>8. ASSUME WaitEnds(d), UNCHANGED faults PROVE Frame /\ Onward
  BY <1>8, <1>e DEF WaitEnds, Stage
<1>9. ASSUME NEW v \in removal[d].volumes, WipeVolume(d, v) \/ VolumeKept(d, v), UNCHANGED faults
      PROVE  Frame /\ Onward
  BY <1>9, StrikeMoves DEF WipeVolume, VolumeKept
<1>10. ASSUME WipingEnds(d), UNCHANGED faults PROVE Frame /\ Onward
  BY <1>10, <1>e DEF WipingEnds, Stage
<1>11. ASSUME RemovalDies(d), UNCHANGED faults PROVE Frame /\ Onward
  BY <1>11, <1>e DEF RemovalDies, Stage
<1>12. Frame /\ Onward
  BY <1>1, <1>2, <1>3, <1>4, <1>5, <1>6, <1>7, <1>8, <1>9, <1>10, <1>11 DEF Remove
<1>13. UNCHANGED deleting \/ DeleteServer(d)
  BY DEF Remove, ListRules, RemovalDies, DeleteRule, CleanNeutron, ListVolumes,
         DeleteFails, RecordDeletion, WaitEnds, WipeVolume, VolumeKept, WipingEnds
<1> QED
  BY <1>r, <1>12, <1>13

(* The other steps move no request and no deletion. *)
LEMMA OthersMove ==
  ASSUME \/ \E c \in Creates : AddPortForwarding(c) /\ UNCHANGED faults
         \/ \E c \in Creates, v \in Volumes :
               (AttachVolume(c, v) \/ DetachVolume(c, v)) /\ UNCHANGED faults
         \/ \E c \in Creates : NovaOf(c)
         \/ \E v \in Volumes : CinderOf(v)
  PROVE  UNCHANGED <<task, deleting, removal, faults, record, rows>>
  BY DEF AddPortForwarding, AttachVolume, DetachVolume, NovaOf, ServerReady, ServerGone,
         CinderOf, VolumeReady, ReleaseVolume, cloud, ghosts

(* Who makes a step. *)
LEMMA Actors ==
  ASSUME [Next]_vars
  PROVE  \/ UNCHANGED vars
         \/ \E c \in Creates : Provision(c) \/ (TaskDies(c) /\ UNCHANGED faults)
         \/ \E d \in Deletes : Remove(d) \/ ((ListRules(d) \/ RemovalDies(d)) /\ UNCHANGED faults)
         \/ \E c \in Creates : AddPortForwarding(c) /\ UNCHANGED faults
         \/ \E c \in Creates, v \in Volumes :
               (AttachVolume(c, v) \/ DetachVolume(c, v)) /\ UNCHANGED faults
         \/ \E c \in Creates : NovaOf(c)
         \/ \E v \in Volumes : CinderOf(v)
  BY DEF Next, User, Dying

(* Servers come to be, and go, in order. *)
LEMMA LifelineStep ==
  ASSUME TypeOK, Lifeline, [Next]_vars
  PROVE  Lifeline'
<1> USE DEF Lifeline, IsAt
<1>t. \A d \in Deletes : Target[d] \in Creates
  BY ProvisionAssumption
<1>1. CASE UNCHANGED vars
  BY <1>1 DEF vars
<1>2. ASSUME NEW c \in Creates, Provision(c) \/ (TaskDies(c) /\ UNCHANGED faults)
      PROVE  Lifeline'
  <2>1. /\ UNCHANGED <<deleting, removal>>
        /\ \A k \in Creates \ {c} : task'[k].at = task[k].at
        /\ task'[c].at \in Early => task[c].at \in Early
        /\ UNCHANGED server \/ CreateServer(c)
    BY <1>2, ProvisionMoves
  <2>2. CASE UNCHANGED server
    BY <2>1, <2>2
  <2>3. CASE CreateServer(c)
    <3>1. task'[c].at \in {"await", "ended"} /\ server' = [server EXCEPT ![c] = "build"]
      BY <2>3, GotoMoves DEF CreateServer, Step
    <3> QED
      BY <2>1, <3>1, <1>t DEF TypeOK, Early
  <2> QED
    BY <2>1, <2>2, <2>3
<1>3. ASSUME NEW d \in Deletes,
             Remove(d) \/ ((ListRules(d) \/ RemovalDies(d)) /\ UNCHANGED faults)
      PROVE  Lifeline'
  <2>1. /\ UNCHANGED <<task, server>> /\ removal'[d].at # "idle"
        /\ \A e \in Deletes \ {d} : removal'[e].at = removal[e].at
        /\ removal[d].at # "failed"
        /\ ListRules(d) \/ removal[d].at # "idle"
        /\ UNCHANGED deleting \/ DeleteServer(d)
    BY <1>3, RemoveMoves
  <2>2. ListRules(d) => server[Target[d]] # "none"
    BY DEF ListRules, Exists
  <2>3. \A c \in deleting' : c \in deleting \/ c = Target[d]
    BY <2>1 DEF DeleteServer
  <2>4. deleting \subseteq deleting'
    BY <2>1 DEF DeleteServer
  <2> QED
    BY <2>1, <2>2, <2>3, <2>4, <1>t
<1>4. ASSUME UNCHANGED <<task, deleting, removal>>,
             \/ UNCHANGED server
             \/ \E c \in Creates : NovaOf(c)
      PROVE  Lifeline'
  <2>1. ASSUME NEW c \in Creates, NovaOf(c) PROVE Lifeline'
    BY <1>4, <2>1, <1>t DEF NovaOf, ServerReady, ServerGone, Exists, TypeOK
  <2> QED
    BY <1>4, <2>1
<1>5. ASSUME \/ \E c \in Creates : AddPortForwarding(c) /\ UNCHANGED faults
             \/ \E c \in Creates, v \in Volumes :
                   (AttachVolume(c, v) \/ DetachVolume(c, v)) /\ UNCHANGED faults
             \/ \E v \in Volumes : CinderOf(v)
      PROVE  UNCHANGED server
  BY <1>5 DEF AddPortForwarding, AttachVolume, DetachVolume, CinderOf, VolumeReady,
              ReleaseVolume, cloud
<1> QED
  BY <1>1, <1>2, <1>3, <1>4, <1>5, Actors, OthersMove

(* A volume is released before its status changes, and attached to servers
   that are there. *)
LEMMA AttachmentStep ==
  ASSUME TypeOK, Attachment, [Next]_vars
  PROVE  Attachment'
<1> USE DEF Attachment, cloud
<1>v. volume \in [Volumes -> Volume] /\ server \in [Creates -> ServerStatus]
  BY DEF TypeOK
<1>s. \A v \in Volumes : volume[v].on \subseteq Creates
  BY <1>v DEF Volume
<1>1. ASSUME UNCHANGED <<server, volume>> PROVE Attachment'
  BY <1>1
<1>2. ASSUME NEW c \in Creates, Provision(c) \/ (TaskDies(c) /\ UNCHANGED faults)
      PROVE  Attachment'
  <2>1. CASE CreateVolume(c)
    BY <2>1, <1>v DEF CreateVolume
  <2>2. CASE CreateServer(c)
    <3>1. server' = [server EXCEPT ![c] = "build"]
      BY <2>2 DEF CreateServer
    <3>2. \A k \in Creates : server[k] # "none" => server'[k] # "none"
      BY <3>1, <1>v
    <3>3. ASSUME NEW v \in Volumes
          PROVE  volume'[v] = volume[v] \/ volume'[v] = [status |-> "in-use", on |-> {c}]
      BY <2>2, <1>v DEF CreateServer
    <3>4. server'[c] # "none"
      BY <3>1, <1>v
    <3> QED
      BY <3>2, <3>3, <3>4, <1>s
  <2>3. CASE ~CreateVolume(c) /\ ~CreateServer(c)
    <3>1. UNCHANGED <<server, volume>>
      BY <1>2, <2>3 DEF Provision, TaskDies, CheckName, VolumePolled, CreateFails, Awaited,
                        AddressFound, PostDone, PostRefused, PostTimesOut, ForwardingEnds, Register
    <3> QED
      BY <3>1, <1>1
  <2> QED
    BY <2>1, <2>2, <2>3
<1>3. ASSUME NEW d \in Deletes,
             Remove(d) \/ ((ListRules(d) \/ RemovalDies(d)) /\ UNCHANGED faults)
      PROVE  Attachment'
  <2>1. UNCHANGED server
    BY <1>3, RemoveMoves
  <2>2. ASSUME NEW v \in Volumes, WipeVolume(d, v) PROVE Attachment'
    BY <2>1, <2>2, <1>v DEF WipeVolume
  <2>3. \/ UNCHANGED volume
        \/ \E v \in removal[d].volumes : WipeVolume(d, v)
    BY <1>3 DEF Remove, ListRules, RemovalDies, DeleteRule, CleanNeutron, ListVolumes,
                DeleteServer, DeleteFails, RecordDeletion, WaitEnds, VolumeKept, WipingEnds
  <2>4. removal[d].volumes \subseteq Volumes
    BY DEF TypeOK, Removal
  <2> QED
    BY <2>1, <2>2, <2>3, <2>4, <1>1
<1>4. ASSUME NEW c \in Creates, AddPortForwarding(c) PROVE Attachment'
  BY <1>4, <1>1 DEF AddPortForwarding
<1>5. ASSUME NEW c \in Creates, NEW v \in Volumes, AttachVolume(c, v) \/ DetachVolume(c, v)
      PROVE  Attachment'
  BY <1>5, <1>v DEF AttachVolume, DetachVolume
<1>6. ASSUME NEW c \in Creates, NovaOf(c) PROVE Attachment'
  <2>1. UNCHANGED volume /\ \A k \in Creates : server[k] # "none" => server'[k] # "none"
    BY <1>6, <1>v DEF NovaOf, ServerReady, ServerGone
  <2> QED
    BY <2>1, <1>s
<1>7. ASSUME NEW v \in Volumes, CinderOf(v) PROVE Attachment'
  BY <1>7, <1>v DEF CinderOf, VolumeReady, ReleaseVolume, Volume
<1> QED
  BY <1>1, <1>2, <1>3, <1>4, <1>5, <1>6, <1>7, Actors DEF vars

(* The only step that deletes a volume deletes one that is not in use. *)
LEMMA AttachedKept ==
  ASSUME TypeOK, Attachment, [Next]_vars,
         NEW v \in Volumes, NEW c \in volume[v].on
  PROVE  volume'[v].status # "gone"
<1>v. volume \in [Volumes -> Volume] /\ volume[v].status = "in-use" /\ c \in Creates
  BY DEF TypeOK, Attachment, Volume
<1>1. ASSUME UNCHANGED volume PROVE volume'[v].status # "gone"
  BY <1>1, <1>v
<1>2. ASSUME NEW k \in Creates, Provision(k) \/ (TaskDies(k) /\ UNCHANGED faults)
      PROVE  volume'[v].status # "gone"
  BY <1>2, <1>v DEF Provision, TaskDies, CheckName, CreateVolume, VolumePolled, CreateServer,
                    CreateFails, Awaited, AddressFound, PostDone, PostRefused, PostTimesOut,
                    ForwardingEnds, Register, cloud
<1>3. ASSUME NEW d \in Deletes,
             Remove(d) \/ ((ListRules(d) \/ RemovalDies(d)) /\ UNCHANGED faults)
      PROVE  volume'[v].status # "gone"
  BY <1>3, <1>v DEF Remove, ListRules, RemovalDies, DeleteRule, CleanNeutron, ListVolumes,
                    DeleteServer, DeleteFails, RecordDeletion, WaitEnds, WipeVolume, Deletable,
                    VolumeKept, WipingEnds, cloud
<1>4. ASSUME NEW k \in Creates, NEW w \in Volumes,
             AddPortForwarding(k) \/ AttachVolume(k, w) \/ DetachVolume(k, w) \/ NovaOf(k)
             \/ CinderOf(w)
      PROVE  volume'[v].status # "gone"
  BY <1>4, <1>v DEF AddPortForwarding, AttachVolume, DetachVolume, NovaOf, ServerReady,
                    ServerGone, CinderOf, VolumeReady, ReleaseVolume, cloud
<1> QED
  BY <1>1, <1>2, <1>3, <1>4, <1>v, Actors DEF vars

-----------------------------------------------------------------------------
(* A deletion fills its lists once each, and strikes off from them after. *)
LEMMA ListsStep ==
  ASSUME TypeOK, Lists, [Next]_vars
  PROVE  Lists'
<1> USE DEF Lists, IsAt
<1>1. ASSUME UNCHANGED removal PROVE Lists'
  BY <1>1
<1>2. ASSUME NEW d \in Deletes,
             Remove(d) \/ ((ListRules(d) \/ RemovalDies(d)) /\ UNCHANGED faults)
      PROVE  Lists'
  <2>1. /\ \A e \in Deletes \ {d} : /\ removal'[e].at = removal[e].at
                                    /\ removal'[e].listed = removal[e].listed
                                    /\ removal'[e].volumes = removal[e].volumes
        /\ removal'[d].at # "idle"
    BY <1>2, RemoveMoves
  <2>2. SUFFICES /\ \A r \in removal'[d].listed : r.server = Target[d]
                 /\ removal'[d].at \in {"clearing", "listing"} => removal'[d].volumes = {}
    BY <2>1
  <2>3. CASE ListRules(d)
    <3>1. removal[d].volumes = {}
      BY <2>3 DEF ListRules
    <3> QED
      BY <2>3, <3>1, ListRulesMoves DEF Listed, RulesOf
  <2>4. ASSUME NEW r, DeleteRule(d, r)
        PROVE  /\ \A q \in removal'[d].listed : q.server = Target[d]
               /\ removal'[d].at \in {"clearing", "listing"} => removal'[d].volumes = {}
    BY <2>4, DeleteRuleMoves DEF DeleteRule
  <2>5. ASSUME NEW v, WipeVolume(d, v) \/ VolumeKept(d, v)
        PROVE  /\ \A q \in removal'[d].listed : q.server = Target[d]
               /\ removal'[d].at \in {"clearing", "listing"} => removal'[d].volumes = {}
    BY <2>5, StrikeMoves DEF WipeVolume, VolumeKept
  <2>6. CASE ListVolumes(d)
    BY <2>6, ListVolumesMoves
  <2>7. CASE CleanNeutron(d)
    BY <2>7, EnterMoves DEF CleanNeutron, Stage
  <2>8. ASSUME NEW stage \in Stage \ {"idle", "clearing", "listing"}, Enter(d, stage)
        PROVE  /\ \A q \in removal'[d].listed : q.server = Target[d]
               /\ removal'[d].at \in {"clearing", "listing"} => removal'[d].volumes = {}
    BY <2>8, EnterMoves
  <2>9. CASE DeleteServer(d) \/ DeleteFails(d) \/ RecordDeletion(d) \/ WaitEnds(d)
             \/ WipingEnds(d) \/ RemovalDies(d)
    BY <2>8, <2>9 DEF DeleteServer, DeleteFails, RecordDeletion, WaitEnds, WipingEnds,
                      RemovalDies, Stage
  <2> QED
    BY <1>2, <2>3, <2>4, <2>5, <2>6, <2>7, <2>9 DEF Remove
<1>3. ASSUME NEW c \in Creates, Provision(c) \/ (TaskDies(c) /\ UNCHANGED faults)
      PROVE  UNCHANGED removal
  BY <1>3, ProvisionMoves
<1> QED
  BY <1>1, <1>2, <1>3, Actors, OthersMove DEF vars

(* A rule that is made while its server is deleted is late for every deletion. *)
LEMMA AddRuleClears ==
  ASSUME TypeOK, Lifeline, Clearing, NEW r, AddRule(r),
         UNCHANGED <<deleting, removal, faults>>
  PROVE  Clearing'
<1>1. rules' = rules \cup {r} /\ late \subseteq late'
  BY DEF AddRule
<1>2. ASSUME NEW d \in Deletes, Target[d] = r.server, ~IsAt(d, "idle")
      PROVE  r \in late'
  BY <1>2 DEF AddRule, IsAt
<1>3. r.server \in deleting => r \in late'
  BY <1>2 DEF Lifeline
<1> QED
  BY <1>1, <1>2, <1>3 DEF Clearing, OnlyLateRulesRemain, RulesOf, IsAt

(* No step of a deletion leaves a rule that its stage should have cleared. *)
LEMMA ClearingStep ==
  ASSUME TypeOK, Lifeline, Lists, Clearing, [Next]_vars
  PROVE  Clearing'
<1> USE DEF cloud, ghosts
<1>t. \A d \in Deletes : Target[d] \in Creates
  BY ProvisionAssumption
<1>1. ASSUME UNCHANGED <<rules, late, deleting, removal, faults>> PROVE Clearing'
  BY <1>1 DEF Clearing, OnlyLateRulesRemain, RulesOf, IsAt
<1>2. ASSUME NEW c \in Creates, Provision(c) \/ (TaskDies(c) /\ UNCHANGED faults)
      PROVE  Clearing'
  <2>1. UNCHANGED <<deleting, removal, faults>>
    BY <1>2, ProvisionMoves
  <2>2. UNCHANGED <<rules, late>> \/ AddRule(PostedRule(c))
    BY <1>2 DEF Provision, TaskDies, CheckName, CreateVolume, VolumePolled, CreateServer,
                CreateFails, Awaited, AddressFound, PostDone, PostRefused, PostTimesOut,
                ForwardingEnds, Register
  <2> QED
    BY <2>1, <2>2, <1>1, AddRuleClears
<1>3. ASSUME NEW d \in Deletes,
             Remove(d) \/ ((ListRules(d) \/ RemovalDies(d)) /\ UNCHANGED faults)
      PROVE  Clearing'
  <2> SUFFICES ASSUME faults = {} PROVE Clearing'
    BY <1>3, RemoveMoves DEF Clearing
  <2>0. /\ \A e \in Deletes \ {d} : /\ removal'[e].at = removal[e].at
                                    /\ removal'[e].listed = removal[e].listed
        /\ UNCHANGED <<server, faults, late>>
    BY <1>3, RemoveMoves
  <2>1. CASE ListRules(d)
    <3>1. removal'[d].at = "clearing" /\ removal'[d].listed = Listed(Target[d])
      BY <2>1, ListRulesMoves
    <3>2. UNCHANGED <<rules, deleting>>
      BY <2>1 DEF ListRules
    <3> QED
      BY <2>0, <3>1, <3>2 DEF Clearing, OnlyLateRulesRemain, RulesOf, Listed, IsAt
  <2>2. ASSUME NEW r, DeleteRule(d, r) PROVE Clearing'
    <3>1. rules' = rules \ {r} /\ UNCHANGED deleting
      BY <2>2 DEF DeleteRule
    <3>2. removal'[d].at = removal[d].at /\ removal'[d].listed = removal[d].listed \ {r}
      BY <2>2, DeleteRuleMoves
    <3> QED
      BY <2>0, <3>1, <3>2 DEF Clearing, OnlyLateRulesRemain, RulesOf, IsAt
  <2>3. CASE CleanNeutron(d)
    <3>1. /\ removal[d].at = "clearing" /\ removal[d].listed = {}
          /\ removal'[d].at = "listing" /\ removal'[d].listed = {}
          /\ rules' \subseteq rules /\ UNCHANGED deleting
      BY <2>3, EnterMoves DEF CleanNeutron, Stage, IsAt
    <3>2. ASSUME NEW r \in RulesOf(Target[d])' PROVE r \in late
      <4>1. CASE r.port # "nat"
        BY <3>1, <4>1 DEF Clearing, RulesOf, IsAt
      <4>2. CASE r.port = "nat"
        <5>1. ~Exists(Target[d])
          BY <2>3, <4>2 DEF CleanNeutron, RulesOf
        <5>2. Target[d] \in deleting
          BY <3>1, <5>1, <1>t DEF Lifeline, Exists, IsAt, TypeOK
        <5> QED
          BY <3>1, <4>2, <5>2 DEF Clearing, RulesOf
      <4> QED
        BY <4>1, <4>2
    <3>3. \A c : RulesOf(c)' \subseteq RulesOf(c)
      BY <3>1 DEF RulesOf
    <3> QED
      BY <2>0, <3>1, <3>2, <3>3 DEF Clearing, OnlyLateRulesRemain, IsAt
  <2>4. CASE DeleteServer(d)
    <3>1. /\ removal[d].at = "deleting" /\ removal'[d].at \in {"recording", "failed"}
          /\ deleting' = deleting \cup {Target[d]} /\ UNCHANGED rules
      BY <2>4, EnterMoves DEF DeleteServer, Stage, IsAt
    <3>2. RulesOf(Target[d]) \subseteq late
      BY <3>1 DEF Clearing, OnlyLateRulesRemain
    <3> QED
      BY <2>0, <3>1, <3>2 DEF Clearing, OnlyLateRulesRemain, RulesOf, IsAt
  <2>5. ASSUME /\ UNCHANGED <<rules, deleting>>
               /\ removal'[d].at \in {"failed", removal[d].at}
                  \/ removal[d].at \in {"listing", "recording", "waiting", "wiping"}
               /\ removal'[d].at # "clearing"
        PROVE  Clearing'
    <3>1. \A c : RulesOf(c)' = RulesOf(c)
      BY <2>5 DEF RulesOf
    <3>2. OnlyLateRulesRemain'
      BY <2>0, <2>5, <3>1 DEF Clearing, OnlyLateRulesRemain
    <3> QED
      BY <2>0, <2>5, <3>1, <3>2 DEF Clearing, IsAt
  <2>6. CASE ListVolumes(d)
    <3>1. removal[d].at = "listing" /\ UNCHANGED <<rules, deleting>>
      BY <2>6 DEF ListVolumes, IsAt
    <3> QED
      BY <2>5, <2>6, <3>1, ListVolumesMoves
  <2>7. ASSUME NEW v, WipeVolume(d, v) \/ VolumeKept(d, v) PROVE Clearing'
    BY <2>5, <2>7, StrikeMoves DEF WipeVolume, VolumeKept, IsAt
  <2>8. CASE DeleteFails(d) \/ RemovalDies(d)
    BY <2>5, <2>8, EnterMoves DEF DeleteFails, RemovalDies, Stage
  <2>9. CASE RecordDeletion(d) \/ WaitEnds(d) \/ WipingEnds(d)
    BY <2>5, <2>9, EnterMoves DEF RecordDeletion, WaitEnds, WipingEnds, Stage, IsAt
  <2> QED
    BY <1>3, <2>1, <2>2, <2>3, <2>4, <2>6, <2>7, <2>8, <2>9 DEF Remove
<1>4. ASSUME NEW c \in Creates, AddPortForwarding(c), UNCHANGED faults PROVE Clearing'
  BY <1>4, AddRuleClears DEF AddPortForwarding
<1>5. ASSUME NEW c \in Creates, NEW v \in Volumes, AttachVolume(c, v) \/ DetachVolume(c, v),
             UNCHANGED faults
      PROVE  Clearing'
  BY <1>5, <1>1 DEF AttachVolume, DetachVolume
<1>6. ASSUME NEW c \in Creates, NovaOf(c) PROVE Clearing'
  BY <1>6, <1>1 DEF NovaOf, ServerReady, ServerGone
<1>7. ASSUME NEW v \in Volumes, CinderOf(v) PROVE Clearing'
  BY <1>7, <1>1 DEF CinderOf, VolumeReady, ReleaseVolume
<1> QED
  BY <1>1, <1>2, <1>3, <1>4, <1>5, <1>6, <1>7, Actors DEF vars

-----------------------------------------------------------------------------
(* The row is only inserted before its task ends, which is for good. *)
LEMMA RowTrailStep ==
  ASSUME TypeOK, RowTrail, [Next]_vars
  PROVE  RowTrail'
<1> USE DEF cloud, ghosts, RowTrail, At
<1>t. \A d \in Deletes : Target[d] \in Creates
  BY ProvisionAssumption
<1>1. ASSUME UNCHANGED <<task, removal, faults, record, rows>> PROVE RowTrail'
  BY <1>1
<1>2. ASSUME NEW c \in Creates, Provision(c) \/ (TaskDies(c) /\ UNCHANGED faults)
      PROVE  RowTrail'
  <2>1. rows' \subseteq rows \cup {c}
    BY <1>2 DEF Provision, TaskDies, CheckName, CreateVolume, VolumePolled, CreateServer,
                CreateFails, Awaited, AddressFound, PostDone, PostRefused, PostTimesOut,
                ForwardingEnds, Register
  <2> QED
    BY <1>2, <2>1, <1>t, ProvisionMoves
<1>3. ASSUME NEW d \in Deletes,
             Remove(d) \/ ((ListRules(d) \/ RemovalDies(d)) /\ UNCHANGED faults)
      PROVE  RowTrail'
  <2>0. /\ UNCHANGED <<task, faults>>
        /\ \A e \in Deletes \ {d} : removal'[e].at = removal[e].at /\ record'[e] = record[e]
    BY <1>3, RemoveMoves
  <2>r. record \in [Deletes -> [listed: SUBSET Volumes, attached: SUBSET Volumes,
                                wiped: SUBSET Volumes, overtook: BOOLEAN]]
    BY DEF TypeOK
  <2>1. CASE RecordDeletion(d)
    <3>1. record'[d].overtook = ~At(Target[d], "ended") /\ rows' \subseteq rows
      BY <2>1, <2>r DEF RecordDeletion, RowsWithout
    <3>2. \/ rows' = rows \ {Target[d]}
          \/ "database" \in faults
      BY <2>1 DEF RecordDeletion, RowsWithout
    <3> QED
      BY <2>0, <3>1, <3>2
  <2>2. ASSUME ~RecordDeletion(d) PROVE UNCHANGED rows /\ record'[d].overtook = record[d].overtook
    BY <1>3, <2>2, <2>r DEF Remove, ListRules, RemovalDies, DeleteRule, CleanNeutron,
         ListVolumes, DeleteServer, DeleteFails, WaitEnds, WipeVolume, VolumeKept, WipingEnds
  <2>3. ASSUME ~RecordDeletion(d)
        PROVE  \/ removal'[d].at \notin {"waiting", "wiping", "done"}
               \/ removal[d].at \in {"waiting", "wiping", "done"}
    <3>1. CASE ListRules(d)
      BY <3>1, ListRulesMoves
    <3>2. ASSUME NEW r, DeleteRule(d, r) PROVE removal'[d].at = removal[d].at
      BY <3>2, DeleteRuleMoves
    <3>3. ASSUME NEW v, WipeVolume(d, v) \/ VolumeKept(d, v) PROVE removal'[d].at = removal[d].at
      BY <3>3, StrikeMoves
    <3>4. CASE ListVolumes(d)
      BY <3>4, ListVolumesMoves
    <3>5. CASE CleanNeutron(d) \/ DeleteServer(d) \/ DeleteFails(d) \/ RemovalDies(d)
      BY <3>5, EnterMoves DEF CleanNeutron, DeleteServer, DeleteFails, RemovalDies, Stage
    <3>6. CASE WaitEnds(d) \/ WipingEnds(d)
      BY <3>6 DEF WaitEnds, WipingEnds, IsAt
    <3> QED
      BY <1>3, <2>3, <3>1, <3>2, <3>3, <3>4, <3>5, <3>6 DEF Remove
  <2> QED
    BY <2>0, <2>1, <2>2, <2>3
<1> QED
  BY <1>1, <1>2, <1>3, Actors, OthersMove DEF vars

-----------------------------------------------------------------------------
(* The step of a create request posts the port it has come to, and ends when it
   has come past the last. *)
LEMMA ProvisionPosts ==
  ASSUME TypeOK, Cursor, Lifeline, PostTrail, faults = {},
         NEW c \in Creates, Provision(c) \/ (TaskDies(c) /\ UNCHANGED faults)
  PROVE  PostTrail'
<1> USE DEF cloud, ghosts, At
<1>0. UNCHANGED <<removal, faults>>
  BY ProvisionMoves
<1>u. \A k \in Creates : Undisturbed(k)' = Undisturbed(k)
  BY <1>0 DEF Undisturbed, IsAt
<1>n. \A k \in Creates : task[k].next \in Nat /\ task[k].tries \in Nat
  BY DEF TypeOK, Task
<1>f. Forwards[c] \in Seq(Ports)
  BY ProvisionAssumption
<1>g. ASSUME NEW step \in Step, Goto(c, step)
      PROVE  \A k \in Creates : /\ task'[k].at = IF k = c THEN step ELSE task[k].at
                                /\ task'[k].next = task[k].next
                                /\ task'[k].tries = task[k].tries
  BY <1>g, GotoMoves
(* What has to be shown of a step that moves no cursor and makes no rule. *)
<1>q. ASSUME NEW step \in Step \ {"forwarding"}, Goto(c, step), UNCHANGED rules,
             \A k \in Creates \ {c} : server'[k] = server[k],
             Undisturbed(c) /\ step \in {"register", "ended"} =>
                \/ server'[c] \in {"none", "error", "gone"}
                \/ Forwarded(c, Len(Forwards[c]))
      PROVE  PostTrail'
  BY <1>q, <1>g, <1>u DEF PostTrail, Forwarded
<1>1. CASE CheckName(c)
  BY <1>1, <1>q DEF CheckName, Step
<1>2. CASE CreateVolume(c)
  BY <1>2, <1>q DEF CreateVolume, Step
<1>3. CASE VolumePolled(c)
  <2>1. server[c] = "none"
    BY <1>3 DEF VolumePolled, Lifeline, Early
  <2> QED
    BY <1>3, <1>q, <2>1 DEF VolumePolled, Step
<1>4. CASE CreateServer(c)
  <2>1. Goto(c, "await") /\ UNCHANGED rules
    BY <1>4 DEF CreateServer
  <2>2. \A k \in Creates \ {c} : server'[k] = server[k]
    BY <1>4 DEF CreateServer, TypeOK
  <2> QED
    BY <1>q, <2>1, <2>2 DEF Step
<1>5. CASE CreateFails(c)
  <2>1. server[c] = "none"
    BY <1>5 DEF CreateFails, Lifeline, Early
  <2> QED
    BY <1>5, <1>q, <2>1 DEF CreateFails, Step
<1>6. CASE Awaited(c)
  BY <1>6, <1>q DEF Awaited, AwaitTimesOut, Step
<1>7. CASE AddressFound(c)
  <2>1. CASE ~Exists(c) /\ Goto(c, "register")
    BY <1>7, <1>q, <2>1 DEF AddressFound, Exists, Step
  <2>2. CASE task' = [task EXCEPT ![c] = [at |-> "forwarding", next |-> 1, tries |-> 0]]
    <3>1. UNCHANGED <<rules, server>>
      BY <1>7 DEF AddressFound
    <3>2. \A k \in Creates : task'[k] = IF k = c
                                        THEN [at |-> "forwarding", next |-> 1, tries |-> 0]
                                        ELSE task[k]
      BY <2>2 DEF TypeOK
    <3>3. Forwarded(c, 0)
      BY DEF Forwarded
    <3> QED
      BY <1>u, <3>1, <3>2, <3>3 DEF PostTrail, Forwarded
  <2> QED
    BY <1>7, <2>1, <2>2 DEF AddressFound
<1>8. CASE PostDone(c) \/ PostRefused(c) \/ PostTimesOut(c)
  <2>1. PostDone(c)
    BY <1>8 DEF PostRefused, PostTimesOut
  <2>2. /\ rules' = rules \cup {PostedRule(c)} /\ NextPort(c) /\ UNCHANGED server
        /\ task[c].at = "forwarding" /\ task[c].next <= Len(Forwards[c])
    BY <2>1 DEF PostDone, AddRule, Posting
  <2>3. \A k \in Creates :
           /\ task'[k].next = IF k = c THEN task[k].next + 1 ELSE task[k].next
           /\ task'[k].tries = IF k = c THEN 0 ELSE task[k].tries
           /\ task'[k].at = task[k].at
    BY <2>2, NextPortMoves
  <2>4. PostedRule(c) = Rule(c, Forwards[c][task[c].next], 0)
    BY DEF PostTrail, PostedRule
  <2>5. Forwarded(c, task[c].next - 1) => Forwarded(c, task[c].next - 1)'
    BY <1>n, <2>2, <2>3, <2>4 DEF Forwarded
  <2>6. \A k \in Creates \ {c} : Forwarded(k, task[k].next - 1) => Forwarded(k, task[k].next - 1)'
    BY <2>2, <2>3 DEF Forwarded
  <2>7. \A k \in Creates : Forwarded(k, Len(Forwards[k])) => Forwarded(k, Len(Forwards[k]))'
    BY <2>2 DEF Forwarded
  <2>8. \A r \in rules' : r.copy = 0
    BY <2>2, <2>4 DEF PostTrail, Rule
  <2> QED
    BY <1>u, <2>2, <2>3, <2>5, <2>6, <2>7, <2>8 DEF PostTrail
<1>9. CASE ForwardingEnds(c)
  <2>1. task[c].at = "forwarding" /\ task[c].next > Len(Forwards[c])
    BY <1>9 DEF ForwardingEnds, AllPosted
  <2>2. Undisturbed(c) => Forwarded(c, Len(Forwards[c]))
    BY <2>1, <1>n, <1>f DEF PostTrail, Forwarded
  <2> QED
    BY <1>9, <1>q, <2>2 DEF ForwardingEnds, Step
<1>10. CASE Register(c)
  BY <1>10, <1>q DEF Register, PostTrail, Step
<1> QED
  BY <1>1, <1>2, <1>3, <1>4, <1>5, <1>6, <1>7, <1>8, <1>9, <1>10 DEF Provision, TaskDies

(* A deletion touches the rules of its own server only, Nova makes a server
   active only from its build, and the user's own rules are Neutron's. *)
LEMMA PostTrailStep ==
  ASSUME TypeOK, Cursor, Lifeline, Lists, PostTrail, [Next]_vars
  PROVE  PostTrail'
<1> USE DEF cloud, ghosts
<1> SUFFICES ASSUME faults = {}, UNCHANGED faults PROVE PostTrail'
  <2>1. UNCHANGED faults
    BY Actors, ProvisionMoves, RemoveMoves, OthersMove DEF vars
  <2> QED
    BY <2>1 DEF PostTrail
<1>1. ASSUME UNCHANGED <<task, rules, removal, server>> PROVE PostTrail'
  BY <1>1 DEF PostTrail, Forwarded, Undisturbed, IsAt, At
<1>2. ASSUME NEW c \in Creates, Provision(c) \/ (TaskDies(c) /\ UNCHANGED faults)
      PROVE  PostTrail'
  BY <1>2, ProvisionPosts
<1>3. ASSUME NEW d \in Deletes,
             Remove(d) \/ ((ListRules(d) \/ RemovalDies(d)) /\ UNCHANGED faults)
      PROVE  PostTrail'
  <2>1. /\ UNCHANGED <<task, server>> /\ removal'[d].at # "idle"
        /\ \A e \in Deletes \ {d} : removal'[e].at = removal[e].at
        /\ ListRules(d) \/ removal[d].at # "idle"
    BY <1>3, RemoveMoves
  <2>2. \A k \in Creates : Undisturbed(k)' => Undisturbed(k) /\ k # Target[d]
    BY <2>1 DEF Undisturbed, IsAt, ListRules
  <2>3. \A r \in removal[d].listed : r.server = Target[d]
    BY DEF Lists
  <2>a. ASSUME NEW r \in removal[d].listed, DeleteRule(d, r)
        PROVE  rules' \subseteq rules /\ \A q \in rules : q.server # Target[d] => q \in rules'
    BY <2>a, <2>3 DEF DeleteRule
  <2>b. ASSUME CleanNeutron(d)
        PROVE  rules' \subseteq rules /\ \A q \in rules : q.server # Target[d] => q \in rules'
    BY <2>b DEF CleanNeutron
  <2>4. rules' \subseteq rules /\ \A q \in rules : q.server # Target[d] => q \in rules'
    <3>1. \/ UNCHANGED rules
          \/ CleanNeutron(d)
          \/ \E r \in removal[d].listed : DeleteRule(d, r)
      BY <1>3 DEF Remove, ListRules, RemovalDies, ListVolumes, DeleteServer, DeleteFails,
           RecordDeletion, WaitEnds, WipeVolume, VolumeKept, WipingEnds
    <3> QED
      BY <2>a, <2>b, <3>1
  <2>5. ASSUME NEW k \in Creates, NEW n, k # Target[d], Forwarded(k, n) PROVE Forwarded(k, n)'
    BY <2>4, <2>5 DEF Forwarded, Rule
  <2> QED
    BY <2>1, <2>2, <2>4, <2>5 DEF PostTrail, At
<1>4. ASSUME NEW c \in Creates, AddPortForwarding(c) PROVE PostTrail'
  <2>1. rules' = rules \cup {Rule(c, "nat", 0)} /\ UNCHANGED <<task, server, removal>>
    BY <1>4 DEF AddPortForwarding, AddRule
  <2>2. Rule(c, "nat", 0).copy = 0
    BY DEF Rule
  <2>3. \A k, n : Forwarded(k, n) => Forwarded(k, n)'
    BY <2>1 DEF Forwarded
  <2>4. \A k \in Creates : Undisturbed(k)' = Undisturbed(k)
    BY <2>1 DEF Undisturbed, IsAt
  <2> QED
    BY <2>1, <2>2, <2>3, <2>4 DEF PostTrail, At
<1>5. ASSUME NEW c \in Creates, NEW v \in Volumes, AttachVolume(c, v) \/ DetachVolume(c, v)
      PROVE  PostTrail'
  BY <1>5, <1>1 DEF AttachVolume, DetachVolume
<1>6. ASSUME NEW c \in Creates, NovaOf(c) PROVE PostTrail'
  <2>1. UNCHANGED <<task, rules, removal>>
    BY <1>6 DEF NovaOf, ServerReady, ServerGone
  <2>2. \A k \in Creates : server[k] \in {"none", "error", "gone"}
                              => server'[k] \in {"none", "error", "gone"}
    BY <1>6 DEF NovaOf, ServerReady, ServerGone, TypeOK
  <2> QED
    BY <2>1, <2>2 DEF PostTrail, Forwarded, Undisturbed, IsAt, At
<1>7. ASSUME NEW v \in Volumes, CinderOf(v) PROVE PostTrail'
  BY <1>7, <1>1 DEF CinderOf, VolumeReady, ReleaseVolume
<1> QED
  BY <1>1, <1>2, <1>3, <1>4, <1>5, <1>6, <1>7, Actors DEF vars

-----------------------------------------------------------------------------
IInv ==
    /\ TypeOK
    /\ Cursor
    /\ Lifeline
    /\ Attachment
    /\ Lists
    /\ Clearing
    /\ RowTrail
    /\ PostTrail

(* At first nothing is there: no server, no rule, no row. *)
LEMMA InitIInv == Init => IInv
<1> SUFFICES ASSUME Init PROVE IInv
  OBVIOUS
<1>1. TypeOK /\ Cursor
  BY TypedAtStart
<1>2. PICK s \in Scenarios :
         /\ task = [c \in Creates |-> [at |-> IF c \in s.creates THEN "received" ELSE "refused",
                                       next |-> 1, tries |-> 0]]
         /\ removal = [d \in Deletes |-> [at |-> IF d \in s.deletes THEN "idle" ELSE "failed",
                                          listed |-> {}, volumes |-> {}]]
  BY DEF Init
<1>3. \A d \in Deletes : /\ removal[d].at \in {"idle", "failed"}
                         /\ removal[d].listed = {} /\ removal[d].volumes = {}
  BY <1>2
<1>4. \A c \in Creates : task[c].at \in {"received", "refused"} /\ task[c].tries = 0
  BY <1>2
<1>5. Lifeline
  BY <1>3, <1>4 DEF Init, Lifeline, IsAt
<1>6. Attachment /\ Lists
  BY <1>3 DEF Init, Attachment, Lists
<1>7. Clearing /\ RowTrail
  BY <1>3 DEF Init, Clearing, OnlyLateRulesRemain, RowTrail, RulesOf, IsAt
<1>8. PostTrail
  BY <1>4 DEF Init, PostTrail, At
<1> QED
  BY <1>1, <1>5, <1>6, <1>7, <1>8 DEF IInv

LEMMA TypedStep ==
  ASSUME TypeOK, Cursor, [Next]_vars
  PROVE  TypeOK' /\ Cursor'
<1>1. CASE UNCHANGED vars
  BY <1>1 DEF vars, TypeOK, Cursor
<1>2. ASSUME TypeOK', UNCHANGED task PROVE Cursor'
  BY <1>2 DEF Cursor
<1> QED
  BY <1>1, <1>2, Actors, ProvisionTyped, RemoveTyped, OthersTyped

(* The inductive invariant holds in every reachable state. *)
LEMMA Inductive == Spec => []IInv
<1>1. IInv /\ [Next]_vars => IInv'
  BY TypedStep, LifelineStep, AttachmentStep, ListsStep, ClearingStep, RowTrailStep,
     PostTrailStep DEF IInv
<1> QED
  BY <1>1, InitIInv, PTL DEF Spec

(* Every variable keeps its type, whatever call fails and whatever worker dies:
   the loop over the ports never runs past the ports asked for. *)
THEOREM TypeCorrect == Spec => []TypeOK
<1>1. IInv => TypeOK
  BY DEF IInv
<1> QED
  BY <1>1, Inductive, PTL

(* A deletion that has cleared leaves only the rules somebody added after it
   had listed them, also when another deletion of the server is ahead of it. *)
THEOREM ClearedButLate == Spec => []OnlyLateRulesRemain
<1>1. IInv => OnlyLateRulesRemain
  BY DEF IInv, Clearing, OnlyLateRulesRemain
<1> QED
  BY <1>1, Inductive, PTL

(* A row outlives its server's deletion only if the deletion overtook the task
   that inserts it. *)
THEOREM RowsGoWithServers == Spec => []RowsOnlyOvertaken
<1>1. IInv => RowsOnlyOvertaken
  BY DEF IInv, RowTrail, RowsOnlyOvertaken, IsAt
<1> QED
  BY <1>1, Inductive, PTL

(* Provisioning posts every port exactly once, however many there are. *)
THEOREM EveryPortOnce == Spec => []ForwardsComplete
<1>1. IInv => ForwardsComplete
  <2> SUFFICES ASSUME IInv, faults = {},
                      NEW c \in Creates, At(c, "ended"), server[c] = "active", Undisturbed(c),
                      NEW k \in DOMAIN Forwards[c]
               PROVE  Cardinality({r \in RulesOf(c) : r.port = Forwards[c][k]}) = 1
    BY DEF ForwardsComplete, Undisturbed
  <2> DEFINE rule == Rule(c, Forwards[c][k], 0)
  <2>1. k \in 1 .. Len(Forwards[c])
    BY ProvisionAssumption
  <2>2. rule \in rules
    BY <2>1 DEF IInv, PostTrail, Forwarded, At
  <2>3. ASSUME NEW r \in RulesOf(c), r.port = Forwards[c][k] PROVE r = rule
    <3>1. r \in RuleSet /\ r.copy = 0 /\ r.server = c
      BY DEF RulesOf, IInv, TypeOK, PostTrail
    <3> QED
      BY <2>3, <3>1 DEF RuleSet, Rule
  <2>4. {r \in RulesOf(c) : r.port = Forwards[c][k]} = {rule}
    BY <2>2, <2>3 DEF RulesOf, Rule
  <2> QED
    BY <2>4, FS_Singleton
<1> QED
  BY <1>1, Inductive, PTL

(* No deletion takes a volume from a server that is there. *)
THEOREM NoVolumeTaken == Spec => AttachedNeverWiped
<1>1. IInv /\ [Next]_vars
        => [\A v \in Volumes :
               (\E c \in volume[v].on : Exists(c)) => volume'[v].status # "gone"]_vars
  BY AttachedKept DEF IInv
<1> QED
  BY <1>1, Inductive, PTL DEF Spec, AttachedNeverWiped

=============================================================================
