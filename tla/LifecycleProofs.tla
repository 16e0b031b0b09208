--------------------------- MODULE LifecycleProofs ---------------------------
(***************************************************************************)
(* What holds of the instance lifetimes for any number of instances,       *)
(* workers, requests, settings and days.                                   *)
(***************************************************************************)
EXTENDS Lifecycle, TLAPS

(* The four actions that touch the row table do it in one of these ways. *)
LEMMA SetupTyped == NoRow \in Row /\ Asleep \in Scheduler /\ Idle \in Request
  BY DEF NoRow, Row, Status, Asleep, Scheduler, Phases, Idle, Request

LEMMA ExpiryTyped ==
  ASSUME TypeOK, NEW i \in Instances
  PROVE  NewExpiry(i) \in Int
  BY LifecycleAssumption DEF TypeOK, NewExpiry, Max2, Row

(* Every UPDATE statement leaves a well-formed table. *)
LEMMA UpdatesTyped ==
  ASSUME TypeOK, NEW i \in Instances, NEW t \in Int,
         UpdateEmailSent(i, t) \/ UpdateExtended(i, t) \/ UpdateDeleted(i)
  PROVE  row' \in [Instances -> Row]
  BY DEF TypeOK, UpdateEmailSent, UpdateExtended, UpdateDeleted, Row, Status

(* A step of a scheduler preserves the types. *)
LEMMA SchedulerTyped ==
  ASSUME TypeOK, NEW w \in Workers, SchedulerNext(w)
  PROVE  TypeOK'
<1> USE DEF table, ghosts
<1>0. sched[w] \in Scheduler
  BY DEF TypeOK
<1>1. CASE StartCycle(w)
  <2>1. setting.grace \in Int
    BY LifecycleAssumption DEF TypeOK
  <2>4. sched' \in [Workers -> Scheduler]
    BY <1>1, <2>1 DEF TypeOK, StartCycle, AdminLookups, Grace, Scheduler, Phases
  <2> QED
    BY <1>1, <2>4 DEF TypeOK, StartCycle
<1>2. CASE ListExpiring(w)
  <2>1. NotSkipped(w, ExpiringBefore(sched[w].start)) \in SUBSET Instances
    BY DEF NotSkipped, ExpiringBefore
  <2> QED
    BY <1>2, <2>1, <1>0 DEF TypeOK, ListExpiring, Scheduler, Phases
<1>3. CASE ListOverdue(w)
  <2>1. NotSkipped(w, AwaitingReply(sched[w].start - sched[w].grace)) \in SUBSET Instances
    BY DEF NotSkipped, AwaitingReply
  <2> QED
    BY <1>3, <2>1, <1>0 DEF TypeOK, ListOverdue, Scheduler, Phases
<1>4. CASE EndCycle(w)
  BY <1>4, SetupTyped DEF TypeOK, EndCycle
<1>5. CASE CycleFails(w)
  BY <1>5, SetupTyped DEF TypeOK, CycleFails
<1>6. ASSUME NEW i \in Instances, MailWarning(w, i)
      PROVE  TypeOK'
  BY <1>0, <1>6 DEF TypeOK, MailWarning, Scheduler, Phases
<1>7. ASSUME NEW i \in Instances, MailFails(w, i)
      PROVE  TypeOK'
  <2>1. sched[w].start \in Int
    BY <1>0 DEF Scheduler
  <2>2. warned' \in [Instances -> SUBSET Int]
    BY <1>7, <2>1 DEF TypeOK, MailFails
  <2>3. sched' \in [Workers -> Scheduler]
    BY <1>0, <1>7 DEF TypeOK, MailFails, Scheduler
  <2> QED
    BY <1>7, <2>2, <2>3 DEF TypeOK, MailFails
<1>8. ASSUME NEW i \in Instances, RecordWarning(w, i)
      PROVE  TypeOK'
  <2>1. row' \in [Instances -> Row]
    BY <1>0, <1>8, UpdatesTyped DEF RecordWarning, Scheduler
  <2>2. sched' \in [Workers -> Scheduler]
    BY <1>0, <1>8 DEF TypeOK, RecordWarning, Scheduler
  <2> QED
    BY <1>8, <2>1, <2>2 DEF TypeOK, RecordWarning
<1>9. ASSUME NEW i \in Instances, ReapServer(w, i)
      PROVE  TypeOK'
  <2>1. sched' \in [Workers -> Scheduler]
    BY <1>0, <1>9 DEF TypeOK, ReapServer, Scheduler
  <2>2. reaped' \in [Instances -> SUBSET [start: Int, grace: Int]]
    BY <1>0, <1>9 DEF TypeOK, ReapServer, Scheduler
  <2> QED
    BY <1>9, <2>1, <2>2 DEF TypeOK, ReapServer
<1>10. ASSUME NEW i \in Instances, ReapFails(w, i)
       PROVE  TypeOK'
  BY <1>0, <1>10 DEF TypeOK, ReapFails, Scheduler
<1>11. ASSUME NEW i \in Instances, RecordReaped(w, i)
       PROVE  TypeOK'
  <2>1. row' \in [Instances -> Row]
    BY <1>11, UpdatesTyped, 0 \in Int DEF RecordReaped
  <2>2. sched' \in [Workers -> Scheduler]
    BY <1>0, <1>11 DEF TypeOK, RecordReaped, Scheduler
  <2> QED
    BY <1>11, <2>1, <2>2 DEF TypeOK, RecordReaped
<1> QED
  BY <1>1, <1>2, <1>3, <1>4, <1>5, <1>6, <1>7, <1>8, <1>9, <1>10, <1>11 DEF SchedulerNext

(* So does a step of a request, of an instance, of an administrator or of the
   clock. *)
LEMMA OthersTyped ==
  ASSUME TypeOK,
         \/ Tick
         \/ \E s \in Settings : PutSetting(s)
         \/ \E r \in Requests : RequestNext(r)
         \/ \E i \in Instances : InstanceNext(i)
  PROVE  TypeOK'
<1> USE DEF table, ghosts
<1>1. CASE Tick
  BY <1>1, LifecycleAssumption DEF TypeOK, Tick
<1>2. ASSUME NEW s \in Settings, PutSetting(s)
      PROVE  TypeOK'
  BY <1>2 DEF TypeOK, PutSetting
<1>3. ASSUME NEW r \in Requests, NEW i \in Instances, ReadForExtend(r, i)
      PROVE  TypeOK'
  <2>1. request' \in [Requests -> Request]
    BY <1>3, ExpiryTyped DEF TypeOK, ReadForExtend, Request
  <2> QED
    BY <1>3, <2>1 DEF TypeOK, ReadForExtend
<1>4. ASSUME NEW r \in Requests, NEW i \in Instances, ExtendRow(r, i)
      PROVE  TypeOK'
  <2>1. row' \in [Instances -> Row]
    BY <1>4, UpdatesTyped DEF TypeOK, ExtendRow, Request
  <2>2. extendedAt' \in [Instances -> Int]
    <3>1. [extendedAt EXCEPT ![i] = now] \in [Instances -> Int]
      BY DEF TypeOK
    <3> QED
      BY <1>4, <3>1 DEF TypeOK, ExtendRow
  <2>3. request' \in [Requests -> Request]
    BY <1>4, SetupTyped DEF TypeOK, ExtendRow
  <2> QED
    BY <1>4, <2>1, <2>2, <2>3 DEF TypeOK, ExtendRow
<1>5. ASSUME NEW i \in Instances, WriteRow(i)
      PROVE  TypeOK'
  <2>1. now + setting.lifetime \in Int
    BY LifecycleAssumption DEF TypeOK
  <2>2. [status |-> "none", expires |-> now + setting.lifetime,
         sentAt |-> 0, extended |-> FALSE] \in Row
    BY <2>1 DEF Row, Status
  <2>3. row' \in [Instances -> Row]
    BY <1>5, <2>2 DEF TypeOK, WriteRow
  <2> QED
    BY <1>5, <2>3 DEF TypeOK, WriteRow
<1>6. ASSUME NEW i \in Instances, DeleteServer(i)
      PROVE  TypeOK'
  BY <1>6 DEF TypeOK, DeleteServer
<1>7. ASSUME NEW i \in Instances, DropRow(i)
      PROVE  TypeOK'
  BY <1>7, SetupTyped DEF TypeOK, DropRow
<1> QED
  BY <1>1, <1>2, <1>3, <1>4, <1>5, <1>6, <1>7 DEF RequestNext, InstanceNext

(* Every variable keeps its type: TypeOK is inductive by itself. *)
THEOREM TypeCorrect == Spec => []TypeOK
<1>1. Init => TypeOK
  BY SetupTyped, LifecycleAssumption DEF Init, TypeOK
<1>2. TypeOK /\ [Next]_vars => TypeOK'
  <2>1. TypeOK /\ UNCHANGED vars => TypeOK'
    BY DEF vars, TypeOK
  <2> QED
    BY <2>1, SchedulerTyped, OthersTyped DEF Next
<1> QED
  BY <1>1, <1>2, PTL DEF Spec

-----------------------------------------------------------------------------
(* A scheduler acts on rows it has listed, in the stage that listed them, and
   its cycle did not begin in the future. *)
SchedulerSane ==
    \A w \in Workers :
        /\ sched[w].start <= now \/ sched[w].phase = "asleep"
        /\ sched[w].acting \subseteq sched[w].rows
        /\ sched[w].phase \in {"asleep", "started"} => sched[w].rows = {}

(* A status "sent" vouches for a delivered mail, so does a mail about to be
   recorded, and a row in line for deletion was warned about in time. *)
WarningTrail ==
    /\ \A i \in Instances : row[i].status = "sent" => row[i].sentAt \in warned[i]
    /\ \A w \in Workers : sched[w].phase = "warning" =>
          \A i \in sched[w].acting : sched[w].start \in warned[i]
    /\ \A w \in Workers : sched[w].phase = "deleting" =>
          \A i \in sched[w].rows :
              \E t \in warned[i] : t <= sched[w].start - sched[w].grace
    /\ WarnedBeforeReaped

(* An extended row keeps its flag, it is never inserted again, and a
   scheduler that has it in line for deletion began before the extension. *)
ExtensionTrail ==
    /\ \A i \in Instances : Present(i) => i \notin provisioning
    /\ \A i \in Instances : extendedAt[i] >= 0 =>
          /\ extendedAt[i] <= now
          /\ i \notin provisioning
          /\ Present(i) => row[i].extended
    /\ \A w \in Workers : sched[w].phase = "deleting" =>
          \A i \in sched[w].rows : extendedAt[i] >= 0 => sched[w].start <= extendedAt[i]
    /\ \A i \in Instances : \A cycle \in reaped[i] : cycle.start <= now
    /\ ExtensionHonoured

(* A recorded warning keeps the row out of "none" for good. *)
RecordTrail ==
    /\ \A i \in Instances : Present(i) => i \notin provisioning
    /\ \A w \in Workers : \A i \in recorded[w] :
          i \notin provisioning /\ row[i].status # "none"
    /\ \A w \in Workers : sched[w].phase = "warning" =>
          sched[w].rows \cap provisioning = {}
    /\ NoSecondWarning

LEMMA SaneStep ==
  ASSUME TypeOK, SchedulerSane, [Next]_vars
  PROVE  SchedulerSane'
<1> USE DEF table, ghosts, SchedulerSane
<1>0. \A w \in Workers : sched[w] \in Scheduler
  BY DEF TypeOK
<1>1. CASE UNCHANGED vars
  BY <1>1 DEF vars
<1>2. CASE Tick
  BY <1>2, <1>0 DEF Tick, TypeOK, Scheduler
<1>3. ASSUME NEW s \in Settings, PutSetting(s)
      PROVE  SchedulerSane'
  BY <1>3 DEF PutSetting
<1>4. ASSUME NEW r \in Requests, RequestNext(r)
      PROVE  SchedulerSane'
  BY <1>4 DEF RequestNext, ReadForExtend, ExtendRow
<1>5. ASSUME NEW i \in Instances, InstanceNext(i)
      PROVE  SchedulerSane'
  BY <1>5 DEF InstanceNext, WriteRow, DeleteServer, DropRow
<1>6. ASSUME NEW w \in Workers, SchedulerNext(w)
      PROVE  SchedulerSane'
  <2>1. CASE StartCycle(w)
    BY <2>1, <1>0 DEF StartCycle, TypeOK
  <2>2. CASE ListExpiring(w)
    BY <2>2, <1>0 DEF ListExpiring, TypeOK, Scheduler
  <2>6. CASE ListOverdue(w)
    BY <2>6, <1>0 DEF ListOverdue, TypeOK, Scheduler
  <2>3. CASE EndCycle(w) \/ CycleFails(w)
    BY <2>3, <1>0 DEF EndCycle, CycleFails, Asleep, TypeOK
  <2>4. ASSUME NEW i \in Instances, MailWarning(w, i)
        PROVE  SchedulerSane'
    BY <2>4, <1>0 DEF MailWarning, TypeOK, Scheduler
  <2>5. ASSUME NEW i \in Instances, MailFails(w, i)
        PROVE  SchedulerSane'
    BY <2>5, <1>0 DEF MailFails, TypeOK, Scheduler
  <2>7. ASSUME NEW i \in Instances, RecordWarning(w, i)
        PROVE  SchedulerSane'
    BY <2>7, <1>0 DEF RecordWarning, TypeOK, Scheduler
  <2>8. ASSUME NEW i \in Instances, ReapServer(w, i)
        PROVE  SchedulerSane'
    BY <2>8, <1>0 DEF ReapServer, TypeOK, Scheduler
  <2>9. ASSUME NEW i \in Instances, ReapFails(w, i)
        PROVE  SchedulerSane'
    BY <2>9, <1>0 DEF ReapFails, TypeOK, Scheduler
  <2>10. ASSUME NEW i \in Instances, RecordReaped(w, i)
        PROVE  SchedulerSane'
    BY <2>10, <1>0 DEF RecordReaped, TypeOK, Scheduler
  <2> QED
    BY <1>6, <2>1, <2>2, <2>3, <2>4, <2>5, <2>6, <2>7, <2>8, <2>9, <2>10 DEF SchedulerNext
<1> QED
  BY <1>1, <1>2, <1>3, <1>4, <1>5, <1>6 DEF Next

(* The warnings that went out stay on record. *)
LEMMA WarnedGrows ==
  ASSUME TypeOK, [Next]_vars, NEW i \in Instances
  PROVE  warned[i] \subseteq warned'[i]
<1> USE DEF ghosts
<1>1. ASSUME NEW w \in Workers, SchedulerNext(w)
      PROVE  warned[i] \subseteq warned'[i]
  <2>1. ASSUME NEW j \in Instances, MailWarning(w, j) \/ MailFails(w, j)
        PROVE  warned[i] \subseteq warned'[i]
    BY <2>1 DEF MailWarning, MailFails, TypeOK
  <2> QED
    BY <1>1, <2>1 DEF SchedulerNext, StartCycle, ListExpiring, ListOverdue, EndCycle,
                      CycleFails, RecordWarning, ReapServer, ReapFails, RecordReaped
<1> QED
  BY <1>1 DEF Next, vars, Tick, PutSetting, RequestNext, ReadForExtend, ExtendRow,
              InstanceNext, WriteRow, DeleteServer, DropRow

LEMMA WarningStep ==
  ASSUME TypeOK, SchedulerSane, WarningTrail, [Next]_vars
  PROVE  WarningTrail'
<1> USE DEF table, ghosts, SchedulerSane
<1>0. \A w \in Workers : sched[w] \in Scheduler
  BY DEF TypeOK
<1>g. \A i \in Instances : warned[i] \subseteq warned'[i]
  BY WarnedGrows
<1>1. CASE UNCHANGED vars
  BY <1>1 DEF vars, WarningTrail, WarnedBeforeReaped
<1>2. CASE Tick
  BY <1>2 DEF Tick, WarningTrail, WarnedBeforeReaped
<1>3. ASSUME NEW s \in Settings, PutSetting(s)
      PROVE  WarningTrail'
  BY <1>3 DEF PutSetting, WarningTrail, WarnedBeforeReaped
<1>4. ASSUME NEW r \in Requests, NEW i \in Instances, ReadForExtend(r, i)
      PROVE  WarningTrail'
  BY <1>4 DEF ReadForExtend, WarningTrail, WarnedBeforeReaped
<1>5. ASSUME NEW r \in Requests, NEW i \in Instances, ExtendRow(r, i)
      PROVE  WarningTrail'
  <2>1. \A j \in Instances : row'[j].status = "sent" =>
            row[j].status = "sent" /\ row'[j].sentAt = row[j].sentAt
    BY <1>5 DEF ExtendRow, UpdateExtended, TypeOK, Row
  <2> QED
    BY <1>5, <2>1 DEF ExtendRow, WarningTrail, WarnedBeforeReaped
<1>6. ASSUME NEW i \in Instances, InstanceNext(i)
      PROVE  WarningTrail'
  <2>1. \A j \in Instances : row'[j].status = "sent" =>
            row[j].status = "sent" /\ row'[j].sentAt = row[j].sentAt
    BY <1>6 DEF InstanceNext, WriteRow, DeleteServer, DropRow, TypeOK, NoRow
  <2>2. UNCHANGED <<sched, warned, reaped>>
    BY <1>6 DEF InstanceNext, WriteRow, DeleteServer, DropRow
  <2> QED
    BY <2>1, <2>2 DEF WarningTrail, WarnedBeforeReaped
<1>7. ASSUME NEW w \in Workers, SchedulerNext(w)
      PROVE  WarningTrail'
  <2>1. CASE StartCycle(w)
    BY <2>1, <1>0 DEF StartCycle, TypeOK, WarningTrail, WarnedBeforeReaped
  <2>2. CASE ListExpiring(w)
    BY <2>2, <1>0 DEF ListExpiring, TypeOK, Scheduler, WarningTrail, WarnedBeforeReaped
  <2>3. CASE ListOverdue(w)
    <3>1. \A i \in sched'[w].rows :
              \E t \in warned[i] : t <= sched[w].start - sched[w].grace
      BY <2>3, <1>0 DEF ListOverdue, NotSkipped, AwaitingReply, TypeOK, Scheduler, WarningTrail
    <3> QED
      BY <2>3, <3>1, <1>0 DEF ListOverdue, TypeOK, Scheduler, WarningTrail, WarnedBeforeReaped
  <2>4. CASE EndCycle(w) \/ CycleFails(w)
    BY <2>4, <1>0 DEF EndCycle, CycleFails, Asleep, TypeOK, WarningTrail, WarnedBeforeReaped
  <2>5. ASSUME NEW i \in Instances, MailWarning(w, i)
        PROVE  WarningTrail'
    <3>1. sched[w].start \in warned'[i]
      BY <2>5 DEF MailWarning, TypeOK
    <3>2. UNCHANGED <<row, reaped>>
      BY <2>5 DEF MailWarning
    <3>3. sched' = [sched EXCEPT ![w].acting = {i}] /\ sched[w].phase = "warning"
      BY <2>5 DEF MailWarning
    <3> QED
      BY <3>1, <3>2, <3>3, <1>0, <1>g DEF TypeOK, Scheduler, WarningTrail, WarnedBeforeReaped
  <2>6. ASSUME NEW i \in Instances, MailFails(w, i)
        PROVE  WarningTrail'
    <3>1. /\ sched' = [sched EXCEPT ![w].rows = @ \ {i}] /\ sched[w].phase = "warning"
          /\ sched[w].acting = {} /\ UNCHANGED <<row, reaped>>
      BY <2>6 DEF MailFails
    <3> QED
      BY <3>1, <1>0, <1>g DEF TypeOK, Scheduler, WarningTrail, WarnedBeforeReaped
  <2>7. ASSUME NEW i \in Instances, RecordWarning(w, i)
        PROVE  WarningTrail'
    <3>1. \A j \in Instances : row'[j].status = "sent" => row'[j].sentAt \in warned[j]
      BY <2>7, <1>0 DEF RecordWarning, UpdateEmailSent, TypeOK, Row, Scheduler, WarningTrail
    <3> QED
      BY <2>7, <3>1, <1>0 DEF RecordWarning, TypeOK, Scheduler, WarningTrail, WarnedBeforeReaped
  <2>8. ASSUME NEW i \in Instances, ReapServer(w, i)
        PROVE  WarningTrail'
    <3>1. /\ sched' = [sched EXCEPT ![w].acting = {i}] /\ sched[w].phase = "deleting"
          /\ i \in sched[w].rows /\ UNCHANGED <<row, warned>>
          /\ reaped' = [reaped EXCEPT ![i] = @ \cup {[start |-> sched[w].start,
                                                     grace |-> sched[w].grace]}]
      BY <2>8 DEF ReapServer
    <3>2. \E t \in warned[i] : t <= sched[w].start - sched[w].grace
      BY <3>1 DEF WarningTrail
    <3>3. WarnedBeforeReaped'
      BY <3>1, <3>2 DEF TypeOK, WarningTrail, WarnedBeforeReaped
    <3> QED
      BY <3>1, <3>3, <1>0 DEF TypeOK, Scheduler, WarningTrail
  <2>9. ASSUME NEW i \in Instances, ReapFails(w, i)
        PROVE  WarningTrail'
    BY <2>9, <1>0 DEF ReapFails, TypeOK, Scheduler, WarningTrail, WarnedBeforeReaped
  <2>10. ASSUME NEW i \in Instances, RecordReaped(w, i)
         PROVE  WarningTrail'
    <3>1. \A j \in Instances : row'[j].status = "sent" =>
              row[j].status = "sent" /\ row'[j].sentAt = row[j].sentAt
      BY <2>10 DEF RecordReaped, UpdateDeleted, TypeOK, Row
    <3> QED
      BY <2>10, <3>1, <1>0 DEF RecordReaped, TypeOK, Scheduler, WarningTrail, WarnedBeforeReaped
  <2> QED
    BY <1>7, <2>1, <2>2, <2>3, <2>4, <2>5, <2>6, <2>7, <2>8, <2>9, <2>10 DEF SchedulerNext
<1> QED
  BY <1>1, <1>2, <1>3, <1>4, <1>5, <1>6, <1>7 DEF Next, RequestNext

LEMMA TrailsAtStart == Init => SchedulerSane /\ WarningTrail
  BY DEF Init, Asleep, NoRow, SchedulerSane, WarningTrail, WarnedBeforeReaped

(* A scheduler deletes an instance only if its owner was warned by a cycle
   that began at least the reply deadline before: the deletion trusts the
   row's status, and the status vouches for the mail. *)
THEOREM NoReapWithoutWarning == Spec => []WarnedBeforeReaped
<1>1. TypeOK /\ SchedulerSane /\ WarningTrail /\ [Next]_vars
        => (SchedulerSane /\ WarningTrail)'
  BY SaneStep, WarningStep
<1>2. WarningTrail => WarnedBeforeReaped
  BY DEF WarningTrail
<1> QED
  BY <1>1, <1>2, TrailsAtStart, TypeCorrect, PTL DEF Spec

-----------------------------------------------------------------------------
(* The admin project's instances never get a row, so no listing has them, with
   or without the project's id. *)
AdminTrail ==
    /\ \A i \in AdminInstances : ~Present(i)
    /\ \A w \in Workers : sched[w].rows \cap AdminInstances = {}
    /\ AdminExempt

LEMMA RowsStayAway ==
  ASSUME TypeOK, AdminTrail, [Next]_vars, NEW i \in AdminInstances
  PROVE  row'[i].status = "absent"
<1> USE DEF table, ghosts
<1>1. i \in Instances /\ row[i].status = "absent"
  BY LifecycleAssumption DEF AdminTrail, Present
<1>2. ASSUME NEW j \in Instances, NEW t,
             UpdateEmailSent(j, t) \/ UpdateExtended(j, t) \/ UpdateDeleted(j)
      PROVE  row'[i] = row[i]
  BY <1>1, <1>2 DEF UpdateEmailSent, UpdateExtended, UpdateDeleted, Present, TypeOK
<1>3. ASSUME NEW j \in Instances, InstanceNext(j)
      PROVE  row'[i].status = "absent"
  BY <1>1, <1>3 DEF InstanceNext, WriteRow, GetsRow, DeleteServer, DropRow, NoRow, TypeOK
<1>4. ASSUME NEW w \in Workers, SchedulerNext(w)
      PROVE  row'[i] = row[i]
  BY <1>2, <1>4 DEF SchedulerNext, StartCycle, ListExpiring, ListOverdue, EndCycle, CycleFails,
                    MailWarning, MailFails, RecordWarning, ReapServer, ReapFails, RecordReaped
<1>5. ASSUME NEW r \in Requests, RequestNext(r)
      PROVE  row'[i] = row[i]
  BY <1>2, <1>5 DEF RequestNext, ReadForExtend, ExtendRow
<1> QED
  BY <1>1, <1>3, <1>4, <1>5 DEF Next, vars, Tick, PutSetting

LEMMA AdminStep ==
  ASSUME TypeOK, AdminTrail, [Next]_vars
  PROVE  AdminTrail'
<1> USE DEF table, ghosts
<1>1. \A i \in AdminInstances : ~Present(i)'
  BY RowsStayAway DEF Present
<1>2. ASSUME UNCHANGED <<sched, warned, reaped>>
      PROVE  AdminTrail'
  BY <1>1, <1>2 DEF AdminTrail, AdminExempt
<1>3. ASSUME NEW w \in Workers, SchedulerNext(w)
      PROVE  AdminTrail'
  <2>0. /\ sched[w] \in Scheduler /\ sched \in [Workers -> Scheduler]
        /\ sched[w].rows \cap AdminInstances = {}
    BY DEF TypeOK, AdminTrail
  <2>1. \A v \in Workers : sched'[v].rows \cap AdminInstances = {}
    <3>1. \A v \in Workers \ {w} : sched'[v] = sched[v]
      BY <1>3, <2>0 DEF SchedulerNext, StartCycle, ListExpiring, ListOverdue, EndCycle, CycleFails,
             MailWarning, MailFails, RecordWarning, ReapServer, ReapFails, RecordReaped
    <3>2. CASE ListExpiring(w)
      <4>1. ExpiringBefore(sched[w].start) \cap AdminInstances = {}
        BY DEF ExpiringBefore, AdminTrail
      <4>2. sched'[w].rows = NotSkipped(w, ExpiringBefore(sched[w].start))
        BY <3>2, <2>0 DEF ListExpiring, Scheduler
      <4> QED
        BY <3>1, <4>1, <4>2 DEF AdminTrail, NotSkipped
    <3>3. CASE ListOverdue(w)
      <4> DEFINE deadline == sched[w].start - sched[w].grace
      <4>1. AwaitingReply(deadline) \cap AdminInstances = {}
        BY DEF AwaitingReply, AdminTrail, Present
      <4>2. sched'[w].rows = NotSkipped(w, AwaitingReply(deadline))
        BY <3>3, <2>0 DEF ListOverdue, Scheduler
      <4> QED
        BY <3>1, <4>1, <4>2 DEF AdminTrail, NotSkipped
    <3>4. CASE ~ListExpiring(w) /\ ~ListOverdue(w)
      <4>1. sched'[w].rows \subseteq sched[w].rows
        <5>1. CASE StartCycle(w) \/ EndCycle(w) \/ CycleFails(w)
          BY <2>0, <5>1 DEF StartCycle, EndCycle, CycleFails, Asleep
        <5>2. ASSUME NEW i \in Instances,
                     MailWarning(w, i) \/ MailFails(w, i) \/ ReapServer(w, i) \/ ReapFails(w, i)
              PROVE  sched'[w].rows \subseteq sched[w].rows
          BY <2>0, <5>2 DEF MailWarning, MailFails, ReapServer, ReapFails, Scheduler
        <5>3. ASSUME NEW i \in Instances, RecordWarning(w, i) \/ RecordReaped(w, i)
              PROVE  sched'[w].rows \subseteq sched[w].rows
          BY <2>0, <5>3 DEF RecordWarning, RecordReaped, Scheduler
        <5> QED
          BY <1>3, <3>4, <5>1, <5>2, <5>3 DEF SchedulerNext
      <4> QED
        BY <2>0, <3>1, <4>1 DEF AdminTrail
    <3> QED
      BY <3>2, <3>3, <3>4
  <2>2. ASSUME NEW i \in AdminInstances
        PROVE  warned'[i] = warned[i] /\ reaped'[i] = reaped[i]
    <3>1. i \in Instances /\ i \notin sched[w].rows
      BY <2>0, LifecycleAssumption
    <3> QED
      BY <1>3, <3>1 DEF SchedulerNext, StartCycle, ListExpiring, ListOverdue, EndCycle, CycleFails,
           MailWarning, MailFails, RecordWarning, ReapServer, ReapFails, RecordReaped, TypeOK
  <2> QED
    BY <1>1, <2>1, <2>2 DEF AdminTrail, AdminExempt
<1>4. CASE UNCHANGED vars
  BY <1>2, <1>4 DEF vars
<1>5. ASSUME \/ Tick
             \/ \E s \in Settings : PutSetting(s)
             \/ \E r \in Requests : RequestNext(r)
             \/ \E i \in Instances : InstanceNext(i)
      PROVE  UNCHANGED <<sched, warned, reaped>>
  BY <1>5 DEF Tick, PutSetting, RequestNext, ReadForExtend, ExtendRow, InstanceNext, WriteRow,
              DeleteServer, DropRow
<1> QED
  BY <1>2, <1>3, <1>4, <1>5 DEF Next

(* An instance of the admin project is neither mailed about nor deleted: what
   keeps it out is that it has no row, and not the schedulers' look at the
   project's id, which fails when Keystone does. *)
THEOREM AdminNeverTouched == Spec => []AdminExempt
<1>1. Init => AdminTrail
  BY LifecycleAssumption DEF Init, AdminTrail, AdminExempt, Present, NoRow, Asleep
<1>2. AdminTrail => AdminExempt
  BY DEF AdminTrail
<1> QED
  BY <1>1, <1>2, AdminStep, TypeCorrect, PTL DEF Spec

-----------------------------------------------------------------------------
LEMMA ExtensionStep ==
  ASSUME TypeOK, SchedulerSane, ExtensionTrail, [Next]_vars
  PROVE  ExtensionTrail'
<1> USE DEF table, ghosts, Present
<1>0. \A w \in Workers : sched[w] \in Scheduler
  BY DEF TypeOK
<1>1. CASE UNCHANGED vars
  BY <1>1 DEF vars, ExtensionTrail, ExtensionHonoured
<1>2. CASE Tick
  BY <1>2 DEF Tick, TypeOK, ExtensionTrail, ExtensionHonoured
<1>3. ASSUME NEW s \in Settings, PutSetting(s)
      PROVE  ExtensionTrail'
  BY <1>3 DEF PutSetting, ExtensionTrail, ExtensionHonoured
<1>4. ASSUME NEW r \in Requests, NEW i \in Instances, ReadForExtend(r, i)
      PROVE  ExtensionTrail'
  BY <1>4 DEF ReadForExtend, ExtensionTrail, ExtensionHonoured
<1>5. ASSUME NEW r \in Requests, NEW i \in Instances, ExtendRow(r, i)
      PROVE  ExtensionTrail'
  <2>1. /\ \A j \in Instances : j # i => row'[j] = row[j]
        /\ row'[i].status # "absent" => row[i].status # "absent" /\ row'[i].extended
    BY <1>5 DEF ExtendRow, UpdateExtended, TypeOK, Row
  <2>2. /\ \A j \in Instances : \/ extendedAt'[j] = extendedAt[j]
                                \/ j = i /\ extendedAt[j] = -1 /\ extendedAt'[j] = now
        /\ extendedAt'[i] # extendedAt[i] => row[i].status # "absent"
    <3>1. CASE row[i].status # "absent" /\ extendedAt[i] = -1
      <4>1. extendedAt' = [extendedAt EXCEPT ![i] = now]
        BY <1>5, <3>1 DEF ExtendRow
      <4> QED
        BY <3>1, <4>1 DEF TypeOK
    <3>2. CASE ~(row[i].status # "absent" /\ extendedAt[i] = -1)
      <4>1. extendedAt' = extendedAt
        BY <1>5, <3>2 DEF ExtendRow
      <4> QED
        BY <4>1
    <3> QED
      BY <3>1, <3>2
  <2>3. UNCHANGED <<now, provisioning, sched, reaped>>
    BY <1>5 DEF ExtendRow
  <2>4. \A w \in Workers : sched[w].phase = "deleting" => sched[w].start <= now
    BY DEF SchedulerSane
  <2>5. \A j \in Instances : row'[j].status # "absent" => j \notin provisioning'
    BY <2>1, <2>3 DEF ExtensionTrail
  <2>6. ASSUME NEW j \in Instances, extendedAt'[j] >= 0
        PROVE  /\ extendedAt'[j] <= now' /\ j \notin provisioning'
               /\ row'[j].status # "absent" => row'[j].extended
    <3>1. CASE extendedAt'[j] = extendedAt[j]
      <4>1. /\ extendedAt[j] <= now /\ j \notin provisioning
            /\ row[j].status # "absent" => row[j].extended
        BY <2>6, <3>1 DEF ExtensionTrail
      <4> QED
        BY <2>1, <2>3, <3>1, <4>1
    <3>2. CASE extendedAt'[j] # extendedAt[j]
      BY <2>1, <2>2, <2>3, <3>2 DEF ExtensionTrail, TypeOK
    <3> QED
      BY <3>1, <3>2
  <2>7. ASSUME NEW w \in Workers, sched'[w].phase = "deleting", NEW j \in sched'[w].rows,
               extendedAt'[j] >= 0
        PROVE  sched'[w].start <= extendedAt'[j]
    <3>1. j \in Instances
      BY <1>0, <2>3 DEF Scheduler
    <3>2. CASE extendedAt'[j] = extendedAt[j]
      BY <2>3, <2>7, <3>2 DEF ExtensionTrail
    <3>3. CASE extendedAt'[j] # extendedAt[j]
      BY <2>2, <2>3, <2>4, <2>7, <3>1, <3>3
    <3> QED
      BY <3>2, <3>3
  <2>8. /\ \A j \in Instances : \A cycle \in reaped'[j] : cycle.start <= now'
        /\ ExtensionHonoured'
    BY <2>2, <2>3 DEF ExtensionTrail, ExtensionHonoured
  <2> QED
    BY <2>5, <2>6, <2>7, <2>8 DEF ExtensionTrail
<1>6. ASSUME NEW i \in Instances, WriteRow(i)
      PROVE  ExtensionTrail'
  <2>1. /\ \A j \in Instances : j # i => row'[j] = row[j]
        /\ i \in provisioning /\ provisioning' = provisioning \ {i}
        /\ UNCHANGED <<now, sched, reaped, extendedAt>>
    BY <1>6 DEF WriteRow, TypeOK
  <2>2. \A j \in Instances : row'[j].status # "absent" => j \notin provisioning'
    BY <2>1 DEF ExtensionTrail
  <2>3. \A j \in Instances : extendedAt'[j] >= 0 =>
           /\ extendedAt'[j] <= now' /\ j \notin provisioning'
           /\ row'[j].status # "absent" => row'[j].extended
    BY <2>1 DEF ExtensionTrail
  <2> QED
    BY <2>1, <2>2, <2>3 DEF ExtensionTrail, ExtensionHonoured
<1>7. ASSUME NEW i \in Instances, DeleteServer(i)
      PROVE  ExtensionTrail'
  BY <1>7 DEF DeleteServer, ExtensionTrail, ExtensionHonoured
<1>8. ASSUME NEW i \in Instances, DropRow(i)
      PROVE  ExtensionTrail'
  <2>1. /\ \A j \in Instances : j # i => row'[j] = row[j]
        /\ row'[i].status = "absent"
        /\ UNCHANGED <<now, provisioning, sched, reaped, extendedAt>>
    BY <1>8 DEF DropRow, NoRow, TypeOK
  <2> QED
    BY <2>1 DEF ExtensionTrail, ExtensionHonoured
<1>9. ASSUME NEW w \in Workers, SchedulerNext(w)
      PROVE  ExtensionTrail'
  <2>1. CASE StartCycle(w)
    BY <2>1, <1>0 DEF StartCycle, TypeOK, ExtensionTrail, ExtensionHonoured
  <2>2. CASE ListExpiring(w)
    BY <2>2, <1>0 DEF ListExpiring, TypeOK, Scheduler, ExtensionTrail, ExtensionHonoured
  <2>3. CASE ListOverdue(w)
    <3>1. \A i \in sched'[w].rows : extendedAt[i] < 0
      BY <2>3, <1>0 DEF ListOverdue, NotSkipped, AwaitingReply, TypeOK, Scheduler,
                        ExtensionTrail
    <3>2. /\ \A v \in Workers : v # w => sched'[v] = sched[v]
          /\ sched'[w].start = sched[w].start /\ sched'[w].rows \subseteq Instances
          /\ UNCHANGED <<now, row, provisioning, reaped, extendedAt>>
      BY <2>3, <1>0 DEF ListOverdue, NotSkipped, AwaitingReply, TypeOK, Scheduler
    <3> QED
      BY <3>1, <3>2, <1>0 DEF TypeOK, Scheduler, ExtensionTrail, ExtensionHonoured
  <2>4. CASE EndCycle(w) \/ CycleFails(w)
    BY <2>4, <1>0 DEF EndCycle, CycleFails, Asleep, TypeOK, ExtensionTrail, ExtensionHonoured
  <2>5. ASSUME NEW i \in Instances, MailWarning(w, i)
        PROVE  ExtensionTrail'
    BY <2>5, <1>0 DEF MailWarning, TypeOK, Scheduler, ExtensionTrail, ExtensionHonoured
  <2>6. ASSUME NEW i \in Instances, MailFails(w, i)
        PROVE  ExtensionTrail'
    BY <2>6, <1>0 DEF MailFails, TypeOK, Scheduler, ExtensionTrail, ExtensionHonoured
  <2>7. ASSUME NEW i \in Instances, RecordWarning(w, i)
        PROVE  ExtensionTrail'
    <3>1. \A j \in Instances : /\ row'[j].status = "absent" <=> row[j].status = "absent"
                                /\ row'[j].extended = row[j].extended
      BY <2>7, <1>0 DEF RecordWarning, UpdateEmailSent, TypeOK, Row, Scheduler
    <3> QED
      BY <2>7, <3>1, <1>0 DEF RecordWarning, TypeOK, Scheduler, ExtensionTrail,
                              ExtensionHonoured
  <2>8. ASSUME NEW i \in Instances, ReapServer(w, i)
        PROVE  ExtensionTrail'
    <3>1. /\ sched' = [sched EXCEPT ![w].acting = {i}] /\ sched[w].phase = "deleting"
          /\ i \in sched[w].rows /\ UNCHANGED <<now, row, provisioning, extendedAt>>
          /\ reaped' = [reaped EXCEPT ![i] = @ \cup {[start |-> sched[w].start,
                                                     grace |-> sched[w].grace]}]
      BY <2>8 DEF ReapServer
    <3>2. sched[w].start <= now
      BY <3>1 DEF SchedulerSane
    <3>3. \A j \in Instances : \A cycle \in reaped'[j] :
              cycle.start <= now /\ (extendedAt[j] >= 0 => cycle.start <= extendedAt[j])
      BY <3>1, <3>2 DEF TypeOK, ExtensionTrail, ExtensionHonoured
    <3> QED
      BY <3>1, <3>3, <1>0 DEF TypeOK, Scheduler, ExtensionTrail, ExtensionHonoured
  <2>9. ASSUME NEW i \in Instances, ReapFails(w, i)
        PROVE  ExtensionTrail'
    BY <2>9, <1>0 DEF ReapFails, TypeOK, Scheduler, ExtensionTrail, ExtensionHonoured
  <2>10. ASSUME NEW i \in Instances, RecordReaped(w, i)
         PROVE  ExtensionTrail'
    <3>1. \A j \in Instances : /\ row'[j].status = "absent" <=> row[j].status = "absent"
                                /\ row'[j].extended = row[j].extended
      BY <2>10 DEF RecordReaped, UpdateDeleted, TypeOK, Row
    <3> QED
      BY <2>10, <3>1, <1>0 DEF RecordReaped, TypeOK, Scheduler, ExtensionTrail,
                               ExtensionHonoured
  <2> QED
    BY <1>9, <2>1, <2>2, <2>3, <2>4, <2>5, <2>6, <2>7, <2>8, <2>9, <2>10 DEF SchedulerNext
<1> QED
  BY <1>1, <1>2, <1>3, <1>4, <1>5, <1>6, <1>7, <1>8, <1>9
     DEF Next, RequestNext, InstanceNext

LEMMA ExtensionAtStart == Init => ExtensionTrail
  BY DEF Init, NoRow, Asleep, Present, ExtensionTrail, ExtensionHonoured

(* No cycle that begins on a later day than an extension deletes the
   instance: the flag survives every overwriting of the status. *)
THEOREM ExtensionsAreHonoured == Spec => []ExtensionHonoured
<1>1. TypeOK /\ SchedulerSane /\ ExtensionTrail /\ [Next]_vars
        => (SchedulerSane /\ ExtensionTrail)'
  BY SaneStep, ExtensionStep
<1>2. ExtensionTrail => ExtensionHonoured
  BY DEF ExtensionTrail
<1>3. Init => SchedulerSane /\ ExtensionTrail
  BY TrailsAtStart, ExtensionAtStart
<1> QED
  BY <1>1, <1>2, <1>3, TypeCorrect, PTL DEF Spec

-----------------------------------------------------------------------------
LEMMA RecordStep ==
  ASSUME TypeOK, SchedulerSane, RecordTrail, [Next]_vars
  PROVE  RecordTrail'
<1> USE DEF table, ghosts, Present
<1>0. /\ \A w \in Workers : sched[w] \in Scheduler
      /\ \A w \in Workers : recorded[w] \subseteq Instances
  BY DEF TypeOK
<1>1. CASE UNCHANGED vars
  BY <1>1 DEF vars, RecordTrail, NoSecondWarning
<1>2. CASE Tick \/ \E s \in Settings : PutSetting(s)
  BY <1>2 DEF Tick, PutSetting, RecordTrail, NoSecondWarning
<1>3. ASSUME NEW r \in Requests, RequestNext(r)
      PROVE  RecordTrail'
  <2>1. /\ \A j \in Instances : \/ row'[j] = row[j]
                                \/ /\ row'[j].status = "extended"
                                   /\ row[j].status # "absent"
        /\ UNCHANGED <<provisioning, sched, recorded>>
    <3>1. ASSUME NEW i \in Instances, ReadForExtend(r, i)
          PROVE  UNCHANGED <<row, provisioning, sched, recorded>>
      BY <3>1 DEF ReadForExtend
    <3>2. ASSUME NEW i \in Instances, ExtendRow(r, i)
          PROVE  /\ UNCHANGED <<provisioning, sched, recorded>>
                 /\ \A j \in Instances : j # i => row'[j] = row[j]
                 /\ row[i].status = "absent" => row'[i] = row[i]
                 /\ row[i].status # "absent" => row'[i].status = "extended"
      <4>1. CASE row[i].status = "absent"
        BY <3>2, <4>1 DEF ExtendRow, UpdateExtended
      <4>2. CASE row[i].status # "absent"
        BY <3>2, <4>2 DEF ExtendRow, UpdateExtended, TypeOK, Row
      <4> QED
        BY <4>1, <4>2
    <3> QED
      BY <1>3, <3>1, <3>2 DEF RequestNext
  <2> QED
    BY <2>1, <1>0 DEF RecordTrail, NoSecondWarning
<1>4. ASSUME NEW i \in Instances, InstanceNext(i)
      PROVE  RecordTrail'
  <2>1. CASE WriteRow(i)
    <3>1. /\ \A j \in Instances : j # i => row'[j] = row[j]
          /\ i \in provisioning /\ provisioning' = provisioning \ {i}
          /\ UNCHANGED <<sched, recorded>>
      BY <2>1 DEF WriteRow, TypeOK
    <3> QED
      BY <3>1, <1>0 DEF RecordTrail, NoSecondWarning
  <2>2. CASE DeleteServer(i)
    BY <2>2 DEF DeleteServer, RecordTrail, NoSecondWarning
  <2>3. CASE DropRow(i)
    <3>1. /\ \A j \in Instances : row'[j] = row[j] \/ row'[j].status = "absent"
          /\ UNCHANGED <<provisioning, sched, recorded>>
      BY <2>3 DEF DropRow, NoRow, TypeOK
    <3> QED
      BY <3>1, <1>0 DEF RecordTrail, NoSecondWarning
  <2> QED
    BY <1>4, <2>1, <2>2, <2>3 DEF InstanceNext
<1>5. ASSUME NEW w \in Workers, SchedulerNext(w)
      PROVE  RecordTrail'
  <2>1. CASE StartCycle(w)
    BY <2>1, <1>0 DEF StartCycle, TypeOK, RecordTrail, NoSecondWarning
  <2>2. CASE ListExpiring(w)
    <3>1. \A i \in sched'[w].rows : /\ i \in Instances /\ i \notin provisioning
                                    /\ i \notin recorded[w]
      BY <2>2, <1>0 DEF ListExpiring, NotSkipped, ExpiringBefore, TypeOK, Scheduler, RecordTrail
    <3>2. /\ \A v \in Workers : v # w => sched'[v] = sched[v]
          /\ UNCHANGED <<row, provisioning, recorded>>
      BY <2>2, <1>0 DEF ListExpiring, TypeOK
    <3> QED
      BY <3>1, <3>2, <1>0 DEF RecordTrail, NoSecondWarning
  <2>3. CASE ListOverdue(w)
    BY <2>3, <1>0 DEF ListOverdue, TypeOK, Scheduler, RecordTrail, NoSecondWarning
  <2>4. CASE EndCycle(w) \/ CycleFails(w)
    BY <2>4, <1>0 DEF EndCycle, CycleFails, Asleep, TypeOK, RecordTrail, NoSecondWarning
  <2>5. ASSUME NEW i \in Instances, MailWarning(w, i)
        PROVE  RecordTrail'
    BY <2>5, <1>0 DEF MailWarning, TypeOK, Scheduler, RecordTrail, NoSecondWarning
  <2>6. ASSUME NEW i \in Instances, MailFails(w, i)
        PROVE  RecordTrail'
    BY <2>6, <1>0 DEF MailFails, TypeOK, Scheduler, RecordTrail, NoSecondWarning
  <2>7. ASSUME NEW i \in Instances, RecordWarning(w, i)
        PROVE  RecordTrail'
    <3>1. /\ \A j \in Instances : j # i => row'[j] = row[j]
          /\ row'[i].status \in {"sent", "absent"}
          /\ row'[i].status # "absent" => row[i].status # "absent"
      BY <2>7, <1>0 DEF RecordWarning, UpdateEmailSent, TypeOK, Row, Scheduler
    <3>2. /\ sched' = [sched EXCEPT ![w].rows = @ \ {i}, ![w].acting = {}]
          /\ recorded' = [recorded EXCEPT ![w] = @ \cup {i}]
          /\ UNCHANGED provisioning
      BY <2>7 DEF RecordWarning
    <3>3. i \notin provisioning
      BY <2>7 DEF RecordWarning, SchedulerSane, RecordTrail
    <3> QED
      <4>1. \A j \in Instances : Present(j)' => j \notin provisioning'
        BY <3>1, <3>2, <3>3 DEF RecordTrail
      <4>2. \A v \in Workers : \A j \in recorded'[v] :
               j \notin provisioning' /\ row'[j].status # "none"
        BY <3>1, <3>2, <3>3, <1>0 DEF TypeOK, RecordTrail
      <4>3. \A v \in Workers : sched'[v].phase = "warning" =>
               sched'[v].rows \cap provisioning' = {} /\ sched'[v].rows \cap recorded'[v] = {}
        BY <3>2, <1>0 DEF TypeOK, Scheduler, RecordTrail, NoSecondWarning
      <4> QED
        BY <4>1, <4>2, <4>3 DEF RecordTrail, NoSecondWarning
  <2>8. ASSUME NEW i \in Instances, ReapServer(w, i)
        PROVE  RecordTrail'
    BY <2>8, <1>0 DEF ReapServer, TypeOK, Scheduler, RecordTrail, NoSecondWarning
  <2>9. ASSUME NEW i \in Instances, ReapFails(w, i)
        PROVE  RecordTrail'
    BY <2>9, <1>0 DEF ReapFails, TypeOK, Scheduler, RecordTrail, NoSecondWarning
  <2>10. ASSUME NEW i \in Instances, RecordReaped(w, i)
         PROVE  RecordTrail'
    <3>1. \A j \in Instances : /\ row'[j].status = "absent" <=> row[j].status = "absent"
                              /\ row'[j].status = "none" => row[j].status = "none"
      BY <2>10 DEF RecordReaped, UpdateDeleted, TypeOK, Row
    <3> QED
      BY <2>10, <3>1, <1>0 DEF RecordReaped, TypeOK, Scheduler, RecordTrail, NoSecondWarning
  <2> QED
    BY <1>5, <2>1, <2>2, <2>3, <2>4, <2>5, <2>6, <2>7, <2>8, <2>9, <2>10 DEF SchedulerNext
<1> QED
  BY <1>1, <1>2, <1>3, <1>4, <1>5 DEF Next

(* A scheduler never has an instance in line for a second warning once it has
   recorded the first, whatever the other schedulers and the users write. *)
THEOREM OneWarningPerScheduler == Spec => []NoSecondWarning
<1>1. TypeOK /\ SchedulerSane /\ RecordTrail /\ [Next]_vars => (SchedulerSane /\ RecordTrail)'
  BY SaneStep, RecordStep
<1>2. RecordTrail => NoSecondWarning
  BY DEF RecordTrail
<1>3. Init => SchedulerSane /\ RecordTrail
  BY TrailsAtStart DEF Init, NoRow, Asleep, Present, RecordTrail, NoSecondWarning
<1> QED
  BY <1>1, <1>2, <1>3, TypeCorrect, PTL DEF Spec

-----------------------------------------------------------------------------
(* Servers do not come back; a scheduler about to write "deleted" has had the
   server deleted, and nothing else writes it. *)
ClosedTrail ==
    /\ \A w \in Workers : sched[w].phase = "deleting" => sched[w].acting \cap active = {}
    /\ ClosedIsGone

LEMMA ServersOnlyGo ==
  ASSUME [Next]_vars
  PROVE  active' \subseteq active
<1> USE DEF table, ghosts
<1>1. ASSUME NEW w \in Workers, SchedulerNext(w)
      PROVE  active' \subseteq active
  BY <1>1 DEF SchedulerNext, StartCycle, ListExpiring, ListOverdue, EndCycle, CycleFails,
              MailWarning, MailFails, RecordWarning, ReapServer, ReapFails, RecordReaped
<1> QED
  BY <1>1 DEF Next, vars, Tick, PutSetting, RequestNext, ReadForExtend, ExtendRow,
              InstanceNext, WriteRow, DeleteServer, DropRow

LEMMA ClosedStep ==
  ASSUME TypeOK, SchedulerSane, ClosedTrail, [Next]_vars
  PROVE  ClosedTrail'
<1> USE DEF table, ghosts
<1>0. /\ \A w \in Workers : sched[w] \in Scheduler
      /\ sched \in [Workers -> Scheduler] /\ active' \subseteq active
  BY ServersOnlyGo DEF TypeOK
<1>1. ASSUME UNCHANGED sched,
             \A i \in Instances : row'[i].status = "deleted" => row[i].status = "deleted"
      PROVE  ClosedTrail'
  BY <1>0, <1>1 DEF ClosedTrail, ClosedIsGone
<1>2. CASE UNCHANGED vars \/ Tick \/ \E s \in Settings : PutSetting(s)
  BY <1>1, <1>2 DEF vars, Tick, PutSetting
<1>3. ASSUME NEW r \in Requests, RequestNext(r)
      PROVE  ClosedTrail'
  BY <1>1, <1>3 DEF RequestNext, ReadForExtend, ExtendRow, UpdateExtended, TypeOK, Row
<1>4. ASSUME NEW i \in Instances, InstanceNext(i)
      PROVE  ClosedTrail'
  BY <1>1, <1>4 DEF InstanceNext, WriteRow, DeleteServer, DropRow, NoRow, TypeOK
<1>5. ASSUME NEW w \in Workers, SchedulerNext(w)
      PROVE  ClosedTrail'
  <2>1. CASE StartCycle(w) \/ ListExpiring(w)
    <3>1. sched'[w].phase # "deleting" /\ UNCHANGED row
      BY <2>1, <1>0 DEF StartCycle, ListExpiring, Scheduler
    <3>2. \A v \in Workers \ {w} : sched'[v] = sched[v]
      BY <2>1, <1>0 DEF StartCycle, ListExpiring
    <3> QED
      BY <3>1, <3>2, <1>0 DEF ClosedTrail, ClosedIsGone
  <2>2. CASE EndCycle(w) \/ CycleFails(w)
    <3>1. sched'[w].phase # "deleting" /\ UNCHANGED row
      BY <2>2, <1>0 DEF EndCycle, CycleFails, Asleep
    <3>2. \A v \in Workers \ {w} : sched'[v] = sched[v]
      BY <2>2, <1>0 DEF EndCycle, CycleFails
    <3> QED
      BY <3>1, <3>2, <1>0 DEF ClosedTrail, ClosedIsGone
  <2>3. CASE ListOverdue(w)
    <3>1. sched[w].acting = {}
      BY <2>3 DEF ListOverdue, SchedulerSane
    <3>2. sched'[w].acting = {} /\ UNCHANGED row
      BY <2>3, <3>1, <1>0 DEF ListOverdue, Scheduler
    <3>3. \A v \in Workers \ {w} : sched'[v] = sched[v]
      BY <2>3, <1>0 DEF ListOverdue
    <3> QED
      BY <3>2, <3>3, <1>0 DEF ClosedTrail, ClosedIsGone
  <2>4. ASSUME NEW i \in Instances, MailWarning(w, i) \/ MailFails(w, i) \/ RecordWarning(w, i)
        PROVE  ClosedTrail'
    <3>1. sched'[w].phase # "deleting"
      BY <2>4, <1>0 DEF MailWarning, MailFails, RecordWarning, Scheduler
    <3>2. \A v \in Workers \ {w} : sched'[v] = sched[v]
      BY <2>4, <1>0 DEF MailWarning, MailFails, RecordWarning
    <3>3. \A j \in Instances : row'[j].status = "deleted" => row[j].status = "deleted"
      BY <2>4 DEF MailWarning, MailFails, RecordWarning, UpdateEmailSent, TypeOK, Row
    <3> QED
      BY <3>1, <3>2, <3>3, <1>0 DEF ClosedTrail, ClosedIsGone
  <2>5. ASSUME NEW i \in Instances, ReapServer(w, i)
        PROVE  ClosedTrail'
    <3>1. sched'[w].acting = {i} /\ i \notin active' /\ UNCHANGED row
      BY <2>5, <1>0 DEF ReapServer, Scheduler
    <3>2. \A v \in Workers \ {w} : sched'[v] = sched[v]
      BY <2>5, <1>0 DEF ReapServer
    <3> QED
      BY <3>1, <3>2, <1>0 DEF ClosedTrail, ClosedIsGone
  <2>6. ASSUME NEW i \in Instances, ReapFails(w, i)
        PROVE  ClosedTrail'
    <3>1. sched'[w].acting = {} /\ UNCHANGED row
      BY <2>6, <1>0 DEF ReapFails, Scheduler
    <3>2. \A v \in Workers \ {w} : sched'[v] = sched[v]
      BY <2>6, <1>0 DEF ReapFails
    <3> QED
      BY <3>1, <3>2, <1>0 DEF ClosedTrail, ClosedIsGone
  <2>7. ASSUME NEW i \in Instances, RecordReaped(w, i)
        PROVE  ClosedTrail'
    <3>1. sched'[w].acting = {}
      BY <2>7, <1>0 DEF RecordReaped, Scheduler
    <3>2. \A v \in Workers \ {w} : sched'[v] = sched[v]
      BY <2>7, <1>0 DEF RecordReaped
    <3>3. i \notin active
      BY <2>7 DEF RecordReaped, ClosedTrail
    <3>4. \A j \in Instances \ {i} : row'[j] = row[j]
      BY <2>7 DEF RecordReaped, UpdateDeleted, TypeOK
    <3> QED
      BY <3>1, <3>2, <3>3, <3>4, <1>0 DEF ClosedTrail, ClosedIsGone
  <2> QED
    BY <1>5, <2>1, <2>2, <2>3, <2>4, <2>5, <2>6, <2>7 DEF SchedulerNext
<1> QED
  BY <1>2, <1>3, <1>4, <1>5 DEF Next

(* A row says "deleted" only of a server that is gone, whatever failed and
   whoever else deleted. *)
THEOREM DeletedIsTrue == Spec => []ClosedIsGone
<1>1. TypeOK /\ SchedulerSane /\ ClosedTrail /\ [Next]_vars => (SchedulerSane /\ ClosedTrail)'
  BY SaneStep, ClosedStep
<1>2. ClosedTrail => ClosedIsGone
  BY DEF ClosedTrail
<1>3. Init => SchedulerSane /\ ClosedTrail
  BY TrailsAtStart DEF Init, NoRow, Asleep, ClosedTrail, ClosedIsGone
<1> QED
  BY <1>1, <1>2, <1>3, TypeCorrect, PTL DEF Spec

-----------------------------------------------------------------------------
(* Each step of the program is a step of the table's contract. *)
LEMMA ContractStep ==
  ASSUME TypeOK, [Next]_vars
  PROVE  [Record!RecordNext]_<<row, provisioning>>
<1> USE DEF table, ghosts, Present, Record!Present
<1>0. \A w \in Workers : sched[w] \in Scheduler
  BY DEF TypeOK
<1>1. ASSUME NEW i \in Instances, NEW t \in Int, UpdateEmailSent(i, t), UNCHANGED provisioning
      PROVE  [Record!RecordNext]_<<row, provisioning>>
  <2>1. CASE row[i].status # "absent"
    <3>0. row' = [row EXCEPT ![i].status = "sent", ![i].sentAt = t]
      BY <1>1, <2>1 DEF UpdateEmailSent
    <3>1. row'[i].sentAt = t
      BY <3>0 DEF TypeOK, Row
    <3>2. Record!Warn(i)
      BY <1>1, <2>1, <3>0, <3>1 DEF Record!Warn
    <3> QED
      BY <3>2 DEF Record!RecordNext
  <2>2. CASE row[i].status = "absent"
    BY <1>1, <2>2 DEF UpdateEmailSent
  <2> QED
    BY <2>1, <2>2
<1>2. ASSUME NEW i \in Instances, NEW e \in Int, UpdateExtended(i, e), UNCHANGED provisioning
      PROVE  [Record!RecordNext]_<<row, provisioning>>
  <2>1. CASE row[i].status # "absent"
    <3>0. row' = [row EXCEPT ![i].status = "extended", ![i].extended = TRUE,
                             ![i].expires = e]
      BY <1>2, <2>1 DEF UpdateExtended
    <3>1. row'[i].expires = e
      BY <3>0 DEF TypeOK, Row
    <3>2. Record!Extend(i)
      BY <1>2, <2>1, <3>0, <3>1 DEF Record!Extend
    <3> QED
      BY <3>2 DEF Record!RecordNext
  <2>2. CASE row[i].status = "absent"
    BY <1>2, <2>2 DEF UpdateExtended
  <2> QED
    BY <2>1, <2>2
<1>3. ASSUME NEW i \in Instances, UpdateDeleted(i), UNCHANGED provisioning
      PROVE  [Record!RecordNext]_<<row, provisioning>>
  <2>1. CASE row[i].status # "absent"
    <3>1. Record!Close(i)
      BY <1>3, <2>1 DEF UpdateDeleted, Record!Close
    <3> QED
      BY <3>1 DEF Record!RecordNext
  <2>2. CASE row[i].status = "absent"
    BY <1>3, <2>2 DEF UpdateDeleted
  <2> QED
    BY <2>1, <2>2
<1>4. CASE UNCHANGED vars \/ Tick \/ \E s \in Settings : PutSetting(s)
  BY <1>4 DEF vars, Tick, PutSetting
<1>5. ASSUME NEW r \in Requests, RequestNext(r)
      PROVE  [Record!RecordNext]_<<row, provisioning>>
  <2>1. ASSUME NEW i \in Instances, ExtendRow(r, i)
        PROVE  [Record!RecordNext]_<<row, provisioning>>
    <3>1. request[r].expires \in Int
      BY DEF TypeOK, Request
    <3>2. UpdateExtended(i, request[r].expires) /\ UNCHANGED provisioning
      BY <2>1 DEF ExtendRow
    <3> QED
      BY <3>1, <3>2, <1>2
  <2>2. ASSUME NEW i \in Instances, ReadForExtend(r, i)
        PROVE  UNCHANGED <<row, provisioning>>
    BY <2>2 DEF ReadForExtend
  <2> QED
    BY <1>5, <2>1, <2>2 DEF RequestNext
<1>6. ASSUME NEW i \in Instances, InstanceNext(i)
      PROVE  [Record!RecordNext]_<<row, provisioning>>
  <2>1. CASE WriteRow(i)
    <3>1. i \in provisioning /\ provisioning' = provisioning \ {i}
      BY <2>1 DEF WriteRow
    <3>2. CASE UNCHANGED row
      <4>1. Record!Create(i)
        BY <3>1, <3>2 DEF Record!Create
      <4> QED
        BY <4>1 DEF Record!RecordNext
    <3>3. CASE row' = [row EXCEPT ![i] =
                  [status |-> "none", expires |-> now + setting.lifetime,
                   sentAt |-> 0, extended |-> FALSE]]
      <4>1. row'[i].expires = now + setting.lifetime
        BY <3>3 DEF TypeOK
      <4>2. now + setting.lifetime \in Int
        BY LifecycleAssumption DEF TypeOK
      <4>3. Record!Create(i)
        BY <3>1, <3>3, <4>1, <4>2 DEF Record!Create
      <4> QED
        BY <4>3 DEF Record!RecordNext
    <3> QED
      BY <2>1, <3>2, <3>3 DEF WriteRow
  <2>2. CASE DeleteServer(i)
    BY <2>2 DEF DeleteServer
  <2>3. CASE DropRow(i)
    <3>1. Record!Drop(i)
      BY <2>3 DEF DropRow, Record!Drop, NoRow, Record!NoRow
    <3> QED
      BY <3>1 DEF Record!RecordNext
  <2> QED
    BY <1>6, <2>1, <2>2, <2>3 DEF InstanceNext
<1>7. ASSUME NEW w \in Workers, SchedulerNext(w)
      PROVE  [Record!RecordNext]_<<row, provisioning>>
  <2>1. ASSUME NEW i \in Instances, RecordWarning(w, i)
        PROVE  [Record!RecordNext]_<<row, provisioning>>
    <3>1. sched[w].start \in Int
      BY <1>0 DEF Scheduler
    <3>2. UpdateEmailSent(i, sched[w].start) /\ UNCHANGED provisioning
      BY <2>1 DEF RecordWarning
    <3> QED
      BY <3>1, <3>2, <1>1
  <2>2. ASSUME NEW i \in Instances, RecordReaped(w, i)
        PROVE  [Record!RecordNext]_<<row, provisioning>>
    BY <2>2, <1>3 DEF RecordReaped
  <2>3. ASSUME NEW i \in Instances,
               MailWarning(w, i) \/ MailFails(w, i) \/ ReapServer(w, i) \/ ReapFails(w, i)
        PROVE  UNCHANGED <<row, provisioning>>
    BY <2>3 DEF MailWarning, MailFails, ReapServer, ReapFails
  <2>4. CASE StartCycle(w) \/ ListExpiring(w) \/ ListOverdue(w) \/ EndCycle(w) \/ CycleFails(w)
    BY <2>4 DEF StartCycle, ListExpiring, ListOverdue, EndCycle, CycleFails
  <2> QED
    BY <1>7, <2>1, <2>2, <2>3, <2>4 DEF SchedulerNext
<1> QED
  BY <1>4, <1>5, <1>6, <1>7 DEF Next

(* The program implements the table's contract, with the rows still to be
   written by provisioning as the contract's fresh ones. *)
THEOREM ImplementsRecord == Spec => RecordContract
<1>1. Init => Record!RecordInit
  BY DEF Init, Record!RecordInit, NoRow, Record!NoRow
<1>2. TypeOK /\ [Next]_vars => [Record!RecordNext]_<<row, provisioning>>
  BY ContractStep
<1> QED
  BY <1>1, <1>2, TypeCorrect, PTL DEF Spec, RecordContract, Record!RecordSpec
=============================================================================
