------------------------------ MODULE Lifecycle ------------------------------
(***************************************************************************)
(* The lifetime of the instances: the instance_lifecycle table            *)
(* (db/models.py, db/api.py), the hourly scheduler that every gunicorn     *)
(* worker runs over it (utils/lifecycle_scheduler.py), the extend endpoint *)
(* (api/v1/lifecycle.py) and the two places of api/v1/instance.py that     *)
(* write and remove rows.                                                  *)
(*                                                                         *)
(* Every call of db/api.py is a transaction of its own, so a row can       *)
(* change between the statement that lists it and the one that updates it: *)
(* each database call, mail and Nova call is one step here.  Times count   *)
(* days; an instance's window from its first step to its last may span     *)
(* any number of them.                                                     *)
(***************************************************************************)
EXTENDS Integers, FiniteSets

CONSTANTS
    Instances,        \* the servers whose provisioning reached the lifecycle step
    AdminInstances,   \* those of the project CONF.openstack.system_project
    Addressed,        \* those whose user has an e-mail address
    Workers,          \* the gunicorn workers, one scheduler each
    Requests,         \* the extend requests that can be in flight together
    OpenstackOpts,    \* the options the configuration group "openstack" declares
    Settings,         \* the values an administrator may give the lifecycle settings
    FirstSetting,     \* those in force at the start
    Extension,        \* the days an extension adds (30 in the code)
    MaxTime,          \* bound: the clock stops there
    MaxExpiry         \* bound: no extension beyond it

ASSUME LifecycleAssumption ==
    /\ AdminInstances \subseteq Instances
    /\ Addressed \subseteq Instances
    /\ Settings \subseteq [enabled: BOOLEAN, lifetime: Nat, grace: Nat]
    /\ FirstSetting \in Settings
    /\ Extension \in Nat /\ MaxTime \in Nat /\ MaxExpiry \in Nat

VARIABLES
    now,          \* the clock, in days
    setting,      \* instance_lifecycle_enabled, _lifetime_days, _reply_deadline_days
    row,          \* the table instance_lifecycle
    provisioning, \* the instances whose provisioning has not written its row yet
    removing,     \* the instances whose DELETE request has yet to drop the row
    active,       \* the servers Nova still has
    sched,        \* each worker's scheduler
    request,      \* each extend request
    \* What happened, kept for the properties; no action reads them.
    warned,       \* per instance, the starts of the cycles whose mail was delivered
    reaped,       \* per instance, the cycles [start, grace] that deleted it
    recorded,     \* per worker, the warnings it has written to the table
    extendedAt    \* per instance, when its row was first extended; -1 if never

table == <<row, provisioning, removing, active>>
ghosts == <<warned, reaped, recorded, extendedAt>>
vars == <<now, setting, row, provisioning, removing, active, sched, request,
          warned, reaped, recorded, extendedAt>>

-----------------------------------------------------------------------------
(* The table and its queries. *)

Status == {"absent", "none", "sent", "extended", "deleted"}

(* sentAt is 0 while the column email_sent_at is NULL. *)
Row == [status: Status, expires: Int, sentAt: Int, extended: BOOLEAN]

NoRow == [status |-> "absent", expires |-> 0, sentAt |-> 0, extended |-> FALSE]

Present(i) == row[i].status # "absent"

Max2(a, b) == IF a >= b THEN a ELSE b

(* Mutated forms of the queries, for the mutation runs: warnings repeated for
   rows already at "sent"; the two comparisons made strict; the reply deadline
   and the extended flag left out. *)
ExpiringBeforeAnyStatus(t) ==
    {i \in Instances : row[i].status \in {"none", "sent"} /\ row[i].expires <= t}

ExpiringBeforeStrict(t) ==
    {i \in Instances : row[i].status = "none" /\ row[i].expires < t}

AwaitingReplyStrict(t) ==
    {i \in Instances : row[i].status = "sent" /\ row[i].sentAt < t /\ ~row[i].extended}

AwaitingReplyAtOnce(t) ==
    {i \in Instances : row[i].status = "sent" /\ ~row[i].extended}

AwaitingReplyByStatus(t) ==
    {i \in Instances : row[i].status = "sent" /\ row[i].sentAt <= t}

(* list_instance_lifecycles_expiring_before, cut down to the rows that the
   loop over it will mail about: those listed with email_status "none". *)
ExpiringBefore(t) ==
    {i \in Instances : /\ Present(i) /\ row[i].status # "deleted"
                       /\ row[i].expires <= t
                       /\ row[i].status = "none"}

(* list_instance_lifecycles_awaiting_reply *)
AwaitingReply(t) ==
    {i \in Instances : /\ row[i].status = "sent"
                       /\ row[i].sentAt <= t
                       /\ ~row[i].extended}

(* Mutated: the warning's UPDATE also resets the flag, and an unknown status. *)
UpdateEmailSentResetting(i, t) ==
    row' = IF Present(i) THEN [row EXCEPT ![i].status = "sent", ![i].sentAt = t,
                                          ![i].extended = FALSE]
                         ELSE row

UpdateDeletedUntyped(i) ==
    row' = IF Present(i) THEN [row EXCEPT ![i].status = "reaped"] ELSE row

(* The three UPDATE statements; with no row to match they change nothing. *)
UpdateEmailSent(i, t) ==
    row' = IF Present(i) THEN [row EXCEPT ![i].status = "sent", ![i].sentAt = t]
                         ELSE row

UpdateExtended(i, e) ==
    row' = IF Present(i) THEN [row EXCEPT ![i].status = "extended",
                                          ![i].extended = TRUE,
                                          ![i].expires = e]
                         ELSE row

UpdateDeleted(i) ==
    row' = IF Present(i) THEN [row EXCEPT ![i].status = "deleted"] ELSE row

-----------------------------------------------------------------------------
(* The scheduler of one worker.  A cycle reads the settings and the clock   *)
(* once; its two listings are snapshots that it then works through.         *)

Phases == {"asleep", "started", "warning", "deleting"}

Scheduler ==
    [phase: Phases,
     start: Int, grace: Int,       \* the clock and the setting, as read at the start
     adminKnown: BOOLEAN,          \* did Keystone give the admin project's id?
     rows: SUBSET Instances,       \* the listed rows not dealt with yet
     acting: SUBSET Instances]     \* the row whose mail or deletion has succeeded
                                   \* and whose UPDATE has not been made

Asleep == [phase |-> "asleep", start |-> 0, grace |-> 0, adminKnown |-> FALSE,
           rows |-> {}, acting |-> {}]

(* The rows of a listing that the loop does not skip. *)
NotSkipped(w, S) == IF sched[w].adminKnown THEN S \ AdminInstances ELSE S

(* _get_admin_project_id: Keystone gives the id or cannot be asked. *)
AdminLookups == BOOLEAN

(* _get_lifecycle_settings: what a cycle reads of them, once. *)
Grace == setting.grace

(* run_lifecycle_check up to its first query.  A cycle that finds the
   feature disabled returns at once: no step. *)
StartCycle(w) ==
    /\ sched[w].phase = "asleep"
    /\ setting.enabled
    /\ \E known \in AdminLookups :
          sched' = [sched EXCEPT ![w] =
              [phase |-> "started", start |-> now, grace |-> Grace,
               adminKnown |-> known, rows |-> {}, acting |-> {}]]
    /\ UNCHANGED <<now, setting, table, request, ghosts>>

ListExpiring(w) ==
    /\ sched[w].phase = "started"
    /\ sched' = [sched EXCEPT ![w].phase = "warning",
                              ![w].rows = NotSkipped(w, ExpiringBefore(sched[w].start))]
    /\ UNCHANGED <<now, setting, table, request, ghosts>>

(* send_lifecycle_warning_email returns True: never for an empty address. *)
MailWarning(w, i) ==
    /\ sched[w].phase = "warning" /\ sched[w].acting = {} /\ i \in sched[w].rows
    /\ i \in Addressed
    /\ sched' = [sched EXCEPT ![w].acting = {i}]
    /\ warned' = [warned EXCEPT ![i] = @ \cup {sched[w].start}]
    /\ UNCHANGED <<now, setting, table, request, reaped, recorded, extendedAt>>

(* It returns False: nothing was configured, or SMTP failed before or after
   the message was accepted. *)
MailFails(w, i) ==
    /\ sched[w].phase = "warning" /\ sched[w].acting = {} /\ i \in sched[w].rows
    /\ sched' = [sched EXCEPT ![w].rows = @ \ {i}]
    /\ \/ UNCHANGED warned
       \/ /\ i \in Addressed
          /\ warned' = [warned EXCEPT ![i] = @ \cup {sched[w].start}]
    /\ UNCHANGED <<now, setting, table, request, reaped, recorded, extendedAt>>

RecordWarning(w, i) ==
    /\ sched[w].phase = "warning" /\ i \in sched[w].acting
    /\ UpdateEmailSent(i, sched[w].start)
    /\ sched' = [sched EXCEPT ![w].rows = @ \ {i}, ![w].acting = {}]
    /\ recorded' = [recorded EXCEPT ![w] = @ \cup {i}]
    /\ UNCHANGED <<now, setting, provisioning, removing, active, request,
                   warned, reaped, extendedAt>>

ListOverdue(w) ==
    /\ sched[w].phase = "warning" /\ sched[w].rows = {}
    /\ LET deadline == sched[w].start - sched[w].grace
       IN  sched' = [sched EXCEPT ![w].phase = "deleting",
                                  ![w].rows = NotSkipped(w, AwaitingReply(deadline))]
    /\ UNCHANGED <<now, setting, table, request, ghosts>>

(* _delete_instance connects with the option system_user: a name the group
   does not declare raises AttributeError, which the function turns into
   "not deleted" before any call to Nova. *)
CanConnect == "system_user" \in OpenstackOpts

(* The forced delete of a server that Nova has.  For any other Nova answers 404,
   which raises: that is a ReapFails, in this cycle and in each later one. *)
ReapServer(w, i) ==
    /\ sched[w].phase = "deleting" /\ sched[w].acting = {} /\ i \in sched[w].rows
    /\ CanConnect /\ i \in active
    /\ active' = active \ {i}
    /\ sched' = [sched EXCEPT ![w].acting = {i}]
    /\ reaped' = [reaped EXCEPT ![i] = @ \cup {[start |-> sched[w].start,
                                                grace |-> sched[w].grace]}]
    /\ UNCHANGED <<now, setting, row, provisioning, removing, request,
                   warned, recorded, extendedAt>>

(* Mutated: the loop does not look at what _delete_instance returned. *)
ReapFailsUnheeded(w, i) ==
    /\ sched[w].phase = "deleting" /\ sched[w].acting = {} /\ i \in sched[w].rows
    /\ sched' = [sched EXCEPT ![w].acting = {i}]
    /\ UNCHANGED <<now, setting, table, request, ghosts>>

(* _delete_instance returns False: whatever raised, the row stays as it is. *)
ReapFails(w, i) ==
    /\ sched[w].phase = "deleting" /\ sched[w].acting = {} /\ i \in sched[w].rows
    /\ sched' = [sched EXCEPT ![w].rows = @ \ {i}]
    /\ UNCHANGED <<now, setting, table, request, ghosts>>

(* An attempt around which nothing fails. *)
Reap(w, i) ==
    ReapServer(w, i) \/ ((~CanConnect \/ i \notin active) /\ ReapFails(w, i))

RecordReaped(w, i) ==
    /\ sched[w].phase = "deleting" /\ i \in sched[w].acting
    /\ UpdateDeleted(i)
    /\ sched' = [sched EXCEPT ![w].rows = @ \ {i}, ![w].acting = {}]
    /\ UNCHANGED <<now, setting, provisioning, removing, active, request, ghosts>>

EndCycle(w) ==
    /\ sched[w].phase = "deleting" /\ sched[w].rows = {}
    /\ sched' = [sched EXCEPT ![w] = Asleep]
    /\ UNCHANGED <<now, setting, table, request, ghosts>>

(* An exception of the database ends the cycle (start_lifecycle_scheduler
   logs it and sleeps); a worker that is killed starts over the same way. *)
CycleFails(w) ==
    /\ sched[w].phase # "asleep"
    /\ sched' = [sched EXCEPT ![w] = Asleep]
    /\ UNCHANGED <<now, setting, table, request, ghosts>>

-----------------------------------------------------------------------------
(* The extend endpoint: the row is read in one transaction and updated in   *)
(* another.  A request is idle, or holds the expiry it is about to write;   *)
(* one whose worker dies in between is one that never writes it.            *)

Request == [pending: SUBSET Instances, expires: Int]

Idle == [pending |-> {}, expires |-> 0]

(* The 404 and the 409 answers change nothing. *)
MayExtend(i) == Present(i) /\ row[i].status # "deleted"

NewExpiry(i) == Max2(row[i].expires, now) + Extension

ReadForExtend(r, i) ==
    /\ request[r].pending = {}
    /\ MayExtend(i)
    /\ NewExpiry(i) <= MaxExpiry
    /\ request' = [request EXCEPT ![r] = [pending |-> {i}, expires |-> NewExpiry(i)]]
    /\ UNCHANGED <<now, setting, table, sched, ghosts>>

ExtendRow(r, i) ==
    /\ i \in request[r].pending
    /\ UpdateExtended(i, request[r].expires)
    /\ request' = [request EXCEPT ![r] = Idle]
    /\ extendedAt' = IF Present(i) /\ extendedAt[i] = -1
                     THEN [extendedAt EXCEPT ![i] = now] ELSE extendedAt
    /\ UNCHANGED <<now, setting, provisioning, removing, active, sched,
                   warned, reaped, recorded>>

-----------------------------------------------------------------------------
(* api/v1/instance.py *)

(* Mutated: rows for the admin project too. *)
GetsRowAlways(i) == setting.enabled

(* The projects that _provision_instance gives a row. *)
GetsRow(i) == setting.enabled /\ i \notin AdminInstances

(* The last step of _provision_instance.  The insert may fail, which is
   logged and ignored; the task may also die before it. *)
WriteRow(i) ==
    /\ i \in provisioning
    /\ provisioning' = provisioning \ {i}
    /\ \/ /\ GetsRow(i)
          /\ row' = [row EXCEPT ![i] =
                [status |-> "none", expires |-> now + setting.lifetime,
                 sentAt |-> 0, extended |-> FALSE]]
       \/ UNCHANGED row
    /\ UNCHANGED <<now, setting, removing, active, sched, request, ghosts>>

(* delete_instance: Nova deletes the server, later the row is dropped, or
   never is when a call in between fails.  A server Nova does not have ends
   the request with a 500 before it gets there. *)
DeleteServer(i) ==
    /\ i \in active
    /\ active' = active \ {i}
    /\ removing' = removing \cup {i}
    /\ UNCHANGED <<now, setting, row, provisioning, sched, request, ghosts>>

DropRow(i) ==
    /\ i \in removing
    /\ removing' = removing \ {i}
    /\ row' = [row EXCEPT ![i] = NoRow]
    /\ UNCHANGED <<now, setting, provisioning, active, sched, request, ghosts>>

(* PUT /setting/{key}: one key at a time. *)
PutSetting(s) ==
    /\ s # setting
    /\ Cardinality({k \in DOMAIN s : s[k] # setting[k]}) = 1
    /\ setting' = s
    /\ UNCHANGED <<now, table, sched, request, ghosts>>

Tick ==
    /\ now < MaxTime
    /\ now' = now + 1
    /\ UNCHANGED <<setting, table, sched, request, ghosts>>

-----------------------------------------------------------------------------
Init ==
    /\ now = 0
    /\ setting = FirstSetting
    /\ row = [i \in Instances |-> NoRow]
    /\ provisioning = Instances
    /\ removing = {}
    /\ active = Instances
    /\ sched = [w \in Workers |-> Asleep]
    /\ request = [r \in Requests |-> Idle]
    /\ warned = [i \in Instances |-> {}]
    /\ reaped = [i \in Instances |-> {}]
    /\ recorded = [w \in Workers |-> {}]
    /\ extendedAt = [i \in Instances |-> -1]

SchedulerNext(w) ==
    \/ StartCycle(w) \/ ListExpiring(w) \/ ListOverdue(w) \/ EndCycle(w) \/ CycleFails(w)
    \/ \E i \in Instances :
          \/ MailWarning(w, i) \/ MailFails(w, i) \/ RecordWarning(w, i)
          \/ ReapServer(w, i) \/ ReapFails(w, i) \/ RecordReaped(w, i)

RequestNext(r) == \E i \in Instances : ReadForExtend(r, i) \/ ExtendRow(r, i)

InstanceNext(i) == WriteRow(i) \/ DeleteServer(i) \/ DropRow(i)

Next ==
    \/ Tick
    \/ \E s \in Settings : PutSetting(s)
    \/ \E w \in Workers : SchedulerNext(w)
    \/ \E r \in Requests : RequestNext(r)
    \/ \E i \in Instances : InstanceNext(i)

Spec == Init /\ [][Next]_vars

(* asyncio resumes a cycle that waits and start_lifecycle_scheduler begins
   another after each, so a worker's cycles go on; a database, an SMTP server
   or a Nova that is asked again and again does not refuse for ever (strong
   fairness: each new cycle asks again).  The clock runs on.  No user, no
   administrator and no request has to do anything. *)
FairSpec ==
    /\ Spec
    /\ WF_vars(Tick)
    /\ \A w \in Workers :
          /\ WF_vars(SchedulerNext(w)) /\ WF_vars(StartCycle(w))
          /\ SF_vars(ListExpiring(w)) /\ SF_vars(ListOverdue(w)) /\ SF_vars(EndCycle(w))
          /\ \A i \in Instances :
                /\ SF_vars(MailWarning(w, i)) /\ SF_vars(RecordWarning(w, i))
                /\ SF_vars(Reap(w, i)) /\ SF_vars(RecordReaped(w, i))

-----------------------------------------------------------------------------
(* Properties. *)

TypeOK ==
    /\ now \in Nat
    /\ setting \in Settings
    /\ row \in [Instances -> Row]
    /\ provisioning \subseteq Instances
    /\ removing \subseteq Instances
    /\ active \subseteq Instances
    /\ sched \in [Workers -> Scheduler]
    /\ request \in [Requests -> Request]
    /\ warned \in [Instances -> SUBSET Int]
    /\ reaped \in [Instances -> SUBSET [start: Int, grace: Int]]
    /\ recorded \in [Workers -> SUBSET Instances]
    /\ extendedAt \in [Instances -> Int]

(* No instance is deleted by the scheduler unless a cycle that began at least
   the reply deadline earlier had delivered its warning: whatever requests,
   restarts and the schedulers of other workers did in between. *)
WarnedBeforeReaped ==
    \A i \in Instances : \A cycle \in reaped[i] :
        \E t \in warned[i] : t <= cycle.start - cycle.grace

(* An extension protects: no cycle that began on a later day deletes the
   instance, even if a scheduler that had listed the row before the extension
   has since overwritten its status with "sent". *)
ExtensionHonoured ==
    \A i \in Instances : extendedAt[i] >= 0 =>
        \A cycle \in reaped[i] : cycle.start <= extendedAt[i]

(* A scheduler that has mailed a warning and recorded it never has that
   instance in line for a second one. *)
NoSecondWarning ==
    \A w \in Workers :
        sched[w].phase = "warning" => sched[w].rows \cap recorded[w] = {}

(* An instance of the admin project is neither mailed about nor deleted,
   even in a cycle for which Keystone did not tell the project's id. *)
AdminExempt ==
    \A i \in AdminInstances : warned[i] = {} /\ reaped[i] = {}

(* Every step of the requests and the schedulers is one the table's contract
   allows: a row is inserted once, never back at "none", never un-extended. *)
Record == INSTANCE LifecycleRecord WITH fresh <- provisioning

RecordContract == Record!RecordSpec

(* A row that has expired while nobody extended it leaves "none": its owner
   is warned and the warning recorded, whatever mails, updates and cycles
   failed before (if that owner has an address, and for settings that keep the
   feature enabled). *)
ExpiredIsWarned ==
    \A i \in Addressed :
        (row[i].status = "none" /\ row[i].expires <= now) ~> (row[i].status # "none")

(* A row that says "deleted" tells the truth: its server is gone, however often
   the deletion failed, and whichever worker or user made it (the column is set
   from what _delete_instance returned, one step after Nova's answer). *)
ClosedIsGone ==
    \A i \in Instances : row[i].status = "deleted" => i \notin active

(* "지정 기한 내 응답이 없으면 인스턴스를 자동 삭제합니다" (README.md:141): a warning
   left unanswered for the reply deadline ends in the server's deletion, unless
   the user extends in the end.  (Of the row nothing is promised: a server that
   is gone before its row is updated is asked for in vain ever after.) *)
UnansweredIsDeleted ==
    \A i \in Instances :
        (/\ i \in active /\ row[i].status = "sent" /\ ~row[i].extended
         /\ row[i].sentAt + setting.grace <= now)
        ~> (i \notin active \/ row[i].extended)
=============================================================================
