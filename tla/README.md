# Skyline API server (extension): a TLA+ verification

This directory models the behaviour of `skyline_apiserver` that is hard to test:
tasks that run for minutes beside other requests, a scheduler in every worker
over one table, sagas over OpenStack services that fail half-way, and cookies
set by calls that overlap; and the seventeen tables of rules by which the console
decides what to show. Each module is translated from the source;
`PROJECT.json` maps every definition to the lines it stands for. TLC checks
small instances, TLAPS proves the most important properties for every instance.

## 1. The system

`skyline_apiserver` is a FastAPI application run by several gunicorn workers
behind a web console. It keeps little state of its own (a database with the
tables `settings`, `user_activity`, `user_details`, `revoked_token` and
`instance_lifecycle`; two cookies in the browser) and orchestrates services that
keep the rest: Keystone, Nova, Cinder, Neutron, Glance, an SMTP server and a
proxy VM that does port forwarding. Handlers declared `def` run in a thread
pool, handlers and background tasks declared `async` in a worker's event loop.

| Component | State | Operations | Meets | Correct when |
|---|---|---|---|---|
| Instance lifecycle (`utils/lifecycle_scheduler.py`, `api/v1/lifecycle.py`, `db/api.py`, `utils/email.py`) | `instance_lifecycle`: expiry, mail status, time of mail, extended | hourly cycle of every worker: mail expiring rows, delete unanswered ones; extend endpoint; row inserted by provisioning, dropped by delete | the table (shared by all workers), SMTP, Nova, Keystone, settings | nothing is deleted unwarned, or in spite of an extension; what expires is warned about and, unanswered, deleted; admin instances are exempt |
| Provisioning and deletion (`api/v1/instance.py`) | a background task per request; volumes, server, rules in the services | create: name, root volume, server, address, forwardings, row; delete: rules, volumes listed, server, record, volumes wiped | Nova, Cinder, Neutron, proxy, activity log | a volume in use is never wiped; rules are complete and cleaned up; every task ends |
| Signup (`client/openstack/keystone.py`, `api/v1/user.py`) | project, quotas, user, roles, group in Keystone, Nova and Neutron | seven calls and a rollback by hand | other signups for the same name | success means all there, failure nothing left |
| Sessions (`main.py`, `api/v1/login.py`, `core/security.py`) | the cookies `session` and `time_expired` | login, SSO, switch of project, renewal by the middleware, logout | answers that overtake one another | an active user stays logged in, a switch takes, the page's countdown is right |
| Port forwarding (`api/v1/portforward.py`, `client/portforward_client.py`, `instance.py`) | rules at the proxy and at Neutron | create, list, update, delete; limit per project | retries, provisioning, deletion | the limit holds for requests that do not overlap, a clean-up takes no other server's rule |
| Settings (`api/v1/setting.py`, `db/api.py`) | `settings` | read with defaults, write, reset, list | concurrent writers; the scheduler | every reader sees the last write, a value replaced does not come back |
| Listings (`api/v1/extension.py`, `api/wrapper`) | none | servers, volumes, snapshots, ports, services: filtered, in batches, joined | system and user sessions | a user sees the own project only, each filter holds, names are there for what is listed |
| Policy requests and tables (`api/v1/policy.py`, `policy/manager/*.py`) | rules in code, a user's roles | list all, check some against a target | Keystone's roles | what is listed is what is granted; no table opens a stranger's objects |
| Policy engine (`policy/base.py`) | per service: rules of a file, the file's cache | reload and look up | threads that reload together, the operator | the rules in force are those of the file |
| Limits, activity log, contributions, Prometheus, logs, keypairs, flavors, images, networks, single Nova calls | none or append-only | one or a few calls, reshaped | | |
| Configuration, database access, OpenStack clients, command line tools, logging, deployment | options read at start; engine; cached system session | | | |

What interacts: provisioning inserts the row that the scheduler acts on and the
delete drops; the scheduler deletes servers that a user may be deleting; the
administrator's settings change under a running cycle; a delete runs while the
same instance's provisioning task is still forwarding ports; the middleware's
cookie meets the handler's on one response.

What is hard: (1) each `db.execute`/`fetch_*` is a transaction of its own
(`db/base.py:51-69`; the `with db.transaction()` around them holds nothing), so
every read-then-write can be interleaved; (2) every worker runs the scheduler,
with no lock; (3) background tasks work for minutes on lists taken before;
(4) retries after time-outs repeat calls that may have taken effect; (5) rollbacks
by hand can fail themselves; (6) a worker that dies forgets its tasks;
(7) answers reach the browser in any order. `PROJECT.json`, "hazards", lists
each at its line with the property that watches it.

## 2. The modules

```
LifecycleRecord   abstract: what the table promises
      ^ refined by
Lifecycle  <---- LifecycleProofs          MCLifecycle
Provision  <---- ProvisionProofs          MCProvision
Signup     <---- SignupProofs             MCSignup
Session    <---- SessionProofs            MCSession
Listings   <---- ListingsProofs           MCListings
PortForward <--- PortForwardProofs        MCPortForward
Settings   <---- SettingsProofs           MCSettings
PolicyFile <-+
             +-- PolicyProofs             MCPolicyFile
Policies   <-+                            MCPolicies
   +--> NovaPolicy, NeutronPolicy, ... (17 tables) --> PolicyChecks
```

Mutated forms of a definition (a dropped guard, a boundary, a wrong order) stand
before it, marked "Mutated"; no behaviour uses them. Each property has one that
violates it, listed in `PROJECT.json`.

### Lifecycle

*State.* `row` is the table; `sched[w]` the cycle of worker `w` (its phase, the
clock and deadline it read once at its start, whether Keystone told it the admin
project, the rows of its listing left to do, the row whose mail or deletion has
succeeded but whose UPDATE has not been made); `request[r]` an extend request
between its read and its write; `provisioning`, `removing` and `active` the part
of `api/v1/instance.py` that touches rows. The ghosts `warned`, `reaped`,
`recorded`, `extendedAt` keep what happened.

*Actions.* `StartCycle`, `ListExpiring`, `MailWarning`/`MailFails`,
`RecordWarning`, `ListOverdue`, `ReapServer`/`ReapFails`, `RecordReaped`,
`EndCycle` are `run_lifecycle_check` cut at every database, mail and Nova call;
`CycleFails` is the exception that `start_lifecycle_scheduler` logs, or a
restart. `MailFails` may have delivered the mail (`quit()` fails after
`sendmail()`). `ReapServer` is a deletion that Nova carries out, so of a server
that is there: the forced delete of one that is gone raises, which is a
`ReapFails`, and its row stays "sent". `ReadForExtend` and `ExtendRow` are the
two transactions of the endpoint. `WriteRow` and `DropRow` are provisioning's last step and the
delete's. `PutSetting` changes one key. Time is in days. `OpenstackOpts` is the
set of names the group `openstack` declares: `_delete_instance` reads one that
is not among them (`CanConnect`), and the runs about deletion say which set
they use.

*Abstract specification.* `LifecycleRecord` says what readers of the table may
rely on: one insert per instance, never back to "none", an extension never
forgotten while the row lives. `RecordContract` is the refinement
(`fresh <- provisioning`).

### Provision

*State.* `task[c]` is a create request and its background task, with the port
and attempt it is at; `removal[d]` a delete request and its task, with the rules
and volumes it listed; `server`, `deleting`, `volume`, `rules` what the services
hold. *Actions.* One per call: `CheckName`, `CreateVolume`, `VolumePolled`,
`CreateServer`/`CreateFails`, `Awaited`, `AddressFound`, `PostDone`/
`PostRefused`/`PostTimesOut`, `ForwardingEnds`; `ListRules`, `DeleteRule`,
`CleanNeutron`, `ListVolumes`, `DeleteServer`/`DeleteFails`, `RecordDeletion`,
`WaitEnds`, `WipeVolume`/`VolumeKept`, `WipingEnds`; `TaskDies`, `RemovalDies`;
the user's `AttachVolume`, `DetachVolume`, `AddPortForwarding`; Nova and Cinder
at work (`ServerReady`, `ServerGone`, `VolumeReady`, `ReleaseVolume`). Polling
loops carry no counter: a loop ends on what it waits for, or by time-out when
the fault "slow" is possible or what it waits for cannot come any more.
`Register` is the row of the lifecycle table, `rows`, that a task adds when it
has its server and `RecordDeletion` drops. `record[d]` keeps what a deletion listed
and what was attached when Nova took it, from which `Owed` says which volumes are
to go with the server. `faults` says what may go wrong; it
is chosen at the start, with the requests that are made, from the constant
`Scenarios`.

### Signup

`at[r]` is the next call of a request; the sets say whose project, user, quotas,
roles and group exist. Each call takes effect, is refused, or raises with or
without effect; the rollback follows the code, including that an answer other
than 204 is ignored and that the quota branch rolls back twice when the first
rollback raises. `cutShort` marks the requests for which an answer was lost, a
rollback failed or the worker died.

### Session

`cookie` and `shown` are the jar, `call[q]` a call under way with the jar it was
sent with and what its answer will set. `Admit`/`Expired` are the middleware
before the handler, `Answer` the handler and the middleware after it, `Deliver`
the browser, in any order; `Lost` a call never answered.

### Listings

*State.* None in the program: a state is one query (`query`, by a user of a
`role`), what the services hold (`cloud`) and the `answer`. Every query and
every cloud is an initial state; a behaviour answers it. *Actions.* One per
listing, `ListServers`, `ListRecycleServers`, `ListVolumes`,
`ListVolumeSnapshots`, `ListPorts`, each the whole handler, and `Forbid`, the
role check before it. Which session a call is made in (`VolumeSession`,
`SnapshotSession`, "system" for recycled servers), the project it is narrowed
to (`RecycleProject`, `VolumeProject`, `PortProject`) and the slices of ids
(`Batches`) are operators of their own, since that is where a listing goes
wrong. `answer.named` is the set of things referred to for which the answer has
a name. The services are taken at the word of the code's comments: Nova ignores
`deleted` for users who are no administrators (`extension.py:367`), Cinder
ignores `all_tenants` for them (`:551`), a project name is taken once (`:153`).
What is only passed on (names, states, hosts, pages, order) is left to them, as
in the code.

### Policies

`PolicyChecks` gives the check language a meaning: a check is a Boolean operator
of `x`, which holds the target (a function from its keys) and the user's roles
and attributes; `Role`, `Is`, `Same` and `Literal` are the kinds of check that
the tables use, with oslo.policy's reading of a key that is missing (false). A
table, `NovaPolicy` for `policy/manager/nova.py` and so on, has one operator for
each named check that a rule refers to, and the set of every rule that the
service registers, since the requests answer for all of them, grouped where they
share a check: `Reads(resources, actions, check)` for those that are only asked
for by GET or HEAD, `Writes` for those of other operations, and `Checks` for the
named checks, which are of no operation (`NamedChecks`); the field `access` of a
rule says which. The names are there as labels only: what the properties are
about is the check behind each, and Heat's 22 resource types, which all ask the
same, are one. `Anyone` and `Nobody` are "@" and "!". The groups of a large table
are split by name, in the order of the source.
`Policies` has the two requests as actions: `ListPolicies`, with the target
that `_generate_target` makes up from the user (`GeneratedTarget`), and
`CheckPolicies`, with what the client adds (`Updated` is `dict.update`): nothing,
the full description of an object of the user's own that others may read
(`OwnShared`) or may not (`OwnPrivate`), or that of a stranger's. `Seen`
is the user's context with or without the system's scope, which Keystone may
refuse. `Grant` gives a user more roles after an answer. The specification is
`RequestSpec`, so that `PolicyProofs` can extend this module beside `PolicyFile`, whose is `Spec`.

### PolicyFile

`file` and `clock` are the file system's, `cache` and `file_rules` the
Enforcer's, `thread[t]` the place of a thread in `load_rules`. Every access to
the file or to a field is a step, since handlers run in threads without a lock:
`Begin` (is there a file), `Stat`, `Compare`, `Read`, `Store` and `Stamp` (the
content and its time are stored one after the other), `Take`, `Load`, `Clear`.
The operator writes, restores an older file with its time, and removes; two
writes within a tick have the same time. `history` keeps whether threads
overlapped since the last change and whether the time went forward with it.

### Settings

`rows[k]` are the rows of a key, in the order of their insertion: usually one,
but nothing in the table that the migrations make keeps it so. A PUT is
`Receive`, `Select`, `Write`, `Reselect`, three transactions; a reset `Receive`
and `Delete`. `Break` ends a request anywhere, with what it has done done. The
readers are operators: `Shown` (the first row, as everywhere in the server) and
`Listed` (the last, as in `list_settings`). `during` keeps which requests of a
key overlapped.

### PortForward

`rules` are Neutron's, `address` the servers', `request[r]` a request at one of
its calls. An add is `StartAdd`, `Count` (one call per floating IP of the
project), `Check`, `Choose` (a port, if none is given), `FindPort` (which server
has the address: in the system's session, so of any project), `Create`; any of
them may `Fail`. A server's deletion is `AskAddress`, `Collect` (one call per
floating IP of the cloud), `Erase`, `Destroy`; `DeleteRule` the deletion of one
rule. `Boot` and `Vanish` are Nova's: an address passes to another server.

## 3. The runs

| Run | Asks | Instance and bounds |
|---|---|---|
| `lifecycle_safety` | `WarnedBeforeReaped`, `ExtensionHonoured`, `NoSecondWarning`, `AdminExempt`, `ClosedIsGone`, `RecordContract`, with deletions possible and a reply deadline that changes | 2 instances (one of the admin project), 2 workers, 1 extend request, 2 days, expiry up to day 3 |
| `lifecycle_live` | `ExpiredIsWarned`, `UnansweredIsDeleted` under fairness, with the missing option declared | 1 instance, 1 worker, 3 days |
| `lifecycle_no_deletion` | violated: `UnansweredIsDeleted` with the options declared | same |
| `provision` | `OnlyLateRulesRemain`, `ForwardsComplete`, `RowsOnlyOvertaken`, `AttachedNeverWiped`, `VolumesGoWithServer`, `ProvisioningEnds`, `RemovalEnds` | three scenarios: every fault, and the API server's own (database, worker), with 1 create from a volume and its delete; no fault with 2 creates and 1 delete; a data volume that moves between servers, 2 ports, 2 attempts |
| `signup` | `SuccessIsComplete`, `FailureLeavesNothing`, `SignupsExclude` with every fault | 3 requests, two for one name |
| `session` | `ShownIsReal`, `KeptAlive` | 2 calls, 6 ticks; expiry 4, renewal 1, flight 1 |
| `listings` | `OwnProjectOnly`, `AsAsked`, `NamesResolved` for every query of five kinds and three roles | 2 projects, one of which may be gone, 2 servers, 3 volumes, 3 snapshots, 2 ports, 2 networks; slices of 2 ids |
| `policies` | `ShownIsGranted`, `GrantedIsShown`, `OthersAreClosed`, `WriterMayRead`, `RolesOnlyAdd` for every rule of every table | 100 users: five chains of roles with and without the system's scope, and 18 special roles beside each; the user's own object, shared and private, and a stranger's |
| `policy_file` | `StaleOnlyAfterOverlap`, `LastGoodHolds`, `TakesEffect` | 2 threads, 2 contents that load and 1 that does not, 2 ticks |
| `settings` | `ErrorsNeedARival`, `SplitOnlyByRace`, `OnlyOpenRequestsChange`, `LoneTakesEffect` | 1 key, 3 PUTs and a reset in any overlap, 2 requests that are refused |
| `portforward` | `LoneAddWithinLimit`, `OthersRulesStay` | 2 projects with an address in common, 2 floating IPs, 3 servers, 2 ports, a limit of 2, and up to 4 of 7 requests at once |
| `session_switch` | violated: `SwitchTakes` | 1 call, 2 projects, 8 ticks; expiry 5, renewal 2 |

*Why the bounds are enough.* Lifecycle: an instance expires after a day and is
overdue a day later, so days 0 to 2 hold a whole life and an extension in every
phase of it (the liveness runs have a day more, for what follows an extension);
races need two schedulers, or one and a request; instances interact only through
the sets that a cycle works off, for which there are two, one of them exempt.
The two workers are symmetric, and so is nothing else. Each mutant is caught
within these bounds.
Provision: a race takes one delete and one provisioning task, a volume that
finds another server takes two servers; two attempts are one that is repeated
and one that is the last (the code has three). Signup: rivals are two, the third
request shows that other names are not touched. Session: two calls suffice for
one answer to overtake the other; the clock runs beyond a whole session and its
renewal. `2 * Flight < Expire - Renew` (`SessionAssumption`) is a real condition:
with calls in flight for longer, an old renewal that arrives late can leave an
active user with an expired session. At the defaults (3600 s, 1800 s) it says that no call is
waited for as long as 15 minutes. Listings: `MCListings` gives each kind of query
all clouds that differ in what that kind reads, the rest being fixed; items of a
listing do not interact but through slices, and three ids in slices of two make
a full slice and a partial one. Policies: the rules are all there; a check looks
at the roles, at whether the user's ids equal those of the target and at the
system's scope, so that the chains of implied roles, each with and without the
scope and each with one of the roles that single services know, reach every
check both ways, and ids need to be equal or not only. PolicyFile: two threads
make every race between a load that began before a change and one after; more
ticks only repeat it. Settings: keys do not interact; two PUTs make two rows,
the third finds them. PortForward: the limit is reached with two rules on two
floating IPs, of which one is counted after the other; the stale address takes
two deletions, a new server and an add.

*Deadlock* is not checked where the system really stops: the clock ends at its
bound, every request has ended.

*Fairness.* Lifecycle: asyncio resumes a cycle, and the `while True` of
`start_lifecycle_scheduler` begins another after each (weak fairness of the
worker's steps); listing, mailing, updating and deleting are asked again by each
cycle and the services do not refuse for ever (strong fairness). Users,
administrators and requests need do nothing. Provision: the event loop resumes
a task that is not waiting, Nova and Cinder finish what they accepted (weak
fairness); no call is assumed to succeed. PolicyFile: threads
run and requests, each of which loads the rules, go on coming (weak fairness of
a thread's steps); `TakesEffect` promises nothing without requests, and needs
none of the operator. The other modules have no liveness claims: their
requests end or fail by themselves, and nothing waits for them.

## 4. What is proved

For every number of instances, workers and requests, every setting and option
set (`LifecycleAssumption` is all that is assumed):

- `TypeCorrect`: `TypeOK`, by one lemma for the scheduler's steps and one for
  the others.
- `NoReapWithoutWarning`: `WarnedBeforeReaped`. Not inductive as it stands; the
  invariant adds `SchedulerSane` (what a listing and a pending row mean in each
  phase, and that a cycle's start is not in the future) and `WarningTrail`: a
  row "sent" has `sentAt` among the delivered warnings, and every row a cycle is
  about to delete was warned about its deadline ago.
- `ExtensionsAreHonoured`: `ExtensionHonoured`, through `ExtensionTrail`: a row
  once extended keeps the flag, so that a listing of a later cycle cannot hold
  it, although its status may be overwritten.
- `OneWarningPerScheduler`: `NoSecondWarning`, through `RecordTrail`: a row
  whose warning a worker has recorded is never again at "none".
- `AdminNeverTouched`: `AdminExempt`, through `AdminTrail`: an instance of the
  admin project has no row, and no cycle has one of them on its listing. The
  cycle's own look at the project does not carry the proof: it is skipped when
  Keystone does not say which project that is.
- `DeletedIsTrue`: `ClosedIsGone`, through `ClosedTrail`: a scheduler about to
  write "deleted" has had Nova delete the server, and servers do not come back.
- `ImplementsRecord`: `RecordContract`, each step being one of
  `LifecycleRecord` or a stutter.

For any requests, servers, volumes, ports and faults of Provision
(`ProvisionAssumption`):

- `TypeCorrect`, `ClearedButLate`, `RowsGoWithServers`, `EveryPortOnce` and the
  action property `NoVolumeTaken`, from one `IInv` with a part for each question,
  since none of the properties is inductive.
  `Cursor`: where the posting loop is; without it not even the types hold.
  `Lifeline`: a server is there between its request's boot and a delete that was
  accepted. `Attachment`: a volume that is attached to a server is "in-use" and
  that server was made; this status is all that keeps a deletion from wiping a
  volume that found another server. `Lists`: a deletion lists only rules of its
  own server, and volumes only once the rules are cleared. `Clearing`: while it
  clears, a rule of the server at the proxy is on its list or late; once the
  server's delete was accepted, only late rules of it are left at Neutron, also
  with a second deletion of the server ahead. `RowTrail`: a deletion that overtook
  nobody found the task ended and the row gone. `PostTrail`: with no faults, a
  server nobody deletes has a rule for every port before the cursor.

For any requests, names and faults (`SignupAssumption`):

- `TypeCorrect`, `CreatedIsComplete`, `FailedIsUndone`, `OneSignupPerName`, from
  one inductive invariant `IInv`: the types, `Made` (what exists at each step
  of a request), `Unmade` (what certainly does not) and `OneProject` (no two
  projects of a name).

For any number of calls and any settings with `2 * Flight < Expire - Renew`
(`SessionAssumption`, section 3):

- `TypeCorrect`, `CountdownIsReal` (`ShownIsReal`) and `ActiveStaysIn`
  (`KeptAlive`). The invariant says of each call under way that it is not older
  than `Flight` (`Timely`), and of its cookies how long they last: the one it was
  sent with (`SentAhead`), the one it was let in with and did not renew
  (`Checked`), those its answer brings (`Lasting`). `Ahead` is the point: the
  jar's session is good for longer than `Renew` after the last call that was let
  in. It needs `Replaced`: a cookie that came into the jar while a call was under
  way outlasts that call by `Renew`, so that an answer which overtakes another
  does no harm; this is where the assumption is used.

For any cloud, user and query of the listings (`ListingsAssumption`: the services
hold finitely many things, and an id is that of one thing):

- `ShowsOwnProject`: `OwnProjectOnly`, by the action (`OwnStep`): each handler's
  own filter, or the services' treatment of the user's session, suffices.
- `ShowsWhatIsAsked`: `AsAsked`, listing by listing: the session, the filters sent
  along and those applied after the answer come to what the parameters say.
- `NamesAreFound`: `NamesResolved`, for lists of any length, by `BatchesCover`: the
  slices of `STEP` ids hold every id.

For any keys, values and requests, with a unique index or without
(`SettingsAssumption`: the words of an answer are not values):

- `NoErrorAlone`, `OneValueWithoutRace` and the action properties
  `NothingComesBack` and `AloneItTakesEffect`. What a request has read may be
  stale when it writes: `Findings` says that what it found is still so, unless it
  met the request that changed it, and `Overlapping` that meeting is mutual.
  `SecondRows`: a key has a second row only of two PUTs that met;
  `ErrorsNeedARival` is a part of the invariant too. `Written`: what a PUT that met
  nobody wrote is all there is of its key.

For any floating IPs, servers, projects and requests (`PortForwardAssumption`:
finitely many rules at the start, an add names a port, a project sees no floating
IPs but those there are):

- `LimitHoldsAlone` (`LoneAddWithinLimit`) and `OnlyItsAddress`
  (`OthersRulesStay`), both action properties. `Counted` is the heart of the
  first: while an add counts, what is left to count are floating IPs of its
  project, and, unless another add of the project has raced it, the rules of
  those it has seen are no more than it has counted; `Room`, what follows when
  it is past the check: there is room for one more. `Matches` is that of the
  second: a rule that a deletion has found leads to its address as long as it
  is there.

For any finite number of threads, any contents and any bound of the clock
(`PolicyFileAssumption`):

- `NoStaleRules` (`StaleOnlyAfterOverlap`) and `LastGoodKept` (`LastGoodHolds`).
  The invariant tells threads that began before the last change from those that
  began after it: of the latter, and of the cache, it says at each place of
  `load_rules` what has been read of the file that is there (`Present`) or that
  there is none (`Gone`); of the former only that it is alone (`Alone`).

For any users, configuration and objects (`UsersAssumption`: a user is a set of
roles and whether the system's scope goes with them):

- `RolesTakeNothing` (`RolesOnlyAdd`), `NothingShownInVain` (`ShownIsGranted`),
  `NothingElseHidden` (`GrantedIsShown`) and `StrangersKeptOut`
  (`OthersAreClosed`; where `system_admin_roles` has neither "reader" nor
  "member", as in the default). Each says that what one asker is allowed another
  is, and `Meets` has the ways in which they may differ: "granted", more roles
  beside the same target, and "shared" and "private", the whole description of
  the user's object for the one made up (all three are `Above`: the one has
  whatever the other has); "beside", the target that is made up in place of the
  whole; "stranger", no role in place of a reader's or a member's. `Spared` has
  the rules left out of each: `deny_stack_user`, which asks that a role be absent;
  the three checks of Barbican that ask that the object not be private
  (`AsksShared`); the resources of `Hidden`; the rules of `RoleOnly`. One lemma
  for each table shows for all the ways that the checks carry over, named checks
  included, and so the rules do, but for those. The roles are any strings here,
  where TLC has 100 users.
- `ChangersMayRead` (`WriterMayRead`). Of the reader's user and of the made-up
  target only this is used: all that the target says of users and projects is the
  reader's own (`Lists`). One lemma for each table then says which checks of those
  that may change a resource imply the check of one rule that reads it, names that
  rule for each such resource, and goes through the table group by group
  (`Accounted`); `Unread` has the resources that the table gives no rule to read.

The `TypeCorrect` of Session, PolicyFile, Settings and PortForward are theorems for
which there is no run of their own: their `TypeOK` is part of the invariants
that the other theorems need.

The assumptions are named in the modules that declare the constants, and TLC
evaluates them in every run.

*Only model-checked*: the liveness properties `UnansweredIsDeleted`,
`ExpiredIsWarned`, `ProvisioningEnds`, `RemovalEnds`, `VolumesGoWithServer` and
`TakesEffect`, since the prover does not handle fairness. What is violated
(section 5) is TLC's by nature. Every other property of a run is stated by a
theorem.

## 5. Where the code and its documentation differ

With a run (`PROJECT.json`, "findings"): the deletion that never happens
(`system_user` is no declared option, `lifecycle_scheduler.py:69`) and the switch
of project that a renewal undoes (`main.py:184`).

Seen while modelling, without a run:

- An instance that was extended once is never mailed about or deleted again: both
  queries leave out its row for good (`lifecycle_scheduler.py:105`), where
  `models.py:65` and `config/setting.py:110` speak of the next expiry and a mail
  at the extended time.
- The volumes that are to go with a server (`instance.py:712`) stay when the
  record of the activity fails: the request answers "Failed to delete instance"
  after Nova has accepted it, and never adds the task (`instance.py:778`, `:808`).
  They stay too when the worker is restarted while the task waits (`:789`).
  `VolumesGoWithServer` says that these two are all, while services answer.
- Rules that provisioning posts to the proxy after a delete has listed them stay
  there (`instance.py:719`; README.md:110 of the repository says that they are
  cleaned up). `OnlyLateRulesRemain` bounds what stays.
- Two adds that overlap each find room under the limit on port forwardings "per
  project" (`config/openstack.py:248`), and exceed it together
  (`instance.py:559`). `LoneAddWithinLimit` says what holds.
- A server that is gone before its row is updated (the UPDATE failed, or the user
  deleted it and the row was not dropped) leaves a row that says "sent": every
  cycle of every worker asks Nova to delete it again, which raises
  (`lifecycle_scheduler.py:74`, `:136`). Of the row nothing is promised.
- A volume that was listed as attached and is detached before the server is gone
  is deleted with the others (`instance.py:769`; "connected volumes", `:712`).
- A lost extension: two extend requests read the same expiry, and each writes
  that plus 30 days (`api/v1/lifecycle.py:84`, `:102`; the comment at `:98`
  promises 30 days more for each).
- A delete before provisioning's insert leaves a row for a server that is gone
  (`instance.py:398`; README.md:844 of the repository says it is cleaned up).
- The warning is sent when the instance has expired (`lifecycle_scheduler.py:98`),
  not before, as `config/setting.py:103` says.
- Two creates of one name both pass the check of `instance.py:228`; the server
  is made by the background task.
- `settings.key` is unique in `db/models.py:33` and not in the migration
  `000_init.py`, while `update_setting` (`db/api.py:93-110`) is three
  transactions: two first writers leave two rows, of which `show_setting` and the
  server itself read the first and `list_settings` shows the last, until the next
  PUT or reset. A PUT that a reset overtakes answers 500 for what it did, and one
  that another PUT overtakes answers with the other's value.
- A renewal in flight puts the session back after a logout (`login.py:474`); the
  logout's revocation is not reached, since the middleware ignores `/logout` and
  does not set the profile it asks for.
- The renewal prolongs the cookie around a Keystone token that it does not renew.
- A reader who asks for the snapshots of all projects gets those of one's own:
  `list_volume_snapshots` asks in the reader's session (`extension.py:769`),
  while `list_volumes` changes to the system's because Cinder ignores the
  request otherwise (`:551-555`). `AsAsked` leaves this query out (`Divergent`).
- `list_ports` with a network's id and its name keeps every network of that name
  (`extension.py:979-987`), although the id is described as a filter (`:926`).
  `AsAsked` leaves it out too.
- The names of soft-deleted servers stay blank in a plain user's volumes, which
  the second round of questions (`extension.py:608-611`, `:628`) is there to
  avoid: it is made in the user's session, for which `deleted` is ignored
  (`:367`). `NamesResolved` asks for the other servers only.
- An administrator's listing of all servers fails with a `KeyError` when one
  belongs to a project that is gone (`extension.py:262`); the listing of recycled
  servers uses `.get` (`:477`).
- The limit on port forwardings, "per project" (`config/openstack.py:248`,
  `instance.py:562`), is counted over the floating IPs that the project owns
  (`instance.py:549-557`). Rules that it makes on another's floating IP count for
  that other, and limit nobody but its owner; `port_forwardings/stats` counts
  them by the servers' addresses and `limits` the proxy's rules of its servers, so
  that what is shown as remaining is not what decides. The refusals, 400 and 404,
  are raised inside the `try` and become a 500 (`:560-595`, `:625`).
- Neutron's rules are looked up by address over all projects
  (`neutron.py:168-202`), "of the VM" in the docstring at `instance.py:658`:
  networks that use the same addresses see and clean up one another's rules, and
  a new rule leads to the first server found (`neutron.py:112`).
- `delete_instance` prefers the `id` of the proxy's rules to their `rule_id`
  (`instance.py:726`), while the proxy's path takes a `rule_id`; the models take
  the id to be resolved.
- `_generate_target` (`policy.py:41-82`) gives a limit's project the id of the
  domain and leaves out keys that some rules compare (recordsets of a zone,
  containers of secrets, Neutron's child resources of a parent): `Hidden` lists
  the resources whose operations the console does not offer to those who may.
- A rule of a service that has no enforcer turns a whole check into a 403
  (`policy.py:178`), where the listing leaves the service out; `panko` is
  supported and has none.
- Barbican's rules are all conditions on `enforce_new_defaults`: with that option
  off, the console hides the service from everybody. Its three checks that ask that
  an object not be private (`barbican.py:160` and after) are shown as allowed, since
  the target that is made up does not say, and refused on what is private.
- `GET /policies` answers for named checks, which guard no operation, as for rules.
  One of them, Heat's `deny_stack_user` (`heat.py:36`), is allowed to those who lack
  a role.
- A rule of the operator's file replaces the code's for its operation, but what
  it refers to by `rule:` is still looked up among the code's
  (`policy/base.py:135`), so a named check cannot be overridden.
- A policy file that is replaced by an older one, or removed and put back with
  its time, is not read again (`policy/base.py:111`); two threads that load
  at once can leave the older rules in force until the file's next change.
- A signup whose `create project` answer is lost blocks its name
  (`keystone.py:86`).

## 6. What is not modelled

Pure I/O and reshaping (Prometheus, logs, contributions, keypairs, flavors,
images, networks, single Nova calls, limits, the pass-through endpoints of
`api/v1/portforward.py`), tools run by hand, deployment; of the listings,
`compute_services` and the image names; of the policy tables, the descriptions and
scope types, which nothing evaluates. Of modelled parts: message texts, addresses,
sizes; the activity log
except as a call that may fail; the Keystone token within a session (its refusal
is a lost call); the header as a second credential. Nova, Cinder, Neutron,
Keystone, SMTP and the proxy are modelled as the code uses them: a call takes
effect, is refused, or its answer is lost. The actions of one step are atomic
where the code makes one call.

## 7. Plan

Done, most important first: `Lifecycle` with `LifecycleRecord`, `Provision`,
`Signup`, `Session`, `Listings`, `Policies` with the tables, `PolicyFile`,
`Settings`, `PortForward`, and the proofs of every safety property that a run
checks.

Next:

1. An abstract specification of the signup (a name is taken and all is there, or
   nothing is) and of the settings (one value per key), with refinements that
   hold while requests do not overlap.
2. `Lifecycle` composed with `Provision` in place of
   `provisioning`/`removing`/`active` (a delete by the scheduler, by the user and
   a task still running).
3. The life of the Keystone token in `Session`.
