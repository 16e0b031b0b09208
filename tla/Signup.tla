-------------------------------- MODULE Signup --------------------------------
(***************************************************************************)
(* The signup saga (create_user of client/openstack/keystone.py behind     *)
(* POST /signup): a project, its quotas, a user, two roles and a security  *)
(* group, made one call after the other, with a rollback by hand when one  *)
(* of them fails.  Keystone refuses a name that is taken.                  *)
(***************************************************************************)
EXTENDS FiniteSets

CONSTANTS
    Requests,    \* the signup requests
    Names,       \* the user names they ask for
    Name,        \* the name of each
    Configured,  \* are the ids of the roles and of the admin user configured?
    Faults       \* what can go wrong in the run

Fault == {"refuse",  \* a call is answered with an error
          "lost",    \* a call raises, whether or not it took effect
          "crash"}   \* the worker dies

ASSUME SignupAssumption ==
    /\ Name \in [Requests -> Names]
    /\ Configured \in BOOLEAN
    /\ Faults \subseteq Fault

VARIABLES
    at,         \* the next call of each request
    projects,   \* the requests whose project exists
    users,      \* the requests whose user exists
    quotas,     \* those whose project has its quotas
    members,    \* those whose user has the member role on the project
    admins,     \* those on whose project the admin user has the admin role
    groups,     \* those whose project has a complete security group
    \* What happened, kept for the properties; no action reads it.
    cutShort    \* the requests that lost an answer or a rollback, or died

keystone == <<projects, users, quotas, members, admins, groups>>
vars == <<at, projects, users, quotas, members, admins, groups, cutShort>>

Step == {"project", "quotas", "user", "member", "admin", "group",
         "undoQuotas", "undoUser", "undoProject", "created", "failed"}

Ended(r) == at[r] \in {"created", "failed"}

Goto(r, step) == at' = [at EXCEPT ![r] = step]

Rivals(r) == {q \in Requests : Name[q] = Name[r]}

(* Mutated: names are taken per user and not for all. *)
ProjectNameFreeOwn(r) == r \notin projects

ProjectNameFree(r) == Rivals(r) \cap projects = {}

UserNameFree(r) == Rivals(r) \cap users = {}

-----------------------------------------------------------------------------
(* The calls.  A call takes effect, is refused, or raises with or without   *)
(* having taken effect; what is then undone depends on the ids known.       *)

CreateProject(r) ==
    /\ at[r] = "project"
    /\ \/ /\ ProjectNameFree(r)
          /\ projects' = projects \cup {r}
          /\ \/ Goto(r, "quotas") /\ UNCHANGED cutShort
             \/ /\ "lost" \in Faults
                /\ Goto(r, "failed") /\ cutShort' = cutShort \cup {r}
       \/ /\ ~ProjectNameFree(r) \/ "refuse" \in Faults \/ "lost" \in Faults
          /\ Goto(r, "failed")
          /\ UNCHANGED <<projects, cutShort>>
    /\ UNCHANGED <<users, quotas, members, admins, groups>>

SetQuotas(r) ==
    /\ at[r] = "quotas"
    /\ \/ Goto(r, "user") /\ quotas' = quotas \cup {r}
       \/ /\ Faults \cap {"refuse", "lost"} # {}
          /\ Goto(r, "undoQuotas")
          /\ UNCHANGED quotas
    /\ UNCHANGED <<projects, users, members, admins, groups, cutShort>>

CreateUser(r) ==
    /\ at[r] = "user"
    /\ \/ /\ UserNameFree(r)
          /\ users' = users \cup {r}
          /\ \/ Goto(r, "member") /\ UNCHANGED cutShort
             \/ /\ "lost" \in Faults
                /\ Goto(r, "undoProject") /\ cutShort' = cutShort \cup {r}
       \/ /\ ~UserNameFree(r) \/ "refuse" \in Faults \/ "lost" \in Faults
          /\ Goto(r, "undoProject")
          /\ UNCHANGED <<users, cutShort>>
    /\ UNCHANGED <<projects, quotas, members, admins, groups>>

(* A role is assigned, or the user and the project are undone. *)
MemberRole(r) ==
    /\ at[r] = "member"
    /\ \/ Configured /\ Goto(r, "admin") /\ members' = members \cup {r}
       \/ /\ ~Configured \/ Faults \cap {"refuse", "lost"} # {}
          /\ Goto(r, "undoUser")
          /\ \/ UNCHANGED members
             \/ Configured /\ "lost" \in Faults /\ members' = members \cup {r}
    /\ UNCHANGED <<projects, users, quotas, admins, groups, cutShort>>

(* Mutated: the answer to the second assignment is not looked at. *)
AfterRefusalGoOn == "group"

AfterRefusal == "undoUser"

AdminRole(r) ==
    /\ at[r] = "admin"
    /\ \/ Configured /\ Goto(r, "group") /\ admins' = admins \cup {r}
       \/ /\ ~Configured \/ Faults \cap {"refuse", "lost"} # {}
          /\ Goto(r, AfterRefusal)
          /\ \/ UNCHANGED admins
             \/ Configured /\ "lost" \in Faults /\ admins' = admins \cup {r}
    /\ UNCHANGED <<projects, users, quotas, members, groups, cutShort>>

(* A security group that cannot be made, or only without some of its rules,
   is logged and no reason to fail. *)
SecurityGroup(r) ==
    /\ at[r] = "group"
    /\ Goto(r, "created")
    /\ \/ groups' = groups \cup {r}
       \/ Faults \cap {"refuse", "lost"} # {} /\ UNCHANGED groups
    /\ UNCHANGED <<projects, users, quotas, members, admins, cutShort>>

-----------------------------------------------------------------------------
(* The rollback.  An answer other than 204 is ignored; a call that raises   *)
(* ends it, save that the rollback of the quotas is tried once more by the  *)
(* outer handler.                                                           *)

DropProject(r) ==
    /\ projects' = projects \ {r}
    /\ members' = members \ {r} /\ admins' = admins \ {r}

KeepProject == UNCHANGED <<projects, members, admins>>

UndoProject(r) ==
    /\ at[r] \in {"undoQuotas", "undoProject"}
    /\ \/ /\ DropProject(r)
          /\ Goto(r, "failed")
          /\ UNCHANGED cutShort
       \/ /\ "refuse" \in Faults /\ KeepProject
          /\ Goto(r, "failed") /\ cutShort' = cutShort \cup {r}
       \/ /\ "lost" \in Faults /\ (DropProject(r) \/ KeepProject)
          /\ Goto(r, IF at[r] = "undoQuotas" THEN "undoProject" ELSE "failed")
          /\ cutShort' = cutShort \cup {r}
    /\ UNCHANGED <<users, quotas, groups>>

(* Mutated: the rollback of the user does not go on to the project. *)
AfterUserFail == "failed"

(* Mutated: the rollback of the user goes on to a step there is not. *)
AfterUserUndone == "undoRoles"

AfterUser == "undoProject"

UndoUser(r) ==
    /\ at[r] = "undoUser"
    /\ \/ /\ users' = users \ {r} /\ members' = members \ {r}
          /\ Goto(r, AfterUser)
          /\ UNCHANGED cutShort
       \/ /\ "refuse" \in Faults /\ UNCHANGED <<users, members>>
          /\ Goto(r, AfterUser) /\ cutShort' = cutShort \cup {r}
       \/ /\ "lost" \in Faults
          /\ \/ users' = users \ {r} /\ members' = members \ {r}
             \/ UNCHANGED <<users, members>>
          /\ Goto(r, "failed") /\ cutShort' = cutShort \cup {r}
    /\ UNCHANGED <<projects, quotas, admins, groups>>

Dies(r) ==
    /\ "crash" \in Faults /\ ~Ended(r)
    /\ Goto(r, "failed")
    /\ cutShort' = cutShort \cup {r}
    /\ UNCHANGED keystone

-----------------------------------------------------------------------------
Init ==
    /\ at = [r \in Requests |-> "project"]
    /\ projects = {} /\ users = {} /\ quotas = {}
    /\ members = {} /\ admins = {} /\ groups = {}
    /\ cutShort = {}

Signup(r) ==
    \/ CreateProject(r) \/ SetQuotas(r) \/ CreateUser(r) \/ MemberRole(r)
    \/ AdminRole(r) \/ SecurityGroup(r) \/ UndoProject(r) \/ UndoUser(r)

Next == \E r \in Requests : Signup(r) \/ Dies(r)

Spec == Init /\ [][Next]_vars

-----------------------------------------------------------------------------
(* Properties. *)

TypeOK ==
    /\ at \in [Requests -> Step]
    /\ projects \subseteq Requests /\ users \subseteq Requests
    /\ quotas \subseteq Requests /\ members \subseteq Requests
    /\ admins \subseteq Requests /\ groups \subseteq Requests
    /\ cutShort \subseteq Requests

(* "User, project, and roles created successfully" is only ever answered, and
   stays true, with all of them there, whatever other requests for the same
   name do and undo. *)
SuccessIsComplete ==
    \A r \in Requests : at[r] = "created" =>
        r \in projects \cap users \cap quotas \cap members \cap admins

(* A failed signup leaves nothing behind that would block its name, unless
   an answer was lost, a rollback refused or the worker killed. *)
FailureLeavesNothing ==
    \A r \in Requests : at[r] = "failed" /\ r \notin cutShort =>
        r \notin projects \cup users

(* The project's name serialises the signups for a name: between the project
   and the end no other request for it gets past its first call. *)
SignupsExclude ==
    \A r, q \in Requests :
        r # q /\ Name[r] = Name[q]
        /\ at[r] \notin {"project", "failed"} /\ at[q] \notin {"project", "failed"}
            => \E p \in {r, q} : at[p] = "undoProject" /\ p \in cutShort

=============================================================================
