---------------------------- MODULE PolicyChecks ----------------------------
(***************************************************************************)
(* The checks that the rules of policy/manager/*.py are written with, and  *)
(* the rules themselves. Every check is asked of x, a record of            *)
(*   roles    the user's roles,                                            *)
(*   creds    the attributes of policy/base.py's UserContext,              *)
(*   target   the attributes of what the operation is about;               *)
(* creds and target are functions from the attributes that are there to    *)
(* their values. A check that asks for one that is not there fails, as     *)
(* oslo.policy's checks do on a KeyError. A "rule:" that refers to a rule  *)
(* of its own is an operator of that name in the service's module.         *)
(*                                                                         *)
(* The kinds of check that are repeated from service to service have names *)
(* here; the tables spell them out each time.                              *)
(***************************************************************************)

\* "role:r"
Role(x, r) == r \in x.roles

\* "attribute:value", of the user.
Is(x, attribute, value) ==
  /\ attribute \in DOMAIN x.creds
  /\ x.creds[attribute] = value

\* "attribute:%(key)s": the user's attribute is the target's.
Same(x, attribute, key) ==
  /\ attribute \in DOMAIN x.creds
  /\ key \in DOMAIN x.target
  /\ x.creds[attribute] = x.target[key]

\* "'value':%(key)s": the target's attribute is the value.
Literal(x, value, key) ==
  /\ key \in DOMAIN x.target
  /\ x.target[key] = value

\* "@", or no check at all.
Anyone(x) == TRUE

\* "!"
Nobody(x) == FALSE
-----------------------------------------------------------------------------
AdminRole(x) == Role(x, "admin")

ReaderRole(x) == Role(x, "reader")

\* Mutated: a member who may read as well is not taken for a member.
MemberOnly(x) == Role(x, "member") /\ ~Role(x, "reader")

MemberRole(x) == Role(x, "member") \/ Role(x, "_member_")

\* "is_admin:True": one of the roles is among system_admin_roles.
ContextAdmin(x) == Is(x, "is_admin", "True")

OwnProject(x) == Same(x, "project_id", "project_id")

\* Mutated: the project is not compared.
MemberOfAny(x) == MemberRole(x)

ProjectMember(x) == MemberRole(x) /\ OwnProject(x)

ProjectReader(x) == ReaderRole(x) /\ OwnProject(x)

SystemAdmin(x) == AdminRole(x) /\ Is(x, "system_scope", "all")

SystemReader(x) == ReaderRole(x) /\ Is(x, "system_scope", "all")
-----------------------------------------------------------------------------
(***************************************************************************)
(* An APIRule guards operations, given by method and path. A rule all of   *)
(* whose operations are GET or HEAD only reads. Its name is cut into the   *)
(* resource and what is done to it; allowed is what authorize answers.     *)
(***************************************************************************)
APIRules(resources, actions, access, allowed) ==
  [resource : resources, action : actions, access : {access}, allowed : {allowed}]

Reads(resources, actions, allowed) == APIRules(resources, actions, "read", allowed)

Writes(resources, actions, allowed) == APIRules(resources, actions, "write", allowed)

\* Rules that guard no operation: others refer to them, or a service's own code.
Checks(names, allowed) == APIRules(names, {"check"}, "none", allowed)
=============================================================================
