----------------------------- MODULE SignupProofs -----------------------------
(***************************************************************************)
(* Proofs about Signup, for any number of requests and names and any       *)
(* faults.  What a request has made is read off the step it has come to    *)
(* (Made, Unmade); that a name's project is only ever one request's        *)
(* (OneProject) is what keeps the requests for a name apart.               *)
(***************************************************************************)
EXTENDS Signup, TLAPS

(* What is there for certain when a request has come to a step. *)
Made ==
    \A r \in Requests :
        /\ at[r] \in {"quotas", "user", "member", "admin", "group", "created",
                      "undoQuotas", "undoUser"} => r \in projects
        /\ at[r] = "undoProject" /\ r \notin cutShort => r \in projects
        /\ at[r] \in {"member", "admin", "group", "created", "undoUser"} => r \in users
        /\ at[r] \in {"user", "member", "admin", "group", "created"} => r \in quotas
        /\ at[r] \in {"admin", "group", "created"} => r \in members
        /\ at[r] \in {"group", "created"} => r \in admins

(* What is certainly not there. *)
Unmade ==
    \A r \in Requests :
        /\ at[r] = "project" => r \notin projects
        /\ at[r] \in {"project", "quotas", "user", "undoQuotas"} => r \notin users
        /\ at[r] \in {"undoProject", "failed"} /\ r \notin cutShort => r \notin users
        /\ at[r] = "failed" /\ r \notin cutShort => r \notin projects

OneProject ==
    \A r, q \in projects : Name[r] = Name[q] => r = q

IInv == TypeOK /\ Made /\ Unmade /\ OneProject

(* The signups begin with nothing made. *)
LEMMA InitIInv == Init => IInv
BY DEF Init, IInv, TypeOK, Made, Unmade, OneProject, Step

(* Every step leads to one of create_user's steps. *)
LEMMA TypeStep == TypeOK /\ [Next]_vars => TypeOK'
<1> SUFFICES ASSUME TypeOK, [Next]_vars PROVE TypeOK'
  OBVIOUS
<1> USE DEF TypeOK, Step, Goto
<1>1. ASSUME NEW r \in Requests, CreateProject(r) PROVE TypeOK'
  BY <1>1 DEF CreateProject
<1>2. ASSUME NEW r \in Requests, SetQuotas(r) PROVE TypeOK'
  BY <1>2 DEF SetQuotas
<1>3. ASSUME NEW r \in Requests, CreateUser(r) PROVE TypeOK'
  BY <1>3 DEF CreateUser
<1>4. ASSUME NEW r \in Requests, MemberRole(r) PROVE TypeOK'
  BY <1>4 DEF MemberRole
<1>5. ASSUME NEW r \in Requests, AdminRole(r) PROVE TypeOK'
  BY <1>5 DEF AdminRole, AfterRefusal
<1>6. ASSUME NEW r \in Requests, SecurityGroup(r) PROVE TypeOK'
  BY <1>6 DEF SecurityGroup
<1>7. ASSUME NEW r \in Requests, UndoProject(r) PROVE TypeOK'
  BY <1>7 DEF UndoProject, DropProject, KeepProject
<1>8. ASSUME NEW r \in Requests, UndoUser(r) PROVE TypeOK'
  BY <1>8 DEF UndoUser, AfterUser
<1>9. ASSUME NEW r \in Requests, Dies(r) PROVE TypeOK'
  BY <1>9 DEF Dies, keystone
<1>10. CASE UNCHANGED vars
  BY <1>10 DEF vars
<1> QED
  BY <1>1, <1>2, <1>3, <1>4, <1>5, <1>6, <1>7, <1>8, <1>9, <1>10 DEF Next, Signup

(* A step of a request makes or unmakes its own things only. *)
LEMMA TrailStep == TypeOK /\ Made /\ Unmade /\ [Next]_vars => Made' /\ Unmade'
<1> SUFFICES ASSUME TypeOK, Made, Unmade, [Next]_vars PROVE Made' /\ Unmade'
  OBVIOUS
<1> USE DEF TypeOK, Step, Made, Unmade, Goto
<1>1. ASSUME NEW r \in Requests, CreateProject(r) PROVE Made' /\ Unmade'
  BY <1>1 DEF CreateProject
<1>2. ASSUME NEW r \in Requests, SetQuotas(r) PROVE Made' /\ Unmade'
  BY <1>2 DEF SetQuotas
<1>3. ASSUME NEW r \in Requests, CreateUser(r) PROVE Made' /\ Unmade'
  BY <1>3 DEF CreateUser
<1>4. ASSUME NEW r \in Requests, MemberRole(r) PROVE Made' /\ Unmade'
  BY <1>4 DEF MemberRole
<1>5. ASSUME NEW r \in Requests, AdminRole(r) PROVE Made' /\ Unmade'
  BY <1>5 DEF AdminRole, AfterRefusal
<1>6. ASSUME NEW r \in Requests, SecurityGroup(r) PROVE Made' /\ Unmade'
  BY <1>6 DEF SecurityGroup
<1>7. ASSUME NEW r \in Requests, UndoProject(r) PROVE Made' /\ Unmade'
  BY <1>7 DEF UndoProject, DropProject, KeepProject
<1>8. ASSUME NEW r \in Requests, UndoUser(r) PROVE Made' /\ Unmade'
  BY <1>8 DEF UndoUser, AfterUser
<1>9. ASSUME NEW r \in Requests, Dies(r) PROVE Made' /\ Unmade'
  BY <1>9 DEF Dies, keystone, Ended
<1>10. CASE UNCHANGED vars
  BY <1>10 DEF vars
<1> QED
  BY <1>1, <1>2, <1>3, <1>4, <1>5, <1>6, <1>7, <1>8, <1>9, <1>10 DEF Next, Signup

(* Only the first call makes a project, and Keystone refuses a second one. *)
LEMMA OneProjectStep == TypeOK /\ OneProject /\ [Next]_vars => OneProject'
<1> SUFFICES ASSUME TypeOK, OneProject, [Next]_vars PROVE OneProject'
  OBVIOUS
<1>1. ASSUME NEW r \in Requests, CreateProject(r) PROVE OneProject'
  <2>1. CASE projects' = projects
    BY <2>1 DEF OneProject
  <2>2. CASE ProjectNameFree(r) /\ projects' = projects \cup {r}
    <3>1. \A q \in projects : Name[q] # Name[r]
      BY <2>2 DEF ProjectNameFree, Rivals, TypeOK
    <3> QED
      BY <2>2, <3>1 DEF OneProject
  <2> QED
    BY <1>1, <2>1, <2>2 DEF CreateProject
<1>2. ASSUME projects' \subseteq projects PROVE OneProject'
  BY <1>2 DEF OneProject
<1>3. ASSUME NEW r \in Requests, Signup(r) \/ Dies(r), ~CreateProject(r)
      PROVE projects' \subseteq projects
  BY <1>3 DEF Signup, SetQuotas, CreateUser, MemberRole, AdminRole, SecurityGroup,
              UndoProject, UndoUser, Dies, DropProject, KeepProject, keystone
<1>4. CASE UNCHANGED vars
  BY <1>2, <1>4 DEF vars
<1> QED
  BY <1>1, <1>2, <1>3, <1>4 DEF Next

(* The inductive invariant holds in every reachable state. *)
LEMMA Inductive == Spec => []IInv
<1>1. IInv /\ [Next]_vars => IInv'
  BY TypeStep, TrailStep, OneProjectStep DEF IInv
<1> QED
  BY InitIInv, <1>1, PTL DEF Spec

(* The state keeps its types: no request is led to a step there is not. *)
THEOREM TypeCorrect == Spec => []TypeOK
<1>1. IInv => TypeOK
  BY DEF IInv
<1> QED
  BY Inductive, <1>1, PTL

(* A signup that answers success has made everything it speaks of, and keeps it
   whatever the other requests for the name do and undo. *)
THEOREM CreatedIsComplete == Spec => []SuccessIsComplete
<1>1. IInv => SuccessIsComplete
  BY DEF IInv, Made, SuccessIsComplete
<1> QED
  BY Inductive, <1>1, PTL

(* A signup that fails with every answer received and every rollback accepted
   leaves neither project nor user. *)
THEOREM FailedIsUndone == Spec => []FailureLeavesNothing
<1>1. IInv => FailureLeavesNothing
  BY DEF IInv, Unmade, FailureLeavesNothing
<1> QED
  BY Inductive, <1>1, PTL

(* Of two signups for a name at most one is past its first call, but for one
   that is ending and has lost its project already. *)
THEOREM OneSignupPerName == Spec => []SignupsExclude
<1>1. IInv => SignupsExclude
  <2> SUFFICES ASSUME IInv,
                      NEW r \in Requests, NEW q \in Requests, r # q, Name[r] = Name[q],
                      at[r] \notin {"project", "failed"}, at[q] \notin {"project", "failed"}
               PROVE  \E p \in {r, q} : at[p] = "undoProject" /\ p \in cutShort
    BY DEF SignupsExclude
  <2>1. r \notin projects \/ q \notin projects
    BY DEF IInv, OneProject
  <2>2. ASSUME NEW p \in {r, q}, p \notin projects
        PROVE  at[p] = "undoProject" /\ p \in cutShort
    <3>1. p \in Requests /\ at[p] \in Step \ {"project", "failed"}
      BY DEF IInv, TypeOK
    <3> QED
      BY <2>2, <3>1 DEF IInv, Made, Step
  <2> QED
    BY <2>1, <2>2
<1> QED
  BY Inductive, <1>1, PTL

=============================================================================
