--------------------------- MODULE PortForwardProofs ---------------------------
(***************************************************************************)
(* Proofs about PortForward, for any floating IPs, servers, projects and   *)
(* requests. An add that no other overlaps on its project has counted all  *)
(* there is when it makes its rule; and the rules that the deletion of a   *)
(* server removes are those of its address, whoever has it by then.        *)
(***************************************************************************)
EXTENDS PortForward, FiniteSetTheorems, TLAPS

Places == {"new", "count", "choose", "find", "create", "collect", "erase", "destroy", "done"}

Addresses == (UNION {Net[Project[s]] : s \in Servers}) \cup {None}

(* The rules there may ever be. *)
Rules ==
    Initial \cup [id : Requests, fip : FloatingIPs, port : Ports \cup {None}, server : Servers]

Request ==
    [at : Places, todo : SUBSET FloatingIPs, used : Nat, port : Ports \cup {None},
     found : SUBSET Rules, address : Addresses, server : Servers \cup {None}]

TypeOK ==
    /\ rules \subseteq Rules
    /\ address \in [Servers -> Addresses]
    /\ request \in [Requests -> Request]
    /\ raced \subseteq Requests /\ stale \subseteq Requests

Kept ==
    /\ IsFiniteSet(rules)
    /\ \A rule \in rules : rule.fip \in FloatingIPs /\ rule.server \in Running

(* A rule that is there, or was when it was found, is not made again: its add is
   done. *)
MadeOnce ==
    \A r \in Requests : \A rule \in rules \cup request[r].found :
        rule.id \in Requests => At(rule.id, "done")

(* Servers of one project have addresses of their own. *)
Apart ==
    \A s, t \in Running : s # t /\ Project[s] = Project[t] => address[s] # address[t]

Counting == {"count", "choose", "find", "create"}

Deleting == {"collect", "erase"}

Kinds ==
    \A r \in Requests :
        /\ request[r].at \in Counting => Ask(r).kind = "add"
        /\ request[r].at \in Deleting => Ask(r).kind = "server" /\ Ask(r).server \in Servers

(* The rules of a project that an add has counted. *)
Seen(r) == {rule \in Of(Ask(r).project) : rule.fip \notin request[r].todo}

Counted(r) ==
    At(r, "count") =>
        /\ request[r].todo \subseteq {f \in FloatingIPs : Owner[f] = Ask(r).project}
        /\ r \notin raced => Cardinality(Seen(r)) <= request[r].used

(* Past the check there is room for one more. *)
Room(r) ==
    request[r].at \in Counting \ {"count"} =>
        /\ Ask(r).fip \in FloatingIPs
        /\ r \notin raced => Cardinality(Of(Ask(r).project)) < Limit

(* What a deletion has found leads to its address, as long as it is there. *)
Matches(r) ==
    request[r].at \in Deleting =>
        /\ request[r].address # None
        /\ \A rule \in request[r].found \cap rules : address[rule.server] = request[r].address
        /\ r \notin stale => address[Ask(r).server] = request[r].address

IInv ==
    /\ TypeOK
    /\ Kept
    /\ MadeOnce
    /\ Apart
    /\ Kinds
    /\ \A r \in Requests : Counted(r) /\ Room(r) /\ Matches(r)

-----------------------------------------------------------------------------
LEMMA Fields ==
  ASSUME TypeOK, NEW r \in Requests
  PROVE  /\ request[r] \in Request
         /\ request[r].at \in Places /\ request[r].todo \subseteq FloatingIPs
         /\ request[r].used \in Nat /\ request[r].port \in Ports \cup {None}
         /\ request[r].found \subseteq Rules /\ request[r].address \in Addresses
         /\ request[r].server \in Servers \cup {None}
BY DEF TypeOK, Request

(* A step of a request leaves the others' variables alone. *)
Turns(r, k) ==
    /\ request' \in [Requests -> Request]
    /\ request'[r] = k
    /\ \A q \in Requests \ {r} : request'[q] = request[q]

LEMMA Turned ==
  ASSUME TypeOK, NEW r \in Requests, NEW k \in Request, request' = [request EXCEPT ![r] = k]
  PROVE  Turns(r, k)
BY DEF TypeOK, Turns

LEMMA RestingTyped ==
  ASSUME NEW place \in Places
  PROVE  Resting(place) \in Request
<1>1. None \in Addresses /\ None \in Ports \cup {None} /\ None \in Servers \cup {None}
  BY DEF Addresses
<1> QED
  BY <1>1 DEF Resting, Request

LEMMA FinishMoves ==
  ASSUME TypeOK, NEW r \in Requests, Finish(r)
  PROVE  Turns(r, Resting("done"))
BY Turned, RestingTyped DEF Finish, Places

-----------------------------------------------------------------------------
(* What each step leaves of its request. *)
LEMMA StartAddMoves ==
  ASSUME TypeOK, NEW r \in Requests, StartAdd(r)
  PROVE  LET k == request'[r]
         IN  /\ Turns(r, k)
             /\ k.at = "count" /\ k.todo = {f \in FloatingIPs : Owner[f] = Ask(r).project}
             /\ k.used = 0 /\ k.found = {}
<1> DEFINE todo == {f \in FloatingIPs : Owner[f] = Ask(r).project}
           k == [Resting("count") EXCEPT !.todo = todo]
<1>1. Resting("count") \in Request
  BY RestingTyped DEF Places
<1>2. todo \subseteq FloatingIPs
  OBVIOUS
<1>3. request' = [request EXCEPT ![r] = k]
  BY DEF StartAdd
<1> HIDE DEF todo
<1>4. k \in Request /\ k.at = "count" /\ k.todo = todo /\ k.used = 0 /\ k.found = {}
  BY <1>1, <1>2 DEF Request, Resting
<1> HIDE DEF k
<1>5. Turns(r, k)
  BY <1>3, <1>4, Turned
<1> QED
  BY <1>4, <1>5 DEF Turns, todo

LEMMA CountMoves ==
  ASSUME TypeOK, Kept, NEW r \in Requests, Count(r)
  PROVE  LET l == request[r]
             k == request'[r]
         IN  /\ Turns(r, k)
             /\ k.at = l.at /\ k.found = l.found
             /\ \E f \in l.todo : k.todo = l.todo \ {f} /\ k.used = l.used + Cardinality(On(f))
<1> DEFINE l == request[r]
<1>1. PICK f \in l.todo :
        request' = [request EXCEPT
                      ![r] = [l EXCEPT !.todo = l.todo \ {f}, !.used = Used(r, f)]]
  BY DEF Count
<1> DEFINE n == Used(r, f)
           k == [l EXCEPT !.todo = l.todo \ {f}, !.used = n]
<1>2. l \in Request /\ l.todo \subseteq FloatingIPs /\ l.used \in Nat
  BY Fields
<1>3. n \in Nat /\ n = l.used + Cardinality(On(f))
  <2>1. On(f) \subseteq rules
    BY DEF On
  <2>2. IsFiniteSet(On(f))
    BY <2>1, FS_Subset DEF Kept
  <2>3. Cardinality(On(f)) \in Nat
    BY <2>2, FS_CardinalityType
  <2> QED
    BY <1>2, <2>3 DEF Used
<1> HIDE DEF n
<1>4. k \in Request /\ k.at = l.at /\ k.found = l.found /\ k.todo = l.todo \ {f} /\ k.used = n
  BY <1>2, <1>3 DEF Request
<1> HIDE DEF k
<1>5. Turns(r, k)
  <2>1. request' = [request EXCEPT ![r] = k]
    BY <1>1 DEF k, n
  <2> QED
    BY <1>4, <2>1, Turned
<1> QED
  BY <1>3, <1>4, <1>5 DEF Turns

LEMMA CheckMoves ==
  ASSUME TypeOK, Kinds, NEW r \in Requests, Check(r)
  PROVE  LET l == request[r]
             k == request'[r]
         IN  \/ Turns(r, Resting("done"))
             \/ /\ Turns(r, k)
                /\ k.at \in {"choose", "find"} /\ k.found = l.found
                /\ l.used < Limit /\ Ask(r).fip \in FloatingIPs
<1> DEFINE l == request[r]
           place == IF Ask(r).port = None THEN "choose" ELSE "find"
           k == [l EXCEPT !.at = place, !.port = Ask(r).port]
<1>1. l \in Request /\ l.used \in Nat
  BY Fields
<1>2. Ask(r).port \in Ports \cup {None} /\ Visible[Ask(r).project] \subseteq FloatingIPs
  BY PortForwardAssumption DEF Check, At, Kinds, Counting, Ask
<1>3. place \in Places /\ place \in {"choose", "find"}
  BY DEF Places
<1>4. CASE Finish(r)
  BY <1>4, FinishMoves
<1>5. CASE ~Finish(r)
  <2>1. request' = [request EXCEPT ![r] = k] /\ ~(l.used >= Limit)
        /\ Ask(r).fip \in Visible[Ask(r).project]
    BY <1>5 DEF Check
  <2> HIDE DEF place
  <2>2. k \in Request /\ k.at = place /\ k.found = l.found
    BY <1>1, <1>2, <1>3 DEF Request
  <2> HIDE DEF k
  <2>3. Turns(r, k)
    BY <2>1, <2>2, Turned
  <2>4. l.used < Limit
    BY <1>1, <2>1, PortForwardAssumption
  <2> QED
    BY <1>2, <1>3, <2>1, <2>2, <2>3, <2>4 DEF Turns
<1> QED
  BY <1>4, <1>5

LEMMA ChooseMoves ==
  ASSUME TypeOK, NEW r \in Requests, Choose(r) \/ FindPort(r)
  PROVE  LET k == request'[r]
         IN  \/ Turns(r, Resting("done"))
             \/ Turns(r, k) /\ k.at \in {"find", "create"} /\ k.found = request[r].found
<1> DEFINE l == request[r]
<1>1. l \in Request
  BY Fields
<1>2. CASE Finish(r)
  BY <1>2, FinishMoves
<1>3. CASE ~Finish(r) /\ Choose(r)
  <2>1. PICK p \in Ports : request' = [request EXCEPT ![r] = [l EXCEPT !.at = "find", !.port = p]]
    BY <1>3 DEF Choose
  <2> DEFINE k == [l EXCEPT !.at = "find", !.port = p]
  <2>2. k \in Request /\ k.at = "find" /\ k.found = l.found
    BY <1>1 DEF Request, Places
  <2>3. Turns(r, k)
    BY <2>1, <2>2, Turned
  <2> QED
    BY <2>2, <2>3 DEF Turns
<1>4. CASE ~Finish(r) /\ FindPort(r)
  <2>1. PICK s \in Servers :
          request' = [request EXCEPT ![r] = [l EXCEPT !.at = "create", !.server = s]]
    BY <1>4 DEF FindPort, WithAddress, Running
  <2> DEFINE k == [l EXCEPT !.at = "create", !.server = s]
  <2>2. k \in Request /\ k.at = "create" /\ k.found = l.found
    BY <1>1 DEF Request, Places
  <2>3. Turns(r, k)
    BY <2>1, <2>2, Turned
  <2> QED
    BY <2>2, <2>3 DEF Turns
<1> QED
  BY <1>2, <1>3, <1>4

-----------------------------------------------------------------------------
(* What carries over in a step that only r takes, and that makes no rule. *)
LEMMA FewerRules ==
  ASSUME Kept, rules' \subseteq rules, NEW r \in Requests, request'[r].todo = request[r].todo
  PROVE  /\ IsFiniteSet(rules')
         /\ \A p : /\ Cardinality(Of(p)') \in Nat /\ Cardinality(Of(p)) \in Nat
                   /\ Cardinality(Of(p)') <= Cardinality(Of(p))
         /\ Cardinality(Seen(r)') \in Nat /\ Cardinality(Seen(r)) \in Nat
         /\ Cardinality(Seen(r)') <= Cardinality(Seen(r))
<1>1. IsFiniteSet(rules')
  BY FS_Subset DEF Kept
<1>2. ASSUME NEW p
      PROVE  /\ Cardinality(Of(p)') \in Nat /\ Cardinality(Of(p)) \in Nat
             /\ Cardinality(Of(p)') <= Cardinality(Of(p))
  <2>1. Of(p) \subseteq rules /\ Of(p)' \subseteq Of(p)
    BY DEF Of
  <2>2. IsFiniteSet(Of(p))
    BY <2>1, FS_Subset DEF Kept
  <2> QED
    BY <2>1, <2>2, FS_Subset, FS_CardinalityType
<1>3. /\ Cardinality(Seen(r)') \in Nat /\ Cardinality(Seen(r)) \in Nat
      /\ Cardinality(Seen(r)') <= Cardinality(Seen(r))
  <2>1. Seen(r) \subseteq rules /\ Seen(r)' \subseteq Seen(r)
    BY DEF Seen, Of, Ask
  <2>2. IsFiniteSet(Seen(r))
    BY <2>1, FS_Subset DEF Kept
  <2> QED
    BY <2>1, <2>2, FS_Subset, FS_CardinalityType
<1> QED
  BY <1>1, <1>2, <1>3

(* Fewer rules never count for more. *)
LEMMA Counts ==
  ASSUME TypeOK, Kept, NEW u \in Requests, Counted(u), Room(u),
         rules' \subseteq rules, raced' = raced, request'[u] = request[u]
  PROVE  Counted(u)' /\ Room(u)'
<1>1. request[u].used \in Nat /\ Limit \in Nat
  BY Fields, PortForwardAssumption
<1>2. /\ \A p : /\ Cardinality(Of(p)') \in Nat /\ Cardinality(Of(p)) \in Nat
                /\ Cardinality(Of(p)') <= Cardinality(Of(p))
      /\ Cardinality(Seen(u)') \in Nat /\ Cardinality(Seen(u)) \in Nat
      /\ Cardinality(Seen(u)') <= Cardinality(Seen(u))
  BY FewerRules
<1>3. Counted(u)'
  <2>1. Cardinality(Seen(u)) <= request[u].used => Cardinality(Seen(u)') <= request[u].used
    BY <1>1, <1>2
  <2> QED
    BY <2>1, Zenon DEF Counted, At, Ask
<1>4. Room(u)'
  <2>1. Cardinality(Of(Ask(u).project)) < Limit => Cardinality(Of(Ask(u).project)') < Limit
    <3> DEFINE p == Ask(u).project
    <3>1. /\ Cardinality(Of(p)') \in Nat /\ Cardinality(Of(p)) \in Nat
          /\ Cardinality(Of(p)') <= Cardinality(Of(p))
      BY <1>2
    <3> QED
      BY <3>1, <1>1
  <2>2. raced' = raced
    OBVIOUS
  <2>3. ASSUME request[u].at \in Counting \ {"count"}
        PROVE  /\ Ask(u).fip \in FloatingIPs
               /\ u \notin raced' => Cardinality(Of(Ask(u).project)') < Limit
    BY <2>1, <2>2, <2>3, Zenon DEF Room
  <2> QED
    BY <2>3, Zenon DEF Room, Ask
<1> QED
  BY <1>3, <1>4

LEMMA Carried ==
  ASSUME IInv, NEW r \in Requests, NEW k, Turns(r, k), request[r].at # "done",
         k.found \subseteq request[r].found \cup rules,
         rules' \subseteq rules, UNCHANGED <<address, raced, stale>>,
         k.at \in Counting => Ask(r).kind = "add",
         k.at \in Deleting => Ask(r).kind = "server" /\ Ask(r).server \in Servers,
         Counted(r)', Room(r)', Matches(r)'
  PROVE  IInv'
<1>1. TypeOK /\ Kept /\ MadeOnce /\ Apart /\ Kinds
  BY DEF IInv
<1>2. ASSUME NEW u \in Requests, u # r
      PROVE  request'[u] = request[u] /\ Counted(u) /\ Room(u) /\ Matches(u)
  BY <1>2 DEF IInv, Turns
<1>3. TypeOK'
  BY <1>1 DEF TypeOK, Turns, Addresses
<1>4. Kept'
  <2>1. IsFiniteSet(rules')
    BY <1>1, FS_Subset DEF Kept
  <2> QED
    BY <1>1, <2>1 DEF Kept, Running
<1>5. MadeOnce'
  <2> SUFFICES ASSUME NEW u \in Requests, NEW rule \in rules' \cup request'[u].found,
                      rule.id \in Requests
               PROVE  At(rule.id, "done")'
    BY DEF MadeOnce
  <2>1. request'[r] = k
    BY DEF Turns
  <2>2. \E v \in Requests : rule \in rules \cup request[v].found
    BY <1>2, <2>1
  <2>3. At(rule.id, "done")
    BY <1>1, <2>2 DEF MadeOnce
  <2> QED
    BY <1>2, <2>3 DEF At
<1>6. Apart'
  BY <1>1 DEF Apart, Running
<1>7. Kinds'
  <2>1. request'[r] = k
    BY DEF Turns
  <2> QED
    BY <1>1, <1>2, <2>1 DEF Kinds, Ask
<1>8. ASSUME NEW u \in Requests
      PROVE  Counted(u)' /\ Room(u)' /\ Matches(u)'
  <2>1. CASE u = r
    BY <2>1
  <2>2. CASE u # r
    <3>1. request'[u] = request[u] /\ Counted(u) /\ Room(u) /\ Matches(u)
      BY <1>2, <2>2
    <3>2. Counted(u)' /\ Room(u)'
      BY <1>1, <3>1, Counts
    <3>3. Matches(u)'
      BY <3>1 DEF Matches, Ask, Deleting
    <3> QED
      BY <3>2, <3>3
  <2> QED
    BY <2>1, <2>2
<1> QED
  BY <1>3, <1>4, <1>5, <1>6, <1>7, <1>8 DEF IInv

(* A request that has counted nothing and found nothing asks for nothing. *)
LEMMA Idle ==
  ASSUME IInv, NEW r \in Requests, NEW place \in {"destroy", "done"},
         Turns(r, Resting(place)), request[r].at # "done",
         rules' \subseteq rules, UNCHANGED <<address, raced, stale>>
  PROVE  IInv'
<1> DEFINE k == Resting(place)
<1>1. k.at = place /\ k.found = {}
  BY DEF Resting
<1>2. request'[r].at = place
  BY <1>1 DEF Turns
<1>3. Counted(r)' /\ Room(r)' /\ Matches(r)'
  BY <1>2 DEF Counted, Room, Matches, At, Counting, Deleting
<1>4. k.at \notin Counting /\ k.at \notin Deleting
  BY <1>1 DEF Counting, Deleting
<1>5. k.found \subseteq request[r].found \cup rules
  BY <1>1
<1>6. Turns(r, k)
  OBVIOUS
<1> HIDE DEF k
<1> QED
  BY <1>3, <1>4, <1>5, <1>6, Carried

-----------------------------------------------------------------------------
(* The steps of an add. *)
LEMMA StartAddStep ==
  ASSUME IInv, NEW r \in Requests, StartAdd(r)
  PROVE  IInv'
<1> DEFINE k == request'[r]
<1>1. /\ Turns(r, k) /\ k.at = "count" /\ k.used = 0 /\ k.found = {}
      /\ k.todo = {f \in FloatingIPs : Owner[f] = Ask(r).project}
  BY StartAddMoves DEF IInv
<1>2. Ask(r).kind = "add" /\ request[r].at # "done" /\ UNCHANGED <<rules, address, raced, stale>>
  BY DEF StartAdd, At
<1>3. Counted(r)'
  <2>1. Seen(r)' = {}
    <3> SUFFICES ASSUME NEW rule \in Seen(r)' PROVE FALSE
      OBVIOUS
    <3>1. rule \in rules /\ Owner[rule.fip] = Ask(r).project /\ rule.fip \notin k.todo
      BY <1>2 DEF Seen, Of, Ask
    <3>2. rule.fip \in FloatingIPs
      BY <3>1 DEF IInv, Kept
    <3> QED
      BY <1>1, <3>1, <3>2
  <2>2. Cardinality(Seen(r)') <= request'[r].used
    BY <1>1, <2>1, FS_EmptySet
  <2>3. request'[r].todo \subseteq {f \in FloatingIPs : Owner[f] = Ask(r).project}
    BY <1>1
  <2> QED
    BY <2>2, <2>3, Zenon DEF Counted, Ask
<1>4. Room(r)' /\ Matches(r)'
  BY <1>1 DEF Room, Matches, Counting, Deleting
<1>5. k.at \notin Deleting /\ k.found \subseteq request[r].found \cup rules
  BY <1>1 DEF Deleting
<1> HIDE DEF k
<1> QED
  BY <1>1, <1>2, <1>3, <1>4, <1>5, Carried

LEMMA CountStep ==
  ASSUME IInv, NEW r \in Requests, Count(r)
  PROVE  IInv'
<1> DEFINE l == request[r]
           k == request'[r]
<1>0. TypeOK /\ Kept /\ Kinds /\ Counted(r)
  BY DEF IInv
<1>1. /\ Turns(r, k) /\ k.at = l.at /\ k.found = l.found
      /\ \E f \in l.todo : k.todo = l.todo \ {f} /\ k.used = l.used + Cardinality(On(f))
  BY <1>0, CountMoves
<1>2. l.at = "count" /\ UNCHANGED <<rules, address, raced, stale>>
  BY DEF Count, At
<1>3. Ask(r).kind = "add"
  BY <1>0, <1>2 DEF Kinds, Counting
<1>4. PICK f \in l.todo : k.todo = l.todo \ {f} /\ k.used = l.used + Cardinality(On(f))
  BY <1>1
<1>5. r \notin raced => Cardinality(Seen(r)') <= k.used
  <2>1. Seen(r) \subseteq rules /\ On(f) \subseteq rules
    BY DEF Seen, Of, On
  <2>2. IsFiniteSet(Seen(r)) /\ IsFiniteSet(On(f))
    BY <1>0, <2>1, FS_Subset DEF Kept
  <2>3. Seen(r)' \subseteq Seen(r) \cup On(f)
    BY <1>2, <1>4 DEF Seen, Of, On, Ask
  <2>4. /\ IsFiniteSet(Seen(r) \cup On(f))
        /\ Cardinality(Seen(r) \cup On(f))
             = Cardinality(Seen(r)) + Cardinality(On(f)) - Cardinality(Seen(r) \cap On(f))
    BY <2>2, FS_Union
  <2>5. Cardinality(Seen(r)') <= Cardinality(Seen(r) \cup On(f))
    BY <2>3, <2>4, FS_Subset
  <2>6. IsFiniteSet(Seen(r) \cap On(f)) /\ IsFiniteSet(Seen(r)')
    BY <2>2, <2>3, <2>4, FS_Subset, FS_Intersection
  <2>7. /\ Cardinality(Seen(r)) \in Nat /\ Cardinality(On(f)) \in Nat
        /\ Cardinality(Seen(r) \cap On(f)) \in Nat /\ Cardinality(Seen(r)') \in Nat
    BY <2>2, <2>6, FS_CardinalityType
  <2>8. r \notin raced => Cardinality(Seen(r)) <= l.used
    BY <1>0, <1>2 DEF Counted, At
  <2>9. l.used \in Nat
    BY <1>0, Fields
  <2> QED
    BY <1>4, <2>4, <2>5, <2>7, <2>8, <2>9
<1>6. Counted(r)'
  <2>1. k.todo \subseteq {g \in FloatingIPs : Owner[g] = Ask(r).project}
    BY <1>0, <1>2, <1>4 DEF Counted, At
  <2>2. raced' = raced
    BY <1>2
  <2> QED
    BY <1>5, <2>1, <2>2, Zenon DEF Counted, Ask
<1>7. Room(r)' /\ Matches(r)'
  BY <1>1, <1>2 DEF Room, Matches, Counting, Deleting
<1>8. k.at \notin Deleting /\ l.at # "done" /\ k.found \subseteq l.found \cup rules
  BY <1>1, <1>2 DEF Deleting
<1> HIDE DEF k
<1> QED
  BY <1>1, <1>2, <1>3, <1>6, <1>7, <1>8, Carried

LEMMA CheckStep ==
  ASSUME IInv, NEW r \in Requests, Check(r)
  PROVE  IInv'
<1> DEFINE l == request[r]
           k == request'[r]
<1>0. TypeOK /\ Kept /\ Kinds /\ Counted(r)
  BY DEF IInv
<1>1. \/ Turns(r, Resting("done"))
      \/ /\ Turns(r, k)
         /\ k.at \in {"choose", "find"} /\ k.found = l.found
         /\ l.used < Limit /\ Ask(r).fip \in FloatingIPs
  BY <1>0, CheckMoves
<1>2. l.at = "count" /\ l.todo = {} /\ UNCHANGED <<rules, address, raced, stale>>
  BY DEF Check, At
<1>3. CASE Turns(r, Resting("done"))
  BY <1>2, <1>3, Idle
<1>4. CASE /\ Turns(r, k)
           /\ k.at \in {"choose", "find"} /\ k.found = l.found
           /\ l.used < Limit /\ Ask(r).fip \in FloatingIPs
  <2>1. Ask(r).kind = "add"
    BY <1>0, <1>2 DEF Kinds, Counting
  <2>2. r \notin raced => Cardinality(Of(Ask(r).project)') < Limit
    <3>1. Seen(r) = Of(Ask(r).project) /\ Of(Ask(r).project)' = Of(Ask(r).project)
      BY <1>2 DEF Seen, Of, Ask
    <3>2. r \notin raced => Cardinality(Of(Ask(r).project)) <= l.used
      BY <1>0, <1>2, <3>1, Zenon DEF Counted, At
    <3>3. Of(Ask(r).project) \subseteq rules
      BY DEF Of
    <3>4. Cardinality(Of(Ask(r).project)) \in Nat
      BY <1>0, <3>3, FS_Subset, FS_CardinalityType DEF Kept
    <3>5. l.used \in Nat /\ Limit \in Nat
      BY <1>0, Fields, PortForwardAssumption
    <3> QED
      BY <1>4, <3>1, <3>2, <3>4, <3>5
  <2>3. Room(r)'
    <3>1. raced' = raced
      BY <1>2
    <3> QED
      BY <1>4, <2>2, <3>1, Zenon DEF Room, Ask
  <2>4. Counted(r)' /\ Matches(r)' /\ k.at \notin Deleting
    BY <1>4 DEF Counted, Matches, At, Deleting
  <2>5. l.at # "done" /\ k.found \subseteq l.found \cup rules
    BY <1>2, <1>4
  <2> HIDE DEF k
  <2> QED
    BY <1>2, <1>4, <2>1, <2>3, <2>4, <2>5, Carried
<1> QED
  BY <1>1, <1>3, <1>4

LEMMA ChooseStep ==
  ASSUME IInv, NEW r \in Requests, Choose(r) \/ FindPort(r)
  PROVE  IInv'
<1> DEFINE l == request[r]
           k == request'[r]
<1>0. TypeOK /\ Kinds /\ Room(r)
  BY DEF IInv
<1>1. \/ Turns(r, Resting("done"))
      \/ Turns(r, k) /\ k.at \in {"find", "create"} /\ k.found = l.found
  BY <1>0, ChooseMoves
<1>2. l.at \in {"choose", "find"} /\ UNCHANGED <<rules, address, raced, stale>>
  BY DEF Choose, FindPort, At
<1>3. CASE Turns(r, Resting("done"))
  BY <1>2, <1>3, Idle
<1>4. CASE Turns(r, k) /\ k.at \in {"find", "create"} /\ k.found = l.found
  <2>1. Ask(r).kind = "add"
    BY <1>0, <1>2 DEF Kinds, Counting
  <2>2. Room(r)'
    <3>1. raced' = raced /\ Of(Ask(r).project)' = Of(Ask(r).project)
      BY <1>2 DEF Of, Ask
    <3>2. l.at \in Counting \ {"count"}
      BY <1>2 DEF Counting
    <3>3. Ask(r).fip \in FloatingIPs /\ (r \notin raced => Cardinality(Of(Ask(r).project)) < Limit)
      BY <1>0, <3>2 DEF Room
    <3>4. r \notin raced' => Cardinality(Of(Ask(r).project)') < Limit
      BY <3>1, <3>3, Zenon
    <3> QED
      BY <3>3, <3>4, Zenon DEF Room, Ask
  <2>3. Counted(r)' /\ Matches(r)' /\ k.at \notin Deleting
    BY <1>4 DEF Counted, Matches, At, Deleting
  <2>4. l.at # "done" /\ k.found \subseteq l.found \cup rules
    BY <1>2, <1>4
  <2> HIDE DEF k
  <2> QED
    BY <1>2, <1>4, <2>1, <2>2, <2>3, <2>4, Carried
<1> QED
  BY <1>1, <1>3, <1>4

(* The rule that an add makes, and the adds it makes it during. *)
Made(r) == [id |-> r, fip |-> Ask(r).fip, port |-> request[r].port, server |-> request[r].server]

Rivals(r) ==
    {o \in Requests \ {r} : /\ Ask(o).kind = "add" /\ ~At(o, "new") /\ ~At(o, "done")
                            /\ Ask(o).project = Owner[Ask(r).fip]}

LEMMA Creates ==
  ASSUME IInv, NEW r \in Requests, Create(r)
  PROVE  /\ request[r].at = "create" /\ Turns(r, Resting("done"))
         /\ rules' = rules \cup {Made(r)} /\ raced' = raced \cup Rivals(r)
         /\ UNCHANGED <<address, stale>>
         /\ Made(r) \in Rules /\ Made(r).id = r /\ Made(r).fip = Ask(r).fip
         /\ Ask(r).fip \in FloatingIPs /\ Made(r).server \in Running
         /\ r \notin raced => Cardinality(Of(Ask(r).project)) < Limit
<1>0. TypeOK /\ Room(r)
  BY DEF IInv
<1>1. request[r].at = "create"
  BY DEF Create, At
<1>2. Ask(r).fip \in FloatingIPs /\ (r \notin raced => Cardinality(Of(Ask(r).project)) < Limit)
  BY <1>0, <1>1 DEF Room, Counting
<1>3. request[r].port \in Ports \cup {None}
  BY <1>0, Fields
<1>4. Made(r).id = r /\ Made(r).fip = Ask(r).fip /\ Made(r).server = request[r].server
  BY DEF Made
<1>5. /\ request[r].server \in Running
      /\ rules' = rules \cup {Made(r)}
      /\ raced' = raced \cup Rivals(r)
      /\ Finish(r) /\ UNCHANGED <<address, stale>>
  BY DEF Create, Made, Rivals
<1>6. Made(r) \in Rules
  BY <1>2, <1>3, <1>5 DEF Made, Rules, Running
<1>7. Turns(r, Resting("done"))
  BY <1>0, <1>5, FinishMoves
<1> QED
  BY <1>1, <1>2, <1>4, <1>5, <1>6, <1>7

LEMMA CreateStep ==
  ASSUME IInv, NEW r \in Requests, Create(r)
  PROVE  IInv'
<1> DEFINE rule == Made(r)
<1>0. TypeOK /\ Kept /\ MadeOnce /\ Apart /\ Kinds
  BY DEF IInv
<1>1. /\ request[r].at = "create" /\ Turns(r, Resting("done"))
      /\ rules' = rules \cup {rule} /\ raced' = raced \cup Rivals(r)
      /\ UNCHANGED <<address, stale>>
      /\ rule \in Rules /\ rule.id = r /\ rule.fip = Ask(r).fip
      /\ Ask(r).fip \in FloatingIPs /\ rule.server \in Running
  BY Creates
<1>2. /\ request' \in [Requests -> Request]
      /\ request'[r].at = "done" /\ request'[r].found = {}
      /\ \A u \in Requests \ {r} : request'[u] = request[u]
  BY <1>1 DEF Turns, Resting
<1> HIDE DEF rule
<1>3. TypeOK'
  BY <1>0, <1>1, <1>2 DEF TypeOK, Addresses, Rivals
<1>4. Kept'
  <2>1. IsFiniteSet(rules')
    BY <1>0, <1>1, FS_AddElement DEF Kept
  <2>2. Running' = Running
    BY <1>1 DEF Running
  <2> QED
    BY <1>0, <1>1, <2>1, <2>2 DEF Kept
<1>5. MadeOnce'
  <2> SUFFICES ASSUME NEW u \in Requests, NEW other \in rules' \cup request'[u].found,
                      other.id \in Requests
               PROVE  At(other.id, "done")'
    BY DEF MadeOnce
  <2>1. CASE other = rule
    BY <1>1, <1>2, <2>1 DEF At
  <2>2. CASE other # rule
    <3>1. \E v \in Requests : other \in rules \cup request[v].found
      BY <1>1, <1>2, <2>2
    <3>2. At(other.id, "done")
      BY <1>0, <3>1 DEF MadeOnce
    <3> QED
      BY <1>1, <1>2, <3>2 DEF At
  <2> QED
    BY <2>1, <2>2
<1>6. Apart'
  BY <1>0, <1>1 DEF Apart, Running
<1>7. Kinds'
  <2>1. "done" \notin Counting \cup Deleting
    BY DEF Counting, Deleting
  <2> QED
    BY <1>0, <1>2, <2>1 DEF Kinds, Ask
<1>8. ASSUME NEW u \in Requests
      PROVE  Counted(u)' /\ Room(u)' /\ Matches(u)'
  <2>1. CASE u = r
    BY <1>2, <2>1 DEF Counted, Room, Matches, At, Counting, Deleting
  <2>2. CASE u # r
    <3>1. request'[u] = request[u] /\ Counted(u) /\ Room(u) /\ Matches(u)
      BY <1>2, <2>2 DEF IInv
    <3>2. request[u].at \in Counting /\ Ask(u).project = Owner[rule.fip] => u \in raced'
      <4> SUFFICES ASSUME request[u].at \in Counting, Ask(u).project = Owner[rule.fip]
                   PROVE  u \in Rivals(r)
        BY <1>1
      <4>1. Ask(u).kind = "add" /\ request[u].at # "new" /\ request[u].at # "done"
        BY <1>0 DEF Kinds, Counting
      <4> QED
        BY <1>1, <2>2, <4>1 DEF Rivals, At
    <3>3. u \notin raced' => u \notin raced
      BY <1>1
    <3>4. Ask(u).project # Owner[rule.fip]
             => Of(Ask(u).project)' = Of(Ask(u).project) /\ Seen(u)' = Seen(u)
      <4> SUFFICES ASSUME Ask(u).project # Owner[rule.fip]
                   PROVE  Of(Ask(u).project)' = Of(Ask(u).project) /\ Seen(u)' = Seen(u)
        OBVIOUS
      <4>1. Of(Ask(u).project)' = Of(Ask(u).project)
        BY <1>1 DEF Of, Ask
      <4> QED
        BY <3>1, <4>1 DEF Seen, Ask
    <3>5. Counted(u)'
      <4>1. ASSUME request[u].at = "count", u \notin raced'
            PROVE  Cardinality(Seen(u)') <= request[u].used
        <5>1. request[u].at \in Counting
          BY <4>1 DEF Counting
        <5>2. Seen(u)' = Seen(u)
          BY <3>2, <3>4, <4>1, <5>1
        <5>3. Cardinality(Seen(u)) <= request[u].used
          BY <3>1, <3>3, <4>1, Zenon DEF Counted, At
        <5> QED
          BY <5>2, <5>3, Zenon
      <4>2. request[u].at = "count"
               => request[u].todo \subseteq {f \in FloatingIPs : Owner[f] = Ask(u).project}
        BY <3>1, Zenon DEF Counted, At
      <4> QED
        BY <3>1, <4>1, <4>2, Zenon DEF Counted, At, Ask
    <3>6. Room(u)'
      <4>1. ASSUME request[u].at \in Counting \ {"count"}
            PROVE  /\ Ask(u).fip \in FloatingIPs
                   /\ u \notin raced' => Cardinality(Of(Ask(u).project)') < Limit
        <5>1. Ask(u).fip \in FloatingIPs
              /\ (u \notin raced => Cardinality(Of(Ask(u).project)) < Limit)
          BY <3>1, <4>1, Zenon DEF Room
        <5>2. u \notin raced' => Of(Ask(u).project)' = Of(Ask(u).project)
          BY <3>2, <3>4, <4>1
        <5> QED
          BY <3>3, <5>1, <5>2, Zenon
      <4> QED
        BY <3>1, <4>1, Zenon DEF Room, Ask
    <3>7. Matches(u)'
      <4>1. request[u].found \cap rules' \subseteq request[u].found \cap rules
        <5>1. rule \notin request[u].found
          BY <1>0, <1>1 DEF MadeOnce, At
        <5> QED
          BY <1>1, <5>1
      <4> QED
        BY <1>1, <3>1, <4>1 DEF Matches, Ask
    <3> QED
      BY <3>5, <3>6, <3>7
  <2> QED
    BY <2>1, <2>2
<1> QED
  BY <1>3, <1>4, <1>5, <1>6, <1>7, <1>8 DEF IInv

-----------------------------------------------------------------------------
(* The steps of a deletion. *)
LEMMA DeleteRuleStep ==
  ASSUME IInv, NEW r \in Requests, DeleteRule(r)
  PROVE  IInv'
<1>1. Turns(r, Resting("done"))
  BY FinishMoves DEF IInv, DeleteRule
<1>2. request[r].at # "done" /\ rules' \subseteq rules /\ UNCHANGED <<address, raced, stale>>
  BY DEF DeleteRule, At
<1> QED
  BY <1>1, <1>2, Idle

LEMMA FailStep ==
  ASSUME IInv, NEW r \in Requests, Fail(r)
  PROVE  IInv'
<1>1. Turns(r, Resting("done"))
  BY FinishMoves DEF IInv, Fail
<1>2. request[r].at # "done" /\ rules' \subseteq rules /\ UNCHANGED <<address, raced, stale>>
  BY DEF Fail
<1> QED
  BY <1>1, <1>2, Idle

LEMMA AskAddressStep ==
  ASSUME IInv, NEW r \in Requests, AskAddress(r)
  PROVE  IInv'
<1>0. TypeOK /\ request[r].at # "done" /\ UNCHANGED <<rules, address, raced, stale>>
      /\ Ask(r).kind = "server"
  BY DEF IInv, AskAddress, At
<1>1. CASE request' = [request EXCEPT ![r] = Resting("destroy")]
  <2>1. Turns(r, Resting("destroy"))
    BY <1>0, <1>1, Turned, RestingTyped DEF Places
  <2> QED
    BY <1>0, <2>1, Idle
<1>2. CASE /\ Ask(r).server \in Running
           /\ request' = [request EXCEPT ![r] =
                 [Resting("collect") EXCEPT !.address = address[Ask(r).server],
                                            !.todo = FloatingIPs]]
  <2> DEFINE a == address[Ask(r).server]
             k == [Resting("collect") EXCEPT !.address = a, !.todo = FloatingIPs]
  <2>1. Ask(r).server \in Servers /\ a # None /\ a \in Addresses
    BY <1>0, <1>2 DEF Running, TypeOK
  <2>2. Resting("collect") \in Request
    BY RestingTyped DEF Places
  <2> HIDE DEF a
  <2>3. k \in Request /\ k.at = "collect" /\ k.found = {} /\ k.address = a
    BY <2>1, <2>2 DEF Request, Resting
  <2>4. request' = [request EXCEPT ![r] = k]
    BY <1>2 DEF a
  <2> HIDE DEF k
  <2>5. Turns(r, k) /\ request'[r] = k
    BY <1>0, <2>3, <2>4, Turned DEF Turns
  <2>6. Matches(r)'
    BY <1>0, <2>1, <2>3, <2>5 DEF Matches, Ask, a
  <2>7. Counted(r)' /\ Room(r)'
    BY <2>3, <2>5 DEF Counted, Room, At, Counting
  <2>8. k.at \notin Counting /\ k.found \subseteq request[r].found \cup rules
    BY <2>3 DEF Counting
  <2> QED
    BY <1>0, <2>1, <2>5, <2>6, <2>7, <2>8, Carried
<1> QED
  BY <1>1, <1>2 DEF AskAddress

LEMMA CollectStep ==
  ASSUME IInv, NEW r \in Requests, Collect(r)
  PROVE  IInv'
<1> DEFINE l == request[r]
<1>0. TypeOK /\ Kinds /\ Matches(r) /\ l.at = "collect" /\ UNCHANGED <<rules, address, raced, stale>>
  BY DEF IInv, Collect, At
<1> DEFINE matching(f) == {rule \in On(f) : LeadsTo(rule, l.address)}
           next(f, seen) == [request EXCEPT ![r] = [l EXCEPT
               !.todo = l.todo \ {f}, !.found = l.found \cup seen,
               !.at = IF l.todo = {f} THEN "erase" ELSE "collect"]]
<1>a. PICK f \in l.todo : \E seen \in {matching(f), {}} : request' = next(f, seen)
  BY DEF Collect
<1>1. PICK seen \in {matching(f), {}} : request' = next(f, seen)
  BY <1>a
<1> DEFINE place == IF l.todo = {f} THEN "erase" ELSE "collect"
           found == l.found \cup seen
           k == [l EXCEPT !.todo = l.todo \ {f}, !.found = found, !.at = place]
<1>2. l \in Request /\ l.todo \subseteq FloatingIPs /\ l.found \subseteq Rules
  BY <1>0, Fields
<1>3. place \in Deleting /\ place \in Places
  BY DEF Deleting, Places
<1>4. seen \subseteq rules /\ \A rule \in seen : address[rule.server] = l.address
  BY DEF On, LeadsTo
<1>5. found \in SUBSET Rules /\ found \subseteq l.found \cup rules
  BY <1>0, <1>2, <1>4 DEF TypeOK
<1>6. request' = [request EXCEPT ![r] = k]
  BY <1>1
<1>7. l.address # None /\ (r \notin stale => address[Ask(r).server] = l.address)
      /\ \A rule \in found \cap rules : address[rule.server] = l.address
  BY <1>0, <1>4 DEF Matches, Deleting
<1> HIDE DEF place, found
<1>8. k \in Request /\ k.at = place /\ k.found = found /\ k.address = l.address
  BY <1>2, <1>3, <1>5 DEF Request
<1> HIDE DEF k
<1>9. Turns(r, k) /\ request'[r] = k
  BY <1>0, <1>6, <1>8, Turned DEF Turns
<1>10. Matches(r)'
  BY <1>0, <1>7, <1>8, <1>9 DEF Matches, Ask
<1>11. Counted(r)' /\ Room(r)' /\ k.at \notin Counting
  BY <1>3, <1>8, <1>9 DEF Counted, Room, At, Counting, Deleting
<1>12. Ask(r).kind = "server" /\ Ask(r).server \in Servers /\ l.at # "done"
  BY <1>0 DEF Kinds, Deleting
<1> QED
  BY <1>0, <1>5, <1>8, <1>9, <1>10, <1>11, <1>12, Carried

LEMMA EraseStep ==
  ASSUME IInv, NEW r \in Requests, Erase(r)
  PROVE  IInv'
<1> DEFINE l == request[r]
<1>0. TypeOK /\ Kinds /\ Matches(r) /\ l.at = "erase" /\ UNCHANGED <<address, raced, stale>>
  BY DEF IInv, Erase, At
<1>1. PICK rule \in l.found :
        /\ rules' \in {rules, rules \ {rule}}
        /\ request' = [request EXCEPT ![r] = [l EXCEPT !.found = l.found \ {rule}]]
  BY DEF Erase
<1> DEFINE k == [l EXCEPT !.found = l.found \ {rule}]
<1>2. l \in Request
  BY <1>0, Fields
<1>3. k \in Request /\ k.at = "erase" /\ k.found \subseteq l.found /\ k.address = l.address
  BY <1>0, <1>2 DEF Request
<1>4. request' = [request EXCEPT ![r] = k]
  BY <1>1
<1> HIDE DEF k
<1>5. Turns(r, k) /\ request'[r] = k
  BY <1>0, <1>3, <1>4, Turned DEF Turns
<1>6. rules' \subseteq rules
  BY <1>1
<1>7. Matches(r)'
  BY <1>0, <1>3, <1>5, <1>6 DEF Matches, Ask, Deleting
<1>8. Counted(r)' /\ Room(r)' /\ k.at \notin Counting
  BY <1>3, <1>5 DEF Counted, Room, At, Counting
<1>9. Ask(r).kind = "server" /\ Ask(r).server \in Servers /\ l.at # "done"
  BY <1>0 DEF Kinds, Deleting
<1> QED
  BY <1>0, <1>3, <1>5, <1>6, <1>7, <1>8, <1>9, Carried

LEMMA ErasedStep ==
  ASSUME IInv, NEW r \in Requests, Erased(r) \/ Destroy(r)
  PROVE  IInv'
<1>0. TypeOK /\ request[r].at # "done" /\ UNCHANGED <<rules, address, raced, stale>>
  BY DEF IInv, Erased, Destroy, At
<1>1. CASE Erased(r)
  <2>1. Turns(r, Resting("destroy"))
    BY <1>0, <1>1, Turned, RestingTyped DEF Erased, Places
  <2> QED
    BY <1>0, <2>1, Idle
<1>2. CASE Destroy(r)
  <2>1. Turns(r, Resting("done"))
    BY <1>0, <1>2, FinishMoves DEF Destroy
  <2> QED
    BY <1>0, <2>1, Idle
<1> QED
  BY <1>1, <1>2

-----------------------------------------------------------------------------
(* The steps of Nova. *)
LEMMA BootStep ==
  ASSUME IInv, NEW s \in Servers, Boot(s)
  PROVE  IInv'
<1>0. TypeOK /\ Kept /\ MadeOnce /\ Apart /\ Kinds
  BY DEF IInv
<1>1. address[s] = None /\ UNCHANGED <<rules, request, raced, stale>>
  BY DEF Boot
<1>2. PICK a \in Net[Project[s]] :
        /\ \A t \in WithAddress(a) : Project[t] # Project[s]
        /\ address' = [address EXCEPT ![s] = a]
  BY DEF Boot
<1>3. a \in Addresses
  BY DEF Addresses
<1>4. address' \in [Servers -> Addresses] /\ address'[s] = a
      /\ \A t \in Servers \ {s} : address'[t] = address[t]
  BY <1>0, <1>2, <1>3 DEF TypeOK
<1>5. TypeOK'
  BY <1>0, <1>1, <1>4 DEF TypeOK, Addresses
<1>6. \A t \in Running : t \in Servers \ {s} /\ t \in Running'
  BY <1>1, <1>4 DEF Running
<1>7. Kept'
  BY <1>0, <1>1, <1>6 DEF Kept
<1>8. MadeOnce' /\ Kinds'
  BY <1>0, <1>1 DEF MadeOnce, Kinds, At, Ask
<1>9. Apart'
  <2> SUFFICES ASSUME NEW t \in Running', NEW u \in Running', t # u, Project[t] = Project[u],
                      address'[t] = address'[u]
               PROVE  FALSE
    BY DEF Apart
  <2>1. t \in Servers /\ u \in Servers /\ address'[t] # None /\ address'[u] # None
    BY DEF Running
  <2>2. ASSUME NEW v \in Servers \ {s}, address'[v] = a, a # None
        PROVE  Project[v] # Project[s]
    BY <1>2, <1>4, <2>2 DEF WithAddress, Running
  <2>3. CASE t = s \/ u = s
    BY <1>4, <2>1, <2>2, <2>3
  <2>4. CASE t # s /\ u # s
    <3>1. t \in Running /\ u \in Running /\ address[t] = address[u]
      BY <1>4, <2>1, <2>4 DEF Running
    <3> QED
      BY <1>0, <3>1 DEF Apart
  <2> QED
    BY <2>3, <2>4
<1>10. ASSUME NEW u \in Requests
       PROVE  Counted(u)' /\ Room(u)' /\ Matches(u)'
  <2>1. request'[u] = request[u] /\ Counted(u) /\ Room(u) /\ Matches(u)
    BY <1>1 DEF IInv
  <2>2. Counted(u)' /\ Room(u)'
    BY <1>0, <1>1, <2>1, Counts
  <2>3. Matches(u)'
    <3> SUFFICES ASSUME request[u].at \in Deleting
                 PROVE  /\ request[u].address # None
                        /\ \A rule \in request[u].found \cap rules :
                              address'[rule.server] = request[u].address
                        /\ u \notin stale => address'[Ask(u).server] = request[u].address
      BY <1>1 DEF Matches, Ask
    <3>1. /\ request[u].address # None
          /\ \A rule \in request[u].found \cap rules :
                address[rule.server] = request[u].address
          /\ u \notin stale => address[Ask(u).server] = request[u].address
      BY <2>1 DEF Matches
    <3>2. \A rule \in rules : rule.server \in Servers \ {s}
      BY <1>0, <1>6 DEF Kept
    <3>3. Ask(u).server \in Servers
      BY <1>0 DEF Kinds
    <3> QED
      BY <1>1, <1>4, <3>1, <3>2, <3>3
  <2> QED
    BY <2>2, <2>3
<1> QED
  BY <1>5, <1>7, <1>8, <1>9, <1>10 DEF IInv

LEMMA VanishStep ==
  ASSUME IInv, NEW s \in Servers, Vanish(s)
  PROVE  IInv'
<1>0. TypeOK /\ Kept /\ MadeOnce /\ Apart /\ Kinds
  BY DEF IInv
<1>1. /\ address' = [address EXCEPT ![s] = None]
      /\ rules' = {rule \in rules : rule.server # s}
      /\ stale' = stale \cup {r \in Requests : /\ Ask(r).kind = "server" /\ Ask(r).server = s
                                              /\ request[r].at \in {"collect", "erase"}}
      /\ UNCHANGED <<request, raced>>
  BY DEF Vanish
<1>2. address' \in [Servers -> Addresses] /\ address'[s] = None
      /\ \A t \in Servers \ {s} : address'[t] = address[t]
  BY <1>0, <1>1 DEF TypeOK, Addresses
<1>3. TypeOK'
  BY <1>0, <1>1, <1>2 DEF TypeOK, Addresses
<1>4. \A t \in Running : t # s => t \in Running'
  BY <1>2 DEF Running
<1>5. Kept'
  <2>1. rules' \subseteq rules
    BY <1>1
  <2>2. IsFiniteSet(rules')
    BY <1>0, <2>1, FS_Subset DEF Kept
  <2> QED
    BY <1>0, <1>1, <1>4, <2>2 DEF Kept
<1>6. MadeOnce' /\ Kinds'
  BY <1>0, <1>1 DEF MadeOnce, Kinds, At, Ask
<1>7. Apart'
  <2>1. \A t \in Running' : t \in Running /\ t # s /\ address'[t] = address[t]
    BY <1>2 DEF Running
  <2> QED
    BY <1>0, <2>1 DEF Apart
<1>8. ASSUME NEW u \in Requests
      PROVE  Counted(u)' /\ Room(u)' /\ Matches(u)'
  <2>1. request'[u] = request[u] /\ Counted(u) /\ Room(u) /\ Matches(u)
    BY <1>1 DEF IInv
  <2>2. Counted(u)' /\ Room(u)'
    BY <1>0, <1>1, <2>1, Counts
  <2>3. Matches(u)'
    <3> SUFFICES ASSUME request[u].at \in Deleting
                 PROVE  /\ request[u].address # None
                        /\ \A rule \in request[u].found \cap rules' :
                              address'[rule.server] = request[u].address
                        /\ u \notin stale' => address'[Ask(u).server] = request[u].address
      BY <1>1 DEF Matches, Ask
    <3>1. /\ request[u].address # None
          /\ \A rule \in request[u].found \cap rules :
                address[rule.server] = request[u].address
          /\ u \notin stale => address[Ask(u).server] = request[u].address
      BY <2>1 DEF Matches
    <3>2. \A rule \in rules' : rule \in rules /\ rule.server \in Servers \ {s}
      BY <1>0, <1>1 DEF Kept, Running
    <3>3. Ask(u).server \in Servers /\ (Ask(u).server = s => u \in stale')
      BY <1>0, <1>1 DEF Kinds, Deleting
    <3> QED
      BY <1>1, <1>2, <3>1, <3>2, <3>3
  <2> QED
    BY <2>2, <2>3
<1> QED
  BY <1>3, <1>5, <1>6, <1>7, <1>8 DEF IInv

-----------------------------------------------------------------------------
LEMMA InitIInv ==
  Init => IInv
<1> SUFFICES ASSUME Init PROVE IInv
  OBVIOUS
<1>1. PICK made \in Together :
        request = [r \in Requests |-> Resting(IF r \in made THEN "new" ELSE "done")]
  BY DEF Init
<1>2. ASSUME NEW r \in Requests
      PROVE  request[r] \in Request /\ request[r].at \in {"new", "done"} /\ request[r].found = {}
  <2> DEFINE place == IF r \in made THEN "new" ELSE "done"
  <2>1. place \in {"new", "done"} /\ place \in Places
    BY DEF Places
  <2>2. request[r] = Resting(place)
    BY <1>1
  <2> HIDE DEF place
  <2>3. Resting(place) \in Request /\ Resting(place).at = place /\ Resting(place).found = {}
    BY <2>1, RestingTyped DEF Resting
  <2> QED
    BY <2>1, <2>2, <2>3
<1>3. TypeOK
  <2>1. request \in [Requests -> Request]
    BY <1>1, <1>2
  <2> QED
    BY <2>1 DEF TypeOK, Init, Addresses, Rules
<1>4. Kept
  BY PortForwardAssumption DEF Kept, Init
<1>5. MadeOnce
  BY <1>2, PortForwardAssumption DEF MadeOnce, Init
<1>6. Apart
  BY DEF Apart, Init, WithAddress, Running
<1>7. Kinds
  BY <1>2 DEF Kinds, Counting, Deleting
<1>8. \A r \in Requests : Counted(r) /\ Room(r) /\ Matches(r)
  BY <1>2 DEF Counted, Room, Matches, At, Counting, Deleting
<1> QED
  BY <1>3, <1>4, <1>5, <1>6, <1>7, <1>8 DEF IInv

LEMMA Inductive ==
  IInv /\ [Next]_vars => IInv'
<1> SUFFICES ASSUME IInv, [Next]_vars PROVE IInv'
  OBVIOUS
<1>1. ASSUME NEW r \in Requests, Add(r)
      PROVE  IInv'
  BY <1>1, StartAddStep, CountStep, CheckStep, ChooseStep, CreateStep DEF Add
<1>2. ASSUME NEW r \in Requests, DeleteServer(r)
      PROVE  IInv'
  BY <1>2, AskAddressStep, CollectStep, EraseStep, ErasedStep DEF DeleteServer
<1>3. ASSUME NEW r \in Requests, DeleteRule(r) \/ Fail(r)
      PROVE  IInv'
  BY <1>3, DeleteRuleStep, FailStep
<1>4. ASSUME NEW s \in Servers, Boot(s) \/ Vanish(s)
      PROVE  IInv'
  BY <1>4, BootStep, VanishStep
<1>5. CASE UNCHANGED vars
  BY <1>5 DEF vars, IInv, TypeOK, Kept, MadeOnce, Apart, Kinds, Counted, Room, Matches,
              Seen, Of, Running, At, Ask, Addresses
<1> QED
  BY <1>1, <1>2, <1>3, <1>4, <1>5 DEF Next

LEMMA Invariance ==
  Spec => []IInv
BY InitIInv, Inductive, PTL DEF Spec

(* The variables keep their types: in particular an add never holds a server or a
   port, and a deletion never a rule, that there cannot be. *)
THEOREM TypeCorrect == Spec => []TypeOK
<1>1. IInv => TypeOK
  BY DEF IInv
<1> QED
  BY <1>1, Invariance, PTL

-----------------------------------------------------------------------------
(* What each step does to the rules: only Create makes one, of its own id. *)
LEMMA OnlyCreateAdds ==
  ASSUME IInv, Next, NEW rule \in rules' \ rules, rule.id \in Requests
  PROVE  Create(rule.id) /\ rule = Made(rule.id)
<1>1. ASSUME NEW s \in Servers, Boot(s) \/ Vanish(s) PROVE FALSE
  BY <1>1 DEF Boot, Vanish
<1>2. PICK q \in Requests : Add(q) \/ DeleteRule(q) \/ DeleteServer(q) \/ Fail(q)
  BY <1>1 DEF Next
<1>3. CASE Create(q)
  <2>1. rules' = rules \cup {Made(q)} /\ Made(q).id = q
    BY <1>3, Creates
  <2> QED
    BY <1>3, <2>1
<1>4. CASE ~Create(q)
  BY <1>2, <1>4 DEF Add, StartAdd, Count, Check, Choose, FindPort, DeleteRule, DeleteServer,
                    AskAddress, Collect, Erase, Erased, Destroy, Fail
<1> QED
  BY <1>3, <1>4

(* An add on a floating IP of its project, during which no other add made a rule on
   the project's floating IPs, has counted all of them when it makes its own, and
   does not take the project beyond the limit, though rules are made and deleted
   while it counts. *)
THEOREM LimitHoldsAlone == Spec => LoneAddWithinLimit
<1>1. IInv /\ [Next]_vars
        => [\A r \in Requests :
              (\E rule \in rules' \ rules : rule.id = r /\ Owner[rule.fip] = Ask(r).project)
              /\ r \notin raced
                  => Cardinality(Of(Ask(r).project)') <= Limit]_vars
  <2> SUFFICES ASSUME IInv, Next, NEW r \in Requests, NEW rule \in rules' \ rules,
                      rule.id = r, r \notin raced
               PROVE  Cardinality(Of(Ask(r).project)') <= Limit
    BY DEF vars
  <2> DEFINE project == Ask(r).project
  <2>1. Create(r)
    BY OnlyCreateAdds
  <2>2. rules' = rules \cup {Made(r)} /\ Cardinality(Of(project)) < Limit
    BY <2>1, Creates
  <2>3. Of(project)' \subseteq Of(project) \cup {Made(r)}
    BY <2>2 DEF Of, Ask
  <2>4. Of(project) \subseteq rules /\ IsFiniteSet(rules)
    BY DEF Of, IInv, Kept
  <2>5. IsFiniteSet(Of(project))
    BY <2>4, FS_Subset
  <2>6. /\ IsFiniteSet(Of(project) \cup {Made(r)})
        /\ \/ Cardinality(Of(project) \cup {Made(r)}) = Cardinality(Of(project))
           \/ Cardinality(Of(project) \cup {Made(r)}) = Cardinality(Of(project)) + 1
    BY <2>5, FS_AddElement
  <2>7. /\ IsFiniteSet(Of(project)')
        /\ Cardinality(Of(project)') <= Cardinality(Of(project) \cup {Made(r)})
    BY <2>3, <2>6, FS_Subset
  <2>8. Cardinality(Of(project)) \in Nat /\ Cardinality(Of(project)') \in Nat /\ Limit \in Nat
    BY <2>5, <2>7, FS_CardinalityType, PortForwardAssumption
  <2> QED
    BY <2>2, <2>6, <2>7, <2>8
<1> QED
  BY <1>1, Invariance, PTL DEF Spec, LoneAddWithinLimit

-----------------------------------------------------------------------------
(* The rules that the deletion of a server takes away lead to that server, or to
   one that had its address: in another project's network, or because the server
   had gone by another request and left it its address. *)
THEOREM OnlyItsAddress == Spec => OthersRulesStay
<1>1. IInv /\ [Next]_vars
        => [\A r \in Requests : At(r, "erase") =>
              \A rule \in rules \ rules' :
                rule \in request[r].found \ request'[r].found =>
                  \/ rule.server = Ask(r).server
                  \/ /\ address[rule.server] = request[r].address
                     /\ r \in stale \/ Project[rule.server] # Project[Ask(r).server]]_vars
  <2> SUFFICES ASSUME IInv, NEW r \in Requests, At(r, "erase"),
                      NEW rule \in rules, rule \in request[r].found,
                      rule.server # Ask(r).server
               PROVE  /\ address[rule.server] = request[r].address
                      /\ r \in stale \/ Project[rule.server] # Project[Ask(r).server]
    BY DEF vars
  <2>1. Kept /\ Apart /\ Kinds /\ Matches(r) /\ request[r].at \in Deleting
    BY DEF IInv, At, Deleting
  <2>2. /\ request[r].address # None /\ address[rule.server] = request[r].address
        /\ r \notin stale => address[Ask(r).server] = request[r].address
    BY <2>1 DEF Matches
  <2>3. rule.server \in Running /\ Ask(r).server \in Servers
    BY <2>1 DEF Kept, Kinds
  <2>4. ASSUME r \notin stale PROVE Project[rule.server] # Project[Ask(r).server]
    BY <2>1, <2>2, <2>3, <2>4 DEF Apart, Running
  <2> QED
    BY <2>2, <2>4
<1> QED
  BY <1>1, Invariance, PTL DEF Spec, OthersRulesStay
=============================================================================
