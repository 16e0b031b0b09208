------------------------------ MODULE PortForward ------------------------------
(***************************************************************************)
(* Port forwardings in Neutron, as the endpoints of api/v1/instance.py and *)
(* client/openstack/neutron.py make and remove them: a rule sends a port   *)
(* of a floating IP to a server. A project's rules are limited; the add    *)
(* counts those of the project's floating IPs, one call each, and then     *)
(* makes its rule in the system's session, on any floating IP that the     *)
(* user can see. The deletion of a server looks for the rules of its       *)
(* address, over all floating IPs, and removes them before the server.     *)
(*                                                                         *)
(* Each call is a step, and others come in between. Networks of different  *)
(* projects may use the same addresses; of a server that is gone, another  *)
(* gets the address.                                                       *)
(***************************************************************************)
EXTENDS Integers, FiniteSets

CONSTANTS
    FloatingIPs,
    Owner,       \* the project of each floating IP
    Visible,     \* the floating IPs that each project is shown
    Ports,       \* the external ports: 10 .. 1000 when the server chooses
    Servers,
    Project,     \* the project of each server
    Net,         \* the addresses of each project's network
    Limit,       \* port_forwarding_limit
    Requests,    \* each is made at most once
    Asks,        \* what each asks for
    Together,    \* bound: the sets of requests that are made in one behaviour
    Initial,     \* the rules there are at first
    None         \* no port, no address, no server

ASSUME PortForwardAssumption ==
    /\ Limit \in Nat
    /\ \A r \in Requests :
          /\ Asks[r].kind \in {"add", "delete", "server"}
          /\ Asks[r].kind = "add" => /\ Asks[r].port \in Ports \cup {None}
                                     /\ Visible[Asks[r].project] \subseteq FloatingIPs
    /\ Together \subseteq SUBSET Requests
    /\ None \notin Ports
    /\ IsFiniteSet(Initial)
    /\ \A rule \in Initial : rule.id \notin Requests /\ rule.fip \in FloatingIPs

VARIABLES
    rules,    \* Neutron's rules, and the server that each leads to
    address,  \* the address of each server; None: there is no such server
    doomed,   \* the servers that Nova is deleting
    request,  \* where each request is, and its variables
    \* What happened, kept for the properties; no action reads it.
    raced,    \* the adds during which a rule was made on the same project
    stale     \* the deletions whose server went after they asked its address

vars == <<rules, address, doomed, request, raced, stale>>

Ask(r) == Asks[r]

At(r, place) == request[r].at = place

Resting(place) == [at |-> place, todo |-> {}, used |-> 0, port |-> None,
                   found |-> {}, address |-> None, server |-> None]

Finish(r) == request' = [request EXCEPT ![r] = Resting("done")]

On(f) == {rule \in rules : rule.fip = f}

Of(project) == {rule \in rules : Owner[rule.fip] = project}

Running == {s \in Servers : address[s] # None}

(* Ports with an address, of whatever project: the system's session sees all. *)
WithAddress(a) == {s \in Running : address[s] = a}
-----------------------------------------------------------------------------
(* add_port_forwarding *)

StartAdd(r) ==
    /\ At(r, "new") /\ Ask(r).kind = "add"
    /\ request' = [request EXCEPT ![r] =
          [Resting("count") EXCEPT !.todo = {f \in FloatingIPs : Owner[f] = Ask(r).project}]]
    /\ UNCHANGED <<rules, address, doomed, raced, stale>>

(* Mutated: only the last floating IP counts. *)
UsedLast(r, f) == Cardinality(On(f))

Used(r, f) == request[r].used + Cardinality(On(f))

Count(r) ==
    /\ At(r, "count")
    /\ \E f \in request[r].todo :
          request' = [request EXCEPT ![r] = [@ EXCEPT
              !.todo = request[r].todo \ {f}, !.used = Used(r, f)]]
    /\ UNCHANGED <<rules, address, doomed, raced, stale>>

(* The refusals, too, become a 500: of the limit, of a floating IP that is   *)
(* not given (None) or not seen.                                             *)
Check(r) ==
    /\ At(r, "count") /\ request[r].todo = {}
    /\ IF request[r].used >= Limit \/ Ask(r).fip \notin Visible[Ask(r).project]
       THEN Finish(r)
       ELSE request' = [request EXCEPT ![r] = [@ EXCEPT
              !.at = IF Ask(r).port = None THEN "choose" ELSE "find",
              !.port = Ask(r).port]]
    /\ UNCHANGED <<rules, address, doomed, raced, stale>>

(* find_random_available_port: a hundred draws may all hit ports in use. *)
Choose(r) ==
    /\ At(r, "choose")
    /\ LET inUse == {rule.port : rule \in On(Ask(r).fip)}
       IN  \/ \E p \in Ports \ inUse :
                 request' = [request EXCEPT ![r] = [@ EXCEPT !.at = "find", !.port = p]]
           \/ inUse # {} /\ Finish(r)
    /\ UNCHANGED <<rules, address, doomed, raced, stale>>

(* find_port_by_internal_ip: the first of the ports with the address. *)
FindPort(r) ==
    /\ At(r, "find")
    /\ \/ \E s \in WithAddress(Ask(r).address) :
             request' = [request EXCEPT ![r] = [@ EXCEPT !.at = "create", !.server = s]]
       \/ WithAddress(Ask(r).address) = {} /\ Finish(r)
    /\ UNCHANGED <<rules, address, doomed, raced, stale>>

(* Neutron refuses a port in use and a server's port that has gone.         *)
Create(r) ==
    /\ At(r, "create")
    /\ LET rule == [id |-> r, fip |-> Ask(r).fip, port |-> request[r].port,
                    server |-> request[r].server]
           rivals == {o \in Requests \ {r} :
                         /\ Ask(o).kind = "add" /\ ~At(o, "new") /\ ~At(o, "done")
                         /\ Ask(o).project = Owner[rule.fip]}
       IN  /\ \A other \in On(rule.fip) : other.port # rule.port
           /\ rule.server \in Running
           /\ rules' = rules \cup {rule}
           /\ raced' = raced \cup rivals
    /\ Finish(r)
    /\ UNCHANGED <<address, doomed, stale>>

(* Any call of a request fails, or its answer is lost after it was carried   *)
(* out (Create): a 500. Nothing is undone.                                   *)
Fail(r) ==
    /\ request[r].at \in {"count", "choose", "find", "create", "destroy"}
    /\ Finish(r)
    /\ UNCHANGED <<rules, address, doomed, raced, stale>>

Add(r) == StartAdd(r) \/ Count(r) \/ Check(r) \/ Choose(r) \/ FindPort(r) \/ Create(r)
-----------------------------------------------------------------------------
(* delete_port_forwarding; a rule that is not there is a 404, then a 500. *)
DeleteRule(r) ==
    /\ At(r, "new") /\ Ask(r).kind = "delete"
    /\ rules' = {rule \in rules : rule.id # Ask(r).rule}
    /\ Finish(r)
    /\ UNCHANGED <<address, doomed, raced, stale>>

(* delete_instance; its volumes and the proxy's rules are in Provision. *)
AskAddress(r) ==
    /\ At(r, "new") /\ Ask(r).kind = "server"
    /\ \/ /\ Ask(r).server \in Running
          /\ request' = [request EXCEPT ![r] =
                [Resting("collect") EXCEPT !.address = address[Ask(r).server],
                                           !.todo = FloatingIPs]]
       \/ request' = [request EXCEPT ![r] = Resting("destroy")]
    /\ UNCHANGED <<rules, address, doomed, raced, stale>>

(* Mutated: the address is not compared. *)
LeadsAnywhere(rule, a) == TRUE

(* A rule keeps the address of its server, which goes with the server. *)
LeadsTo(rule, a) == address[rule.server] = a

(* get_port_forwardings_by_internal_ip: one call per floating IP; one that   *)
(* cannot be asked is left out.                                              *)
Collect(r) ==
    /\ At(r, "collect")
    /\ \E f \in request[r].todo :
          LET matching == {rule \in On(f) : LeadsTo(rule, request[r].address)}
          IN  \E seen \in {matching, {}} :
                 request' = [request EXCEPT ![r] = [@ EXCEPT
                     !.todo = request[r].todo \ {f}, !.found = request[r].found \cup seen,
                     !.at = IF request[r].todo = {f} THEN "erase" ELSE "collect"]]
    /\ UNCHANGED <<rules, address, doomed, raced, stale>>

(* A rule that cannot be deleted, or is gone, is passed over. *)
Erase(r) ==
    /\ At(r, "erase")
    /\ \E rule \in request[r].found :
          /\ rules' \in {rules, rules \ {rule}}
          /\ request' = [request EXCEPT ![r] = [@ EXCEPT !.found = request[r].found \ {rule}]]
    /\ UNCHANGED <<address, doomed, raced, stale>>

Erased(r) ==
    /\ At(r, "erase") /\ request[r].found = {}
    /\ request' = [request EXCEPT ![r] = Resting("destroy")]
    /\ UNCHANGED <<rules, address, doomed, raced, stale>>

Destroy(r) ==
    /\ At(r, "destroy")
    /\ doomed' = doomed \cup ({Ask(r).server} \cap Running)
    /\ Finish(r)
    /\ UNCHANGED <<rules, address, raced, stale>>

DeleteServer(r) ==
    AskAddress(r) \/ Collect(r) \/ Erase(r) \/ Erased(r) \/ Destroy(r)
-----------------------------------------------------------------------------
(* Nova and Neutron: a server gets a free address of its project's network; *)
(* with a server go its address and the rules that lead to it.              *)
Boot(s) ==
    /\ address[s] = None /\ s \notin doomed
    /\ \E a \in Net[Project[s]] :
          /\ \A t \in WithAddress(a) : Project[t] # Project[s]
          /\ address' = [address EXCEPT ![s] = a]
    /\ UNCHANGED <<rules, doomed, request, raced, stale>>

Vanish(s) ==
    /\ s \in doomed /\ s \in Running
    /\ address' = [address EXCEPT ![s] = None]
    /\ rules' = {rule \in rules : rule.server # s}
    /\ stale' = stale \cup {r \in Requests : Ask(r).kind = "server" /\ Ask(r).server = s
                                             /\ request[r].at \in {"collect", "erase"}}
    /\ UNCHANGED <<doomed, request, raced>>
-----------------------------------------------------------------------------
Init ==
    /\ rules = Initial
    /\ address \in [Servers -> (UNION {Net[Project[s]] : s \in Servers}) \cup {None}]
    /\ \A s \in Running :
          address[s] \in Net[Project[s]]
          /\ \A t \in WithAddress(address[s]) \ {s} : Project[t] # Project[s]
    /\ \A rule \in rules : rule.server \in Running
    /\ doomed = {}
    /\ \E made \in Together :
          request = [r \in Requests |-> Resting(IF r \in made THEN "new" ELSE "done")]
    /\ raced = {} /\ stale = {}

Next ==
    \/ \E r \in Requests : Add(r) \/ DeleteRule(r) \/ DeleteServer(r) \/ Fail(r)
    \/ \E s \in Servers : Boot(s) \/ Vanish(s)

Spec == Init /\ [][Next]_vars
-----------------------------------------------------------------------------
(* The limit holds for a project's own floating IPs against requests that do *)
(* not overlap: an add during which no other made a rule on a floating IP of *)
(* the project does not take the project beyond it.                          *)
LoneAddWithinLimit ==
    [][\A r \in Requests :
          (\E rule \in rules' \ rules : rule.id = r /\ Owner[rule.fip] = Ask(r).project)
          /\ r \notin raced
              => Cardinality(Of(Ask(r).project)') <= Limit]_vars

(* The deletion of a server takes no other server's rule with it, unless the *)
(* two had the same address in two projects, or the server went, by another  *)
(* request, while this one was at its rules, and left its address to the     *)
(* other.                                                                    *)
OthersRulesStay ==
    [][\A r \in Requests : At(r, "erase") =>
          \A rule \in rules \ rules' :
              rule \in request[r].found \ request'[r].found =>
                  \/ rule.server = Ask(r).server
                  \/ /\ address[rule.server] = request[r].address
                     /\ r \in stale \/ Project[rule.server] # Project[Ask(r).server]]_vars
=============================================================================
