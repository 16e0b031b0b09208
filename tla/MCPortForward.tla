----------------------------- MODULE MCPortForward -----------------------------
(***************************************************************************)
(* PortForward for TLC: two projects whose networks have an address in     *)
(* common; a project with two floating IPs, one of them seen by the other  *)
(* project too; adds with a given port and without, and deletions of a     *)
(* rule and, twice, of a server whose address another server gets.         *)
(***************************************************************************)
EXTENDS PortForward, TLC

CONSTANTS own, shared, lab, guest, a1, a2, b1, x, y, old

MCOwner == (own :> lab) @@ (shared :> lab)

MCVisible == (lab :> {own, shared}) @@ (guest :> {shared})

MCProject == (a1 :> lab) @@ (a2 :> lab) @@ (b1 :> guest)

MCNet == (lab :> {x, y}) @@ (guest :> {x})

AddRule(project, fip, port, addr) ==
    [kind |-> "add", project |-> project, fip |-> fip, port |-> port, address |-> addr]

MCAsks ==
    <<AddRule(lab, own, None, x), AddRule(lab, shared, 1, x), AddRule(guest, shared, 1, x),
      [kind |-> "delete", rule |-> old],
      [kind |-> "server", server |-> a1], [kind |-> "server", server |-> a1],
      AddRule(lab, None, 1, y)>>

(* Adds on one project's floating IPs; a server deleted twice while rules *)
(* are added; adds and deletions of one another's rules.                  *)
MCTogether == {{1, 2, 3, 7}, {2, 3, 5, 6}, {1, 2, 4, 5}}

MCInitial == {[id |-> old, fip |-> own, port |-> 1, server |-> a1]}
=============================================================================
