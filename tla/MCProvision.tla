----------------------------- MODULE MCProvision -----------------------------
(***************************************************************************)
(* Instances of Provision for TLC.                                         *)
(***************************************************************************)
EXTENDS Provision, TLC

CONSTANTS c1, c2, d1, d2, v1, n1, n2

Targets == d1 :> c1 @@ d2 :> c2

Names == c1 :> n1 @@ c2 :> n2

Additional == c1 :> <<"ssh", "web">> @@ c2 :> <<"ssh">>

(* Services that answer, for two servers of which one is deleted; and for the one
   that boots from a volume, the failures of the API server itself, and every
   fault. *)
CleanAndFaulty ==
    {[faults |-> {}, creates |-> {c1, c2}, deletes |-> {d1}]}
      \cup {[faults |-> f, creates |-> {c2}, deletes |-> {d2}] :
              f \in {{"database", "crash"}, Fault}}
=============================================================================
