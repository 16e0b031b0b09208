------------------------------- MODULE MCSignup -------------------------------
(***************************************************************************)
(* Instances of Signup for TLC.                                            *)
(***************************************************************************)
EXTENDS Signup, TLC

CONSTANTS r1, r2, r3, ann, bob

TwoForAnn == r1 :> ann @@ r2 :> ann @@ r3 :> bob

AllFaults == Fault
=============================================================================
