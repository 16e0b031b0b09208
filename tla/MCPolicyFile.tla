---------------------------- MODULE MCPolicyFile ----------------------------
(***************************************************************************)
(* PolicyFile for TLC: threads are alike, and so are contents.             *)
(***************************************************************************)
EXTENDS PolicyFile, TLC

CONSTANTS t1, t2, g1, g2, b1
=============================================================================
