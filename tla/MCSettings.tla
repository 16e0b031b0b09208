----------------------------- MODULE MCSettings -----------------------------
(***************************************************************************)
(* Settings for TLC: on one key three PUTs and a reset, of which any may   *)
(* overlap; a PUT of a user who may not, and one of an unknown key.        *)
(***************************************************************************)
EXTENDS Settings, TLC

CONSTANTS k1, x, v1, v2, v3

Put(k, v, admin) == [method |-> "PUT", key |-> k, value |-> v, admin |-> admin]

Reset(k) == [method |-> "DELETE", key |-> k, value |-> v1, admin |-> TRUE]

MCAsks ==
    <<Put(k1, v1, TRUE), Put(k1, v2, TRUE), Put(k1, v3, TRUE), Reset(k1),
      Put(k1, v1, FALSE), Put(x, v1, TRUE)>>
=============================================================================
