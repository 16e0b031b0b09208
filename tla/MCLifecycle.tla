----------------------------- MODULE MCLifecycle -----------------------------
(* Instances of Lifecycle.tla for TLC. *)
EXTENDS Lifecycle, TLC

CONSTANTS i1, a1, w1, w2, r1, r2

OneDayGrace == [enabled |-> TRUE, lifetime |-> 1, grace |-> 1]
LongGrace == [OneDayGrace EXCEPT !.grace = 2]

FixedSettings == {OneDayGrace}
GraceChanges == {OneDayGrace, LongGrace}

(* Of ALL_OPTS (config/openstack.py:310-346), those that the scheduler uses. *)
DeclaredOpts == {"keystone_url", "system_project", "system_project_domain",
                 "system_user_domain", "system_user_name", "system_user_password"}

(* With the name that _delete_instance reads declared as well. *)
CompletedOpts == DeclaredOpts \cup {"system_user"}

Symmetry == Permutations(Workers) \cup Permutations(Requests)
=============================================================================
