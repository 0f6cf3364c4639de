------------------------------ MODULE MCLimits ------------------------------
(* Small zones for TLC. *)
EXTENDS Limits, TLC

At(b, c) == [burst |-> b, cap |-> c]

\* Both limits, limit_req alone and limit_conn alone.
MCLocations == {At(1, 2), At(2, None), At(None, 1)}

Symmetry == Permutations(Requests) \cup Permutations(Keys)
=============================================================================
