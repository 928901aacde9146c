------------------------------ MODULE MCLeases ------------------------------
(* An instance of Leases for TLC: an account with a limit and one without. *)
EXTENDS Leases, TLC

CONSTANTS u1, u2
MixedLimits == (u1 :> 1 @@ u2 :> 0)
Symmetry == Permutations(Requests)
=============================================================================
