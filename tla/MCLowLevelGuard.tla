-------------------------- MODULE MCLowLevelGuard --------------------------
(* Two leases that change hands and come back, two requests, and a joint    *)
(* that moves under the guard.                                              *)
EXTENDS LowLevelGuard, TLC

MovingJoint == 0..3

Ids == Permutations(LeaseIds) \cup Permutations(RequestIds)

=============================================================================
