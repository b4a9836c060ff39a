------------------------------- MODULE MCG1Sim -------------------------------
(* Instance of G1Sim for TLC: two speeds, commands of no, one and two ticks; *)
(* the applications, the streams and the values of settings are symmetric.   *)
EXTENDS G1Sim, TLC
MCSpeeds == {0, 1}
MCDurations == {0, 1, 2}
Symmetry == Permutations(Apps) \cup Permutations(Streams) \cup Permutations(Values)
=============================================================================
