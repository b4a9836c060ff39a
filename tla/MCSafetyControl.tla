--------------------------- MODULE MCSafetyControl ---------------------------
(* Instance of SafetyControl for TLC: one axis with three speeds, so that   *)
(* one step limit reaches from 0 to either end and not from end to end.     *)
EXTENDS SafetyControl

MCSpeeds == -1 .. 1

(* The robot is in sport mode; reports and commands of another mode, and    *)
(* health reports that are not ok, come and go besides.                     *)
MCSport == {[mode |-> "sport", sound |-> TRUE]}
=============================================================================
