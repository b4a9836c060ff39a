------------------------------ MODULE MCPiAgent ------------------------------
(* Instances of PiAgent for TLC: its constants are numbers.                 *)
EXTENDS PiAgent
=============================================================================
