----------------------------- MODULE MCLocoChain -----------------------------
(* Instance of LocoChain for TLC: one mode query, whose answer may be good,  *)
(* not an integer, or unreadable; three request ids, and requests of which   *)
(* two are on the wire at a time.                                            *)
EXTENDS LocoChain
MCIds == 1 .. 3
=============================================================================
