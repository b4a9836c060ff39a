---------------------------- MODULE MCDebugPanel ----------------------------
(* Three changes in all, one more than the timeline holds, and a page        *)
(* that opens a second socket while the first is still in the server's set.  *)
EXTENDS DebugPanel
=============================================================================
