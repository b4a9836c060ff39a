---------------------------- MODULE PythonNone -----------------------------
(* Python's None: one value for the components that are proved about in one  *)
(* module.  It is no number of a request, a turn or a transport.    *)
EXTENDS Naturals

CONSTANT None

ASSUME NoneAssumption == None \notin Nat
=============================================================================
