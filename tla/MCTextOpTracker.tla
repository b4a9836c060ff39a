-------------------------- MODULE MCTextOpTracker --------------------------
(* Two motions of up to three segments of two frames: a first, a last, and  *)
(* one between them that may be missing.                                    *)
EXTENDS TextOpTracker, TLC

Ids == Permutations(Requests)

=============================================================================
