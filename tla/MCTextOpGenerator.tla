------------------------- MODULE MCTextOpGenerator -------------------------
(* Three goals fill the three executor threads; motions of one or two      *)
(* primitives have a first, a last and an only segment.                     *)
EXTENDS TextOpGenerator, TLC

Ids == Permutations(Requests)

(* What a later step may read: a machine that is nobody's gives no segment  *)
(* its number, a session that is nobody's counts for nobody, and the token  *)
(* of a command that ended, or that is replaced, is assigned before it is   *)
(* shown again.                                                             *)
Live ==
  LET tokenLive == \/ At("session") \/ At("check")
                   \/ At("generate") \/ At("accept") \/ At("publish") \/ At("finish")
                   \/ (At("top") \/ At("plan")) /\ stream.active # None
  IN <<stream, outcome, lease, reference, silent, alive, ready,
       goal, done, canceled, canceling,
       IF engine.request = None THEN [engine EXCEPT !.segment = 0] ELSE engine,
       IF session.request = None THEN None ELSE session,
       IF tokenLive THEN thread ELSE [thread EXCEPT !.token = None]>>

=============================================================================
