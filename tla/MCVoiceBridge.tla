---------------------------- MODULE MCVoiceBridge ----------------------------
(* Instances of VoiceBridge for TLC: answers of one command of each kind    *)
(* that differs to the node, one of two, and one that fails half way.       *)
EXTENDS VoiceBridge

MCAnswers == {<<>>, <<"loco">>, <<"textop", "loco">>, <<"loco", "bad">>, <<"say", "stop">>}
=============================================================================
