---------------------------- MODULE MCAsrPipeline ----------------------------
(* Instance of AsrPipeline for TLC: seven chunks are two utterances with a  *)
(* full pause between them, through queues small enough to fill.            *)
EXTENDS AsrPipeline
=============================================================================
