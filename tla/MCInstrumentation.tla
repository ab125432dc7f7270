---------------------------- MODULE MCInstrumentation ----------------------------
(* A TLC instance of Instrumentation. *)
EXTENDS Instrumentation

MCRss == {1, 2}
MCObservations == {<<TRUE, "failed">>}

===============================================================================
