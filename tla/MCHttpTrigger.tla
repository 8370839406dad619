---------------------------- MODULE MCHttpTrigger ----------------------------
(***************************************************************************)
(* Instances of HttpTrigger for TLC.                                       *)
(***************************************************************************)
EXTENDS HttpTrigger
=============================================================================
