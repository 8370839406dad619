------------------------------ MODULE MCCliHost ------------------------------
(***************************************************************************)
(* Instance of CliHost for TLC.                                            *)
(***************************************************************************)
EXTENDS CliHost
=============================================================================
