--------------------------- MODULE MCInMemoryCache ---------------------------
(***************************************************************************)
(* Instance of InMemoryCache for TLC.                                      *)
(***************************************************************************)
EXTENDS InMemoryCache
=============================================================================
