--------------------------- MODULE MCResultLinks ---------------------------
(***************************************************************************)
(* A small instance of ResultLinks for TLC: the turns and requests are in  *)
(* the configuration.                                                      *)
(***************************************************************************)
EXTENDS ResultLinks
=============================================================================
