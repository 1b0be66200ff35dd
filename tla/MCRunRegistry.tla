--------------------------- MODULE MCRunRegistry ---------------------------
(***************************************************************************)
(* A small instance of RunRegistry for TLC: three request threads, so that *)
(* two posts and a cancel (or a cancel and a waiting post) can be inside   *)
(* the registry at once, and two users, so that a stranger can ask.  No    *)
(* symmetry: the run checks a liveness property.                           *)
(***************************************************************************)
EXTENDS RunRegistry

(* One thread of one agent is enough: keys never interact. *)
OneAgent == {"sql"}
=============================================================================
