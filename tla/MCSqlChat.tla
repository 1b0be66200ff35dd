----------------------------- MODULE MCSqlChat -----------------------------
(***************************************************************************)
(* Small instances of SqlChat for TLC: two or three requests that meet on  *)
(* one thread, at most two LLM calls each (one to ask for a tool and one   *)
(* to answer), and a summarizer that keeps three messages, one less than a *)
(* turn with a tool call has.                                              *)
(***************************************************************************)
EXTENDS SqlChat, TLC

Symmetry == Permutations(Run \ SyncRun)
=============================================================================
