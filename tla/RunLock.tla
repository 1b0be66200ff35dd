------------------------------ MODULE RunLock ------------------------------
(***************************************************************************)
(* What core/services/run_registry.py promises its callers: a table of the *)
(* runs in flight in which no two runs hold the same key, and a            *)
(* cancellation signal per run.  A key is the triple (user, agent, thread) *)
(* of a POST.  Nothing here says how the table is kept; RunRegistry does,  *)
(* dictionary by dictionary, and implements this module.                   *)
(***************************************************************************)

CONSTANTS Run,    \* run ids (uuid4 hex), never reused
          Key,    \* (user, agent, thread) triples
          None    \* the absence of a key; not in Key

VARIABLES inflight,   \* inflight[r]: the key run r holds, None when it holds none
          signalled   \* the runs whose cancel_event is set

vars == <<inflight, signalled>>

TypeOK == /\ inflight \in [Run -> Key \cup {None}]
          /\ signalled \subseteq Run

Init == /\ inflight = [r \in Run |-> None]
        /\ signalled = {}

Held(k) == \E r \in Run : inflight[r] = k

----------------------------------------------------------------------------

(* register(): admitted only while nobody holds the key. *)
Acquire(r, k) ==
    /\ inflight[r] = None
    /\ ~ Held(k)
    /\ inflight' = [inflight EXCEPT ![r] = k]
    /\ UNCHANGED signalled

(* unregister() *)
Release(r) ==
    /\ inflight[r] # None
    /\ inflight' = [inflight EXCEPT ![r] = None]
    /\ UNCHANGED signalled

(* cancel(): only a run in flight can be signalled. *)
Signal(r) ==
    /\ inflight[r] # None
    /\ signalled' = signalled \cup {r}
    /\ UNCHANGED inflight

(* The process restarts: the table lives in its memory. *)
Wipe ==
    /\ inflight' = [r \in Run |-> None]
    /\ signalled' = {}

Next == \/ \E r \in Run, k \in Key : Acquire(r, k)
        \/ \E r \in Run : Release(r) \/ Signal(r)
        \/ Wipe

Spec == Init /\ [][Next]_vars

----------------------------------------------------------------------------

(* At most one run in flight per (user, agent, thread): what the 409 of    *)
(* both agent views rests on (run_registry.register).                      *)
Exclusive ==
    \A r, s \in Run : inflight[r] # None /\ inflight[r] = inflight[s] => r = s
=============================================================================
