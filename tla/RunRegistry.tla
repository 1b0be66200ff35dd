---------------------------- MODULE RunRegistry ----------------------------
(***************************************************************************)
(* The in-process run registry (core/services/run_registry.py), statement  *)
(* by statement under its lock, with the request threads that call it: the *)
(* two agent views (register, stream, unregister) and the cancel endpoint  *)
(* (core/run_views.py: get, compare the owner, cancel).                    *)
(*                                                                         *)
(* The dictionaries _RUNS and _BY_THREAD are total functions with None for *)
(* a missing key, as dict.get and dict.pop(.., None) return it.  A key is  *)
(* the RunHandle without its run id: user, agent and thread.               *)
(***************************************************************************)
EXTENDS Naturals

CONSTANTS Worker,       \* request threads of the one server process
          Run,          \* run ids
          User, Agent, Thread,
          MaxRequests,  \* requests and restarts in one behaviour
          None

Key == [user : User, agent : Agent, thread : Thread]

ASSUME NoneIsFresh == None \notin Worker \cup Run \cup Key \cup User
ASSUME BoundIsNat == MaxRequests \in Nat

VARIABLES lock,       \* _LOCK: the worker that holds it, or None
          Runs,       \* _RUNS: run id -> handle
          ByThread,   \* _BY_THREAD: key -> run id
          signalled,  \* the runs whose handle.cancel_event is set
          issued,     \* run ids uuid4() has returned
          served,     \* requests received and restarts suffered
          pc, run, key, caller   \* per worker: statement and local variables

vars == <<lock, Runs, ByThread, signalled, issued, served, pc, run, key, caller>>
dicts == <<Runs, ByThread, signalled>>
locals == <<run, key, caller>>

RegisterPC   == {"reg_wait", "reg_check", "reg_store", "reg_index"}
UnregisterPC == {"unreg_wait", "unreg_pop", "unreg_index"}
CancelPC     == {"get_wait", "get_read", "owner", "cancel_wait", "cancel_set"}
ResponsePC   == {"r409", "r404", "r403", "r200"}
CriticalPC   == {"reg_check", "reg_store", "reg_index", "unreg_pop",
                 "unreg_index", "get_read", "cancel_set"}
PC == {"idle", "streaming"} \cup RegisterPC \cup UnregisterPC \cup CancelPC
                            \cup ResponsePC

TypeOK ==
    /\ lock \in Worker \cup {None}
    /\ Runs \in [Run -> Key \cup {None}]
    /\ ByThread \in [Key -> Run \cup {None}]
    /\ signalled \subseteq Run
    /\ issued \subseteq Run
    /\ served \in 0..MaxRequests
    /\ pc \in [Worker -> PC]
    /\ run \in [Worker -> Run \cup {None}]
    /\ key \in [Worker -> Key \cup {None}]
    /\ caller \in [Worker -> User \cup {None}]

Init ==
    /\ lock = None
    /\ Runs = [r \in Run |-> None]
    /\ ByThread = [k \in Key |-> None]
    /\ signalled = {}
    /\ issued = {}
    /\ served = 0
    /\ pc = [w \in Worker |-> "idle"]
    /\ run = [w \in Worker |-> None]
    /\ key = [w \in Worker |-> None]
    /\ caller = [w \in Worker |-> None]

Goto(w, l) == pc' = [pc EXCEPT ![w] = l]

(* "with _LOCK:" on entry and on exit *)
Lock(w, from, to) ==
    /\ pc[w] = from /\ lock = None
    /\ lock' = w
    /\ Goto(w, to)
    /\ UNCHANGED <<dicts, issued, served, locals>>

(* Mutant: the lock is taken by acquire() and a path leaves without release. *)
ForgetUnlock == UNCHANGED lock

Unlock == lock' = None

----------------------------------------------------------------------------
(* An agent view: run_id = uuid4().hex, then register(). *)

Post(w) ==
    /\ pc[w] = "idle" /\ served < MaxRequests
    /\ \E r \in Run \ issued, k \in Key :
         /\ issued' = issued \cup {r}
         /\ run' = [run EXCEPT ![w] = r]
         /\ key' = [key EXCEPT ![w] = k]
         /\ caller' = [caller EXCEPT ![w] = k.user]
    /\ served' = served + 1
    /\ Goto(w, "reg_wait")
    /\ UNCHANGED <<lock, dicts>>

RegisterLock(w) == Lock(w, "reg_wait", "reg_check")

(* Mutant: a run told to stop is treated as gone. *)
ExistingUnsignalled(k) == /\ ByThread[k] # None /\ Runs[ByThread[k]] # None
                          /\ ByThread[k] \notin signalled

(* The thread's run, if the index names one that is still in the table. *)
Existing(k) == ByThread[k] # None /\ Runs[ByThread[k]] # None

(* raise ConcurrentRunError: the view answers 409 *)
RegisterRefuse(w) ==
    /\ pc[w] = "reg_check" /\ Existing(key[w])
    /\ Unlock
    /\ Goto(w, "r409")
    /\ UNCHANGED <<dicts, issued, served, locals>>

RegisterAdmit(w) ==
    /\ pc[w] = "reg_check" /\ ~ Existing(key[w])
    /\ Goto(w, "reg_store")
    /\ UNCHANGED <<lock, dicts, issued, served, locals>>

RegisterStore(w) ==
    /\ pc[w] = "reg_store"
    /\ Runs' = [Runs EXCEPT ![run[w]] = key[w]]
    /\ Goto(w, "reg_index")
    /\ UNCHANGED <<lock, ByThread, signalled, issued, served, locals>>

(* Mutant: the index is left to the handle's consumer to fill. *)
RegisterNoIndex(w) ==
    /\ pc[w] = "reg_index"
    /\ Unlock
    /\ Goto(w, "streaming")
    /\ UNCHANGED <<dicts, issued, served, locals>>

(* Mutant: the index is keyed by thread and holds the thread, not the run. *)
RegisterIndexKey(w) ==
    /\ pc[w] = "reg_index"
    /\ ByThread' = [ByThread EXCEPT ![key[w]] = key[w]]
    /\ Unlock
    /\ Goto(w, "streaming")
    /\ UNCHANGED <<Runs, signalled, issued, served, locals>>

RegisterIndex(w) ==
    /\ pc[w] = "reg_index"
    /\ ByThread' = [ByThread EXCEPT ![key[w]] = run[w]]
    /\ Unlock
    /\ Goto(w, "streaming")
    /\ UNCHANGED <<Runs, signalled, issued, served, locals>>

(* The stream ends, in whatever way: the finally block unregisters. *)
EndStream(w) ==
    /\ pc[w] = "streaming"
    /\ Goto(w, "unreg_wait")
    /\ UNCHANGED <<lock, dicts, issued, served, locals>>

UnregisterLock(w) == Lock(w, "unreg_wait", "unreg_pop")

UnregisterPop(w) ==
    /\ pc[w] = "unreg_pop"
    /\ Runs' = [Runs EXCEPT ![run[w]] = None]
    /\ IF Runs[run[w]] = None
         THEN Unlock /\ Goto(w, "idle")
         ELSE UNCHANGED lock /\ Goto(w, "unreg_index")
    /\ UNCHANGED <<ByThread, signalled, issued, served, locals>>

(* Mutant: unregister() forgets _BY_THREAD. *)
UnregisterTableOnly(w) ==
    /\ pc[w] = "unreg_index"
    /\ Unlock
    /\ Goto(w, "idle")
    /\ UNCHANGED <<dicts, issued, served, locals>>

(* The popped handle holds the key it was registered with. *)
UnregisterIndex(w) ==
    /\ pc[w] = "unreg_index"
    /\ ByThread' = IF ByThread[key[w]] = run[w]
                     THEN [ByThread EXCEPT ![key[w]] = None] ELSE ByThread
    /\ Unlock
    /\ Goto(w, "idle")
    /\ UNCHANGED <<Runs, signalled, issued, served, locals>>

----------------------------------------------------------------------------
(* POST /runs/<run_id>/cancel/ by user u: two critical sections. *)

PostCancel(w) ==
    /\ pc[w] = "idle" /\ served < MaxRequests
    /\ \E r \in issued, u \in User :
         /\ run' = [run EXCEPT ![w] = r]
         /\ caller' = [caller EXCEPT ![w] = u]
    /\ key' = [key EXCEPT ![w] = None]
    /\ served' = served + 1
    /\ Goto(w, "get_wait")
    /\ UNCHANGED <<lock, dicts, issued>>

GetLock(w) == Lock(w, "get_wait", "get_read")

(* handle = run_registry.get(run_id); None is answered 404.  The view keeps *)
(* the handle, whatever happens to the registry afterwards.                 *)
GetRead(w) ==
    /\ pc[w] = "get_read"
    /\ key' = [key EXCEPT ![w] = Runs[run[w]]]
    /\ Unlock
    /\ Goto(w, IF Runs[run[w]] = None THEN "r404" ELSE "owner")
    /\ UNCHANGED <<dicts, issued, served, run, caller>>

(* Mutant: the 403 is dropped. *)
SkipOwner(w) ==
    /\ pc[w] = "owner"
    /\ Goto(w, "cancel_wait")
    /\ UNCHANGED <<lock, dicts, issued, served, locals>>

(* if handle.user_id != str(request.user.id): 403 *)
CheckOwner(w) ==
    /\ pc[w] = "owner"
    /\ Goto(w, IF key[w].user = caller[w] THEN "cancel_wait" ELSE "r403")
    /\ UNCHANGED <<lock, dicts, issued, served, locals>>

CancelLock(w) == Lock(w, "cancel_wait", "cancel_set")

(* Mutant: cancel() sets the event of the handle the view already has. *)
CancelStale(w) ==
    /\ pc[w] = "cancel_set"
    /\ signalled' = signalled \cup {run[w]}
    /\ Unlock
    /\ Goto(w, "r200")
    /\ UNCHANGED <<Runs, ByThread, issued, served, locals>>

(* cancel() returns None when the run has gone; the view does not look at *)
(* what it returns and answers 200 "cancelling" either way.               *)
CancelSet(w) ==
    /\ pc[w] = "cancel_set"
    /\ signalled' = IF Runs[run[w]] = None THEN signalled ELSE signalled \cup {run[w]}
    /\ Unlock
    /\ Goto(w, "r200")
    /\ UNCHANGED <<Runs, ByThread, issued, served, locals>>

Respond(w) ==
    /\ pc[w] \in ResponsePC
    /\ Goto(w, "idle")
    /\ UNCHANGED <<lock, dicts, issued, served, locals>>

----------------------------------------------------------------------------
(* The server process dies and comes back with empty dictionaries. *)
Restart ==
    /\ served < MaxRequests
    /\ served' = served + 1
    /\ lock' = None
    /\ Runs' = [r \in Run |-> None]
    /\ ByThread' = [k \in Key |-> None]
    /\ signalled' = {}
    /\ pc' = [w \in Worker |-> "idle"]
    /\ UNCHANGED <<issued, locals>>

(* Nothing left to ask and nobody inside a request. *)
Quiet ==
    /\ served = MaxRequests \/ issued = Run
    /\ \A w \in Worker : pc[w] = "idle"
    /\ UNCHANGED vars

Step(w) ==
    \/ RegisterLock(w) \/ RegisterRefuse(w) \/ RegisterAdmit(w)
    \/ RegisterStore(w) \/ RegisterIndex(w) \/ EndStream(w)
    \/ UnregisterLock(w) \/ UnregisterPop(w) \/ UnregisterIndex(w)
    \/ GetLock(w) \/ GetRead(w) \/ CheckOwner(w) \/ CancelLock(w)
    \/ CancelSet(w) \/ Respond(w)

Next == \/ \E w \in Worker : Post(w) \/ PostCancel(w) \/ Step(w)
        \/ Restart
        \/ Quiet

Spec == Init /\ [][Next]_vars

(* A worker inside a request keeps executing: threads are scheduled by the *)
(* OS, and a stream ends because every LLM call has a timeout.             *)
Fairness == \A w \in Worker : WF_vars(Step(w))
FairSpec == Spec /\ Fairness

----------------------------------------------------------------------------

(* No two streams run on one (user, agent, thread), however the critical   *)
(* sections of register and unregister interleave (register, run_registry  *)
(* lines 57-65).                                                           *)
OneStreamPerThread ==
    \A v, w \in Worker : /\ pc[v] = "streaming" /\ pc[w] = "streaming"
                         /\ key[v] = key[w]
                         => v = w

(* Outside the critical sections the index and the table say the same, so  *)
(* that a 409 names a run that exists and a finished run blocks nobody     *)
(* (register lines 63-64 against unregister lines 71-75).                  *)
IndexMatches ==
    lock = None =>
      \A k \in Key, r \in Run : ByThread[k] = r <=> Runs[r] = k

(* A stream stays registered from its register() to its own unregister():  *)
(* no other request's cleanup evicts it, so it stays visible to the cancel *)
(* endpoint and keeps its thread locked.                                   *)
StreamIsRegistered ==
    \A w \in Worker : pc[w] = "streaming" =>
        Runs[run[w]] = key[w] /\ ByThread[key[w]] = run[w]

(* A run is signalled only by a request of the user that owns it, although *)
(* RunCancelView looks the run up twice, in two critical sections.         *)
OnlyOwnerSignals ==
    [][\A r \in signalled' \ signalled :
         \E w \in Worker : /\ pc[w] = "cancel_set" /\ run[w] = r
                           /\ caller[w] = Runs[r].user]_vars

(* Every request is answered: the lock never wedges the workers. *)
EveryRequestEnds == \A w \in Worker : pc[w] # "idle" ~> pc[w] = "idle"

(* The registry is a lock per (user, agent, thread). *)
Abstract == INSTANCE RunLock WITH inflight <- Runs
ImplementsRunLock == Abstract!Spec

----------------------------------------------------------------------------
(* The inductive invariant behind the properties above, part by part.       *)

OwnPC == RegisterPC \cup {"streaming"} \cup UnregisterPC
HeldPC == {"reg_index", "streaming", "unreg_wait", "unreg_pop"}
PendingPC == {"reg_wait", "reg_check", "reg_store"}
FoundPC == {"owner", "cancel_wait", "cancel_set"}

(* The lock is held by exactly the worker inside a critical section. *)
LockHeld == \A w \in Worker : pc[w] \in CriticalPC <=> lock = w

(* A run id is local to the request that drew it. *)
OwnRun ==
    /\ \A w \in Worker : pc[w] \in OwnPC \cup CancelPC => run[w] \in issued
    /\ \A w \in Worker : pc[w] \in OwnPC \cup FoundPC => key[w] \in Key
    /\ \A v, w \in Worker : /\ pc[v] \in OwnPC /\ pc[w] \in OwnPC
                            /\ run[v] = run[w]
                            => v = w

(* _RUNS holds the runs between reg_store and unreg_pop, and no others. *)
TableHoldsRuns ==
    /\ \A w \in Worker : pc[w] \in HeldPC => Runs[run[w]] = key[w]
    /\ \A r \in Run : Runs[r] # None =>
         \E w \in Worker : pc[w] \in HeldPC /\ run[w] = r

(* _BY_THREAD lags _RUNS only inside the two critical sections. *)
IndexFollows ==
    /\ \A r \in Run : Runs[r] # None =>
         \/ ByThread[Runs[r]] = r
         \/ \E w \in Worker : pc[w] = "reg_index" /\ run[w] = r
    /\ \A k \in Key : ByThread[k] # None =>
         \/ Runs[ByThread[k]] = k
         \/ \E w \in Worker : /\ pc[w] = "unreg_index"
                               /\ run[w] = ByThread[k] /\ key[w] = k

OneRunPerKey ==
    \A r, s \in Run : Runs[r] # None /\ Runs[r] = Runs[s] => r = s

(* Past the check nobody holds the key. *)
CheckPassed ==
    /\ \A w \in Worker : pc[w] = "reg_store" => \A r \in Run : Runs[r] # key[w]
    /\ \A w \in Worker : pc[w] \in {"reg_store", "reg_index"} => ByThread[key[w]] = None

(* What the cancel endpoint learnt of a run stays true of it. *)
FoundRun ==
    \A w \in Worker : pc[w] \in FoundPC =>
        /\ Runs[run[w]] \in {None, key[w]}
        /\ pc[w] # "owner" => key[w].user = caller[w]
        /\ \A v \in Worker : pc[v] \in PendingPC => run[v] # run[w]

IInv == /\ TypeOK /\ LockHeld /\ OwnRun /\ TableHoldsRuns /\ IndexFollows
        /\ OneRunPerKey /\ CheckPassed /\ FoundRun

=============================================================================
