------------------------- MODULE RunRegistryProofs -------------------------
(***************************************************************************)
(* The safety of the run registry for any number of workers, runs, users,  *)
(* agents and threads.  Everything follows from IInv, the inductive        *)
(* invariant of RunRegistry: the lock serialises the critical sections, so *)
(* that the two dictionaries disagree only while one worker is between its *)
(* two writes, and that worker's program counter says how they disagree.   *)
(***************************************************************************)
EXTENDS RunRegistry, TLAPS

(* The registry starts in IInv: both dictionaries empty, everybody idle. *)
LEMMA InitInvariant == Init => IInv
BY NoneIsFresh, BoundIsNat
   DEF Init, IInv, TypeOK, PC, LockHeld, CriticalPC, OwnRun, OwnPC, RegisterPC,
       UnregisterPC, CancelPC, HeldPC, FoundPC, TableHoldsRuns, IndexFollows,
       OneRunPerKey, CheckPassed, FoundRun

(* Every statement a request thread executes keeps IInv. *)
LEMMA StepInvariant ==
    ASSUME IInv, NEW w \in Worker, Post(w) \/ PostCancel(w) \/ Step(w)
    PROVE  IInv'
<1> USE NoneIsFresh, BoundIsNat
    DEF IInv, TypeOK, LockHeld, OwnRun, TableHoldsRuns, IndexFollows,
        OneRunPerKey, CheckPassed, FoundRun, Goto, Lock, Unlock, dicts, locals,
        PC, RegisterPC, UnregisterPC, CancelPC, ResponsePC, CriticalPC, OwnPC,
        HeldPC, PendingPC, FoundPC
<1>1. CASE Post(w)
  <2>1. PICK r \in Run \ issued, k \in Key :
           /\ issued' = issued \cup {r}
           /\ run' = [run EXCEPT ![w] = r]
           /\ key' = [key EXCEPT ![w] = k]
           /\ caller' = [caller EXCEPT ![w] = k.user]
    BY <1>1 DEF Post
  <2>2. k.user \in User  BY DEF Key
  <2> QED  BY <1>1, <2>1, <2>2, SMTT(30) DEF Post
<1>2. CASE PostCancel(w)       BY <1>2 DEF PostCancel
<1>3. CASE RegisterLock(w)     BY <1>3 DEF RegisterLock
<1>4. CASE RegisterRefuse(w)   BY <1>4 DEF RegisterRefuse
<1>5. CASE RegisterAdmit(w)    BY <1>5 DEF RegisterAdmit, Existing
<1>6. CASE RegisterStore(w)    BY <1>6, SMTT(30) DEF RegisterStore
<1>7. CASE RegisterIndex(w)    BY <1>7, SMTT(30) DEF RegisterIndex
<1>8. CASE EndStream(w)        BY <1>8 DEF EndStream
<1>9. CASE UnregisterLock(w)   BY <1>9 DEF UnregisterLock
<1>10. CASE UnregisterPop(w)   BY <1>10, SMTT(30) DEF UnregisterPop
<1>11. CASE UnregisterIndex(w) BY <1>11, SMTT(30) DEF UnregisterIndex
<1>12. CASE GetLock(w)         BY <1>12 DEF GetLock
<1>13. CASE GetRead(w)         BY <1>13, SMTT(30) DEF GetRead
<1>14. CASE CheckOwner(w)      BY <1>14 DEF CheckOwner
<1>15. CASE CancelLock(w)      BY <1>15 DEF CancelLock
<1>16. CASE CancelSet(w)       BY <1>16 DEF CancelSet
<1>17. CASE Respond(w)         BY <1>17 DEF Respond
<1> QED
  BY <1>1, <1>2, <1>3, <1>4, <1>5, <1>6, <1>7, <1>8, <1>9, <1>10, <1>11,
     <1>12, <1>13, <1>14, <1>15, <1>16, <1>17 DEF Step

(* A restart forgets both dictionaries and every request with them. *)
LEMMA RestartInvariant == IInv /\ Restart => IInv'
BY NoneIsFresh, BoundIsNat
   DEF Restart, locals, IInv, TypeOK, PC, LockHeld, CriticalPC, OwnRun, OwnPC,
       RegisterPC, UnregisterPC, CancelPC, HeldPC, FoundPC, TableHoldsRuns,
       IndexFollows, OneRunPerKey, CheckPassed, FoundRun

LEMMA StutterInvariant == IInv /\ UNCHANGED vars => IInv'
BY DEF vars, IInv, TypeOK, LockHeld, OwnRun, TableHoldsRuns, IndexFollows,
       OneRunPerKey, CheckPassed, FoundRun

(* IInv holds in every state of the registry. *)
THEOREM Invariant == Spec => []IInv
<1>1. Init => IInv  BY InitInvariant
<1>2. IInv /\ [Next]_vars => IInv'
  BY StepInvariant, RestartInvariant, StutterInvariant DEF Next, Quiet
<1> QED  BY <1>1, <1>2, PTL DEF Spec

(* Type correctness of the registry and of its callers. *)
THEOREM TypeCorrect == Spec => []TypeOK
BY Invariant, PTL DEF IInv

(* No two streams ever run on one (user, agent, thread): the guarantee     *)
(* behind the 409 of both agent views.                                     *)
THEOREM ThreadsAreExclusive == Spec => []OneStreamPerThread
<1>1. IInv => OneStreamPerThread
  <2> SUFFICES ASSUME IInv, NEW v \in Worker, NEW w \in Worker,
                      pc[v] = "streaming", pc[w] = "streaming", key[v] = key[w]
               PROVE  v = w
    BY DEF OneStreamPerThread
  <2>1. key[v] \in Key /\ run[v] \in Run /\ run[w] \in Run
    BY DEF IInv, TypeOK, OwnRun, OwnPC
  <2>2. Runs[run[v]] = key[v] /\ Runs[run[w]] = key[w]
    BY DEF IInv, TableHoldsRuns, HeldPC
  <2>3. run[v] = run[w]
    BY <2>1, <2>2, NoneIsFresh DEF IInv, OneRunPerKey
  <2> QED  BY <2>3 DEF IInv, OwnRun, OwnPC
<1> QED  BY <1>1, Invariant, PTL

(* With the lock free, _BY_THREAD is the inverse of _RUNS: a finished run  *)
(* blocks nobody and a 409 always names a run that exists.                 *)
THEOREM IndexIsExact == Spec => []IndexMatches
<1>1. IInv => IndexMatches
  BY NoneIsFresh
     DEF IInv, IndexMatches, TypeOK, LockHeld, IndexFollows, CriticalPC
<1> QED  BY <1>1, Invariant, PTL

(* Nobody but the stream itself takes it out of the registry. *)
THEOREM StreamsStayRegistered == Spec => []StreamIsRegistered
<1>1. IInv => StreamIsRegistered
  <2> SUFFICES ASSUME IInv, NEW w \in Worker, pc[w] = "streaming"
               PROVE  Runs[run[w]] = key[w] /\ ByThread[key[w]] = run[w]
    BY DEF StreamIsRegistered
  <2>1. key[w] \in Key /\ run[w] \in Run
    BY DEF IInv, TypeOK, OwnRun, OwnPC
  <2>2. Runs[run[w]] = key[w]  BY DEF IInv, TableHoldsRuns, HeldPC
  <2>3. ~ \E v \in Worker : pc[v] = "reg_index" /\ run[v] = run[w]
    BY DEF IInv, OwnRun, OwnPC, RegisterPC
  <2> QED  BY <2>1, <2>2, <2>3, NoneIsFresh DEF IInv, IndexFollows
<1> QED  BY <1>1, Invariant, PTL

(* The two lookups of the cancel endpoint find the same run or none: only  *)
(* a request of its owner ever signals it.                                 *)
THEOREM CancelIsOwners == Spec => OnlyOwnerSignals
<1> DEFINE Owned == \A r \in signalled' \ signalled :
                      \E w \in Worker : /\ pc[w] = "cancel_set" /\ run[w] = r
                                        /\ caller[w] = Runs[r].user
<1>1. IInv /\ [Next]_vars => [Owned]_vars
  <2> SUFFICES ASSUME IInv, Next, NEW r \in signalled' \ signalled
               PROVE  \E w \in Worker : /\ pc[w] = "cancel_set" /\ run[w] = r
                                        /\ caller[w] = Runs[r].user
    OBVIOUS
  <2>1. PICK w \in Worker : CancelSet(w)
    BY DEF Next, Restart, Quiet, vars, Post, PostCancel, Step, Lock, dicts,
           RegisterLock, RegisterRefuse, RegisterAdmit, RegisterStore,
           RegisterIndex, EndStream, UnregisterLock, UnregisterPop,
           UnregisterIndex, GetLock, GetRead, CheckOwner, CancelLock, Respond
  <2>2. pc[w] = "cancel_set" /\ run[w] = r /\ Runs[r] # None
    BY <2>1 DEF CancelSet
  <2>3. Runs[r] = key[w] /\ key[w].user = caller[w]
    BY <2>2 DEF IInv, FoundRun, FoundPC
  <2> QED  BY <2>2, <2>3
<1> QED  BY <1>1, Invariant, PTL DEF Spec, OnlyOwnerSignals

(* The dictionaries and their lock implement one lock per key: the table   *)
(* write of register() is the acquisition, the pop of unregister() the     *)
(* release, and everything else is invisible.                              *)
THEOREM RefinesRunLock == Spec => ImplementsRunLock
<1> USE DEF Abstract!vars, Abstract!Next, Abstract!Acquire, Abstract!Release,
            Abstract!Signal, Abstract!Wipe, Abstract!Held
<1>1. Init => Abstract!Init  BY DEF Init, Abstract!Init
<1>2. IInv /\ [Next]_vars => [Abstract!Next]_(Abstract!vars)
  <2> SUFFICES ASSUME IInv, Next
               PROVE  Abstract!Next \/ UNCHANGED <<Runs, signalled>>
    BY DEF vars
  <2>1. ASSUME NEW w \in Worker, RegisterStore(w)  PROVE Abstract!Next
    <3>1. run[w] \in Run /\ key[w] \in Key
      BY <2>1 DEF RegisterStore, IInv, TypeOK, OwnRun, OwnPC, RegisterPC
    <3>2. \A r \in Run : Runs[r] # key[w]
      BY <2>1 DEF RegisterStore, IInv, CheckPassed
    <3>3. Runs[run[w]] = None
      BY <2>1, <3>1
         DEF RegisterStore, IInv, OwnRun, TableHoldsRuns, OwnPC, HeldPC,
             RegisterPC, UnregisterPC
    <3> QED  BY <2>1, <3>1, <3>2, <3>3 DEF RegisterStore
  <2>2. ASSUME NEW w \in Worker, UnregisterPop(w)
        PROVE  Abstract!Next \/ UNCHANGED <<Runs, signalled>>
    <3>1. run[w] \in Run /\ Runs \in [Run -> Key \cup {None}]
      BY <2>2 DEF UnregisterPop, IInv, TypeOK, OwnRun, OwnPC, UnregisterPC
    <3> QED  BY <2>2, <3>1 DEF UnregisterPop
  <2>3. ASSUME NEW w \in Worker, CancelSet(w)
        PROVE  Abstract!Next \/ UNCHANGED <<Runs, signalled>>
    <3>1. run[w] \in Run
      BY <2>3 DEF CancelSet, IInv, TypeOK, OwnRun, CancelPC
    <3> QED  BY <2>3, <3>1 DEF CancelSet
  <2>4. CASE Restart  BY <2>4 DEF Restart
  <2> QED
    BY <2>1, <2>2, <2>3, <2>4
       DEF Next, Quiet, vars, Post, PostCancel, Step, Lock, dicts, RegisterLock,
           RegisterRefuse, RegisterAdmit, RegisterIndex, EndStream,
           UnregisterLock, UnregisterIndex, GetLock, GetRead, CheckOwner,
           CancelLock, Respond
<1> QED  BY <1>1, <1>2, Invariant, PTL DEF Spec, ImplementsRunLock, Abstract!Spec
=============================================================================
