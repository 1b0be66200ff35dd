--------------------------- MODULE SqlChatProofs ---------------------------
(***************************************************************************)
(* The safety of the SQL agent's turns for any number of threads, runs and *)
(* LLM calls, under every fault of SqlChat.  Everything follows from IInv, *)
(* the inductive invariant of that module: a stream holds its thread in    *)
(* the registry from register() to unregister(), so that the copy of the   *)
(* messages its graph works on stays the checkpoint's, and whose calls     *)
(* have their results can be told from the copy.  With it, every step is   *)
(* one of Conversation, whose theorem then is one about checkpoints.       *)
(***************************************************************************)
EXTENDS SqlChat, SequenceTheorems, TLAPS

----------------------------------------------------------------------------
(* Messages and their sequences *)

LastIs(s, m) == s # <<>> /\ s[Len(s)] = m

(* What a request does, or has done to it. *)
RunStep(r) ==
    \/ NewChat(r) \/ OldChat(r) \/ NotFound(r) \/ Step(r)
    \/ Cancel(r) \/ Disconnect(r) \/ Fail(r)

LEMMA MsgType ==
    ASSUME TypeOK, NEW r \in Run, NEW k \in {"human", "call", "tool", "answer", "empty"}
    PROVE  Msg(k, r) \in Message
BY DEF TypeOK, Msg, Message

LEMMA ToolForType == ASSUME NEW m \in Message PROVE ToolFor(m) \in Message
BY DEF ToolFor, Message

LEMMA RepairedType == ASSUME NEW s \in Seq(Message) PROVE Repaired(s) \in Seq(Message)
<1>1. CASE s = <<>>  BY <1>1 DEF Repaired, LastKind
<1>2. CASE s # <<>>
  <2>1. s[Len(s)] \in Message  BY <1>2
  <2> QED  BY <2>1, ToolForType DEF Repaired
<1> QED  BY <1>1, <1>2

LEMMA LastOfAppend ==
    ASSUME NEW s \in Seq(Message), NEW m
    PROVE  LastIs(Append(s, m), m)
BY DEF LastIs

(* What summarize leaves is the end of the sequence, and a sequence.       *)
LEMMA TailType ==
    ASSUME NEW s \in Seq(Message), NEW i \in DOMAIN s
    PROVE  /\ SubSeq(s, i, Len(s)) \in Seq(Message)
BY SubSeqProperties

LEMMA LastOfTail ==
    ASSUME NEW s \in Seq(Message), NEW i \in DOMAIN s
    PROVE  /\ SubSeq(s, i, Len(s)) # <<>>
           /\ SubSeq(s, i, Len(s))[Len(SubSeq(s, i, Len(s)))] = s[Len(s)]
<1> DEFINE x == SubSeq(s, i, Len(s))
<1>1. Len(x) = Len(s) - i + 1 /\ \A j \in 1..Len(x) : x[j] = s[i + j - 1]
  BY SubSeqProperties
<1>2. x \in Seq(Message)  BY TailType
<1> HIDE DEF x
<1>3. i \in 1..Len(s) /\ Len(s) \in Nat  OBVIOUS
<1>4. i + (Len(s) - i + 1) - 1 = Len(s)  BY <1>3
<1>5. Len(x) \in 1..Len(x)  BY <1>1, <1>3
<1>6. x[Len(x)] = s[Len(s)] /\ x # <<>>  BY <1>1, <1>2, <1>4, <1>5
<1> QED  BY <1>6 DEF x

LEMMA PrefixOfAppend ==
    ASSUME NEW s \in Seq(Message), NEW m \in Message
    PROVE  IsPrefix(s, Append(s, m))
BY DEF IsPrefix

LEMMA PrefixOfSelf == ASSUME NEW s \in Seq(Message) PROVE IsPrefix(s, s)
BY DEF IsPrefix

LEMMA EmptyPrefix == ASSUME NEW s \in Seq(Message) PROVE IsPrefix(<<>>, s)
<1>1. SubSeq(<<>>, 1, 0) = <<>> /\ SubSeq(s, 1, 0) = <<>>  BY SubSeqEmpty
<1> QED  BY <1>1 DEF IsPrefix

----------------------------------------------------------------------------
(* The inductive invariant *)

(* Tools run after a call, of the run's own. *)
LEMMA ToolsAfterCall ==
    ASSUME TypeOK, LastIsOwn, NEW r \in Run, Tools(r)
    PROVE  /\ mem[r] # <<>> /\ mem[r] \in Seq(Message) /\ mem[r][Len(mem[r])] \in Message
           /\ mem[r][Len(mem[r])].by = r /\ LastKind(mem[r]) = "call"
<1>1. pc[r] = "tools" /\ pc[r] \in InGraph  BY DEF Tools, InGraph, Running
<1>2. mem[r] # <<>> /\ mem[r][Len(mem[r])].by = r /\ LastKind(mem[r]) \in Said(pc[r])
  BY <1>1 DEF LastIsOwn
<1>3. mem[r] \in Seq(Message)  BY DEF TypeOK
<1> QED  BY <1>1, <1>2, <1>3 DEF Said

LEMMA InitInvariant == Init => IInv
<1> SUFFICES ASSUME Init PROVE IInv  OBVIOUS
<1>1. TypeOK
  <2> USE ConstantsAreSane DEF Init
  <2>1. Registry!TypeOK  BY DEF Registry!Init, Registry!TypeOK
  <2>2. pc \in [Run -> PC]  BY DEF PC
  <2>3. log \in [Thread -> Seq(Message)] /\ mem \in [Run -> Seq(Message)]  OBVIOUS
  <2>4. told \in [Run -> SUBSET {"refused", "done", "cancelled", "error"}]  OBVIOUS
  <2>5. calls \in [Run -> 0..MaxCalls] /\ usage \in [Run -> Nat]  OBVIOUS
  <2>6. chat \in [Thread -> {"none", "untitled", "titled"}]  OBVIOUS
  <2>7. /\ index \in [Thread -> SUBSET Run] /\ deleting \in [Thread -> {"no", "row", "index"}]
        /\ crashed \in BOOLEAN
    OBVIOUS
  <2>8. /\ thread \in [Run -> Thread \cup {None}] /\ isNew \in [Run -> BOOLEAN]
        /\ produced \in [Run -> BOOLEAN] /\ wasCancelled \in [Run -> BOOLEAN]
    OBVIOUS
  <2> QED  BY <2>1, <2>2, <2>3, <2>4, <2>5, <2>6, <2>7, <2>8 DEF TypeOK
<1>2. HasThread /\ HoldsThread /\ CallLeft /\ LastIsOwn
  BY ConstantsAreSane
     DEF Init, Registry!Init, Registry!Exclusive, HasThread, HoldsThread, CallLeft,
         LastIsOwn, InGraph, InStream, Running, Boundary, Yielded
<1>3. NothingTold /\ CancelEnds
  BY DEF Init, NothingTold, CancelEnds, CancelledIsFinal, BeforeOutcome
<1>4. Accounted /\ FirstTurns
  BY ConstantsAreSane
     DEF Init, Accounted, FirstTurns, FailedChatDropped
<1>5. ResultsPaired /\ MessagesPlaced /\ OwnCallsAnswered
  BY DEF Init, ResultsPaired, NoDanglingResult, ResultsFollow, MessagesPlaced, OnlyOn,
         OwnCallsAnswered, InGraph, Running, Boundary
<1>6. CopyIsCurrent /\ SettledAnswered
  BY DEF Init, CopyIsCurrent, SettledAnswered, Settled, Running, Boundary
<1> QED  BY <1>1, <1>2, <1>3, <1>4, <1>5, <1>6 DEF IInv

(* Types *)
LEMMA TypeStep ==
    ASSUME TypeOK, HasThread, CallLeft, LastIsOwn, NEW r \in Run,
           RunStep(r)
    PROVE  TypeOK'
<1> USE ConstantsAreSane DEF TypeOK, Registry!TypeOK, PC, Running, Boundary, Yielded,
       HasThread, CallLeft, Goto, registry, rows, graph, locals, env
<1>1. CASE NewChat(r)  BY <1>1 DEF NewChat
<1>2. CASE OldChat(r)  BY <1>2 DEF OldChat
<1>3. CASE NotFound(r)  BY <1>3 DEF NotFound, Refused
<1>4. CASE Unreachable(r)  BY <1>4 DEF Unreachable, Refused
<1>5. CASE Register(r)  BY <1>5 DEF Register, Registry!Acquire, Registry!Held
<1>6. CASE Conflict(r)  BY <1>6 DEF Conflict, Refused
<1>7. CASE Input(r)
  <2>1. Append(log[thread[r]], Msg("human", r)) \in Seq(Message)
    <3>1. log[thread[r]] \in Seq(Message)  BY <1>7 DEF Input
    <3> QED  BY <3>1, MsgType
  <2> QED  BY <1>7, <2>1 DEF Input, Commit
<1>8. CASE Summarize(r)
  <2>1. PICK i \in DOMAIN mem[r] : Commit(r, SubSeq(mem[r], i, Len(mem[r])))
    BY <1>8 DEF Summarize
  <2>2. SubSeq(mem[r], i, Len(mem[r])) \in Seq(Message)  BY TailType
  <2> QED  BY <1>8, <2>1, <2>2 DEF Summarize, Commit
<1>9. CASE KeepAll(r)  BY <1>9 DEF KeepAll
<1>10. CASE Reply(r)
  <2>1. PICK k \in {"call", "answer", "empty"} : Commit(r, Append(mem[r], Msg(k, r)))
    BY <1>10 DEF Reply
  <2>2. Append(mem[r], Msg(k, r)) \in Seq(Message)  BY MsgType
  <2>3. calls' \in [Run -> 0..MaxCalls]  BY <1>10 DEF Reply
  <2>4. mem' \in [Run -> Seq(Message)] /\ log' \in [Thread -> Seq(Message)]
    BY <2>1, <2>2 DEF Commit
  <2> QED  BY <1>10, <2>3, <2>4 DEF Reply
<1>11. CASE Refuse(r)
  <2>1. Append(mem[r], Msg("answer", r)) \in Seq(Message)  BY MsgType
  <2> QED  BY <1>11, <2>1 DEF Refuse, Commit
<1>12. CASE Tools(r)
  <2>2. mem[r][Len(mem[r])] \in Message  BY <1>12, ToolsAfterCall
  <2>3. Append(mem[r], ToolFor(mem[r][Len(mem[r])])) \in Seq(Message)
    BY <2>2, ToolForType
  <2> QED  BY <1>12, <2>3 DEF Tools, Commit
<1>13. CASE Pass(r)  BY <1>13 DEF Pass
<1>14. CASE Account(r)  BY <1>14 DEF Account
<1>15. CASE Stop(r)
  <2>1. Repaired(log[thread[r]]) \in Seq(Message)  BY <1>15, RepairedType DEF Stop
  <2> QED  BY <1>15, <2>1 DEF Stop
<1>16. CASE StopUnrepaired(r)  BY <1>16 DEF StopUnrepaired
<1>17. CASE Done(r)  BY <1>17 DEF Done
<1>18. CASE NoAnswer(r)  BY <1>18 DEF NoAnswer
<1>19. CASE Title(r)
  <2>1. PICK name \in {"untitled", "titled"} : chat' = [chat EXCEPT ![thread[r]] = name]
    BY <1>19 DEF Title
  <2> QED  BY <1>19, <2>1 DEF Title
<1>20. CASE TitleLost(r)  BY <1>20 DEF TitleLost
<1>21. CASE Index(r)
  <2>1. {mem[r][i].by : i \in DOMAIN mem[r]} \in SUBSET Run
    <3>1. ASSUME NEW i \in DOMAIN mem[r] PROVE mem[r][i].by \in Run
      <4>1. mem[r][i] \in Message  OBVIOUS
      <4> QED  BY <4>1 DEF Message
    <3> QED  BY <3>1
  <2> QED  BY <1>21, <2>1 DEF Index
<1>22. CASE IndexLost(r)  BY <1>22 DEF IndexLost
<1>23. CASE Report(r)  BY <1>23 DEF Report
<1>24. CASE Leave(r)  BY <1>24 DEF Leave, Registry!Release
<1>25. CASE Cleanup(r) \/ CleanupLost(r)
  <2>1. CASE Cleanup(r)      BY <2>1 DEF Cleanup
  <2>2. CASE CleanupLost(r)  BY <2>2 DEF CleanupLost
  <2> QED  BY <1>25, <2>1, <2>2
<1>26. CASE SyncDone(r)  BY <1>26 DEF SyncDone
<1>27. CASE Cancel(r)  BY <1>27 DEF Cancel, Registry!Signal
<1>28. CASE Disconnect(r)  BY <1>28 DEF Disconnect
<1>29. CASE Fail(r)  BY <1>29 DEF Fail
<1> QED
  BY <1>1, <1>2, <1>3, <1>4, <1>5, <1>6, <1>7, <1>8, <1>9, <1>10, <1>11, <1>12, <1>13, <1>14, <1>15,
     <1>16, <1>17, <1>18, <1>19, <1>20, <1>21, <1>22, <1>23,
     <1>24, <1>25, <1>26, <1>27, <1>28, <1>29 DEF RunStep, Step

LEMMA ControlStep ==
    ASSUME TypeOK, HasThread, CallLeft, NEW r \in Run,
           RunStep(r)
    PROVE  HasThread' /\ CallLeft'
<1> USE ConstantsAreSane DEF TypeOK, PC, Running, Boundary, Yielded,
       HasThread, CallLeft, Goto, registry, rows, graph, locals, env
<1>1. CASE NewChat(r)  BY <1>1 DEF NewChat
<1>2. CASE OldChat(r)  BY <1>2 DEF OldChat
<1>3. CASE NotFound(r)  BY <1>3 DEF NotFound, Refused
<1>4. CASE Unreachable(r)  BY <1>4 DEF Unreachable, Refused
<1>5. CASE Register(r)  BY <1>5 DEF Register, Registry!Acquire, Registry!Held
<1>6. CASE Conflict(r)  BY <1>6 DEF Conflict, Refused
<1>7. CASE Input(r)  BY <1>7 DEF Input, Commit
<1>8. CASE Summarize(r)  BY <1>8 DEF Summarize, Commit
<1>9. CASE KeepAll(r)  BY <1>9 DEF KeepAll
<1>10. CASE Reply(r)  BY <1>10 DEF Reply, Commit
<1>11. CASE Refuse(r)  BY <1>11 DEF Refuse, Commit
<1>12. CASE Tools(r)  BY <1>12 DEF Tools, Commit
<1>13. CASE Pass(r)  BY <1>13 DEF Pass
<1>14. CASE Account(r)  BY <1>14 DEF Account
<1>15. CASE Stop(r)  BY <1>15 DEF Stop
<1>16. CASE StopUnrepaired(r)  BY <1>16 DEF StopUnrepaired
<1>17. CASE Done(r)  BY <1>17 DEF Done
<1>18. CASE NoAnswer(r)  BY <1>18 DEF NoAnswer
<1>19. CASE Title(r)  BY <1>19 DEF Title
<1>20. CASE TitleLost(r)  BY <1>20 DEF TitleLost
<1>21. CASE Index(r)  BY <1>21 DEF Index
<1>22. CASE IndexLost(r)  BY <1>22 DEF IndexLost
<1>23. CASE Report(r)  BY <1>23 DEF Report
<1>24. CASE Leave(r)  BY <1>24 DEF Leave, Registry!Release
<1>25. CASE Cleanup(r) \/ CleanupLost(r)
  <2>1. CASE Cleanup(r)      BY <2>1 DEF Cleanup
  <2>2. CASE CleanupLost(r)  BY <2>2 DEF CleanupLost
  <2> QED  BY <1>25, <2>1, <2>2
<1>26. CASE SyncDone(r)  BY <1>26 DEF SyncDone
<1>27. CASE Cancel(r)  BY <1>27 DEF Cancel, Registry!Signal
<1>28. CASE Disconnect(r)  BY <1>28 DEF Disconnect
<1>29. CASE Fail(r)  BY <1>29 DEF Fail
<1> QED
  BY <1>1, <1>2, <1>3, <1>4, <1>5, <1>6, <1>7, <1>8, <1>9, <1>10, <1>11, <1>12, <1>13, <1>14, <1>15,
     <1>16, <1>17, <1>18, <1>19, <1>20, <1>21, <1>22, <1>23,
     <1>24, <1>25, <1>26, <1>27, <1>28, <1>29 DEF RunStep, Step

LEMMA HoldsStep ==
    ASSUME TypeOK, HasThread, HoldsThread, NEW r \in Run,
           RunStep(r)
    PROVE  HoldsThread'
<1> USE ConstantsAreSane DEF TypeOK, Registry!TypeOK, Registry!Exclusive, HasThread, HoldsThread,
       PC, InStream, Running, Boundary, Yielded, Goto, registry, rows, graph, locals, env
<1>1. CASE NewChat(r)  BY <1>1 DEF NewChat
<1>2. CASE OldChat(r)  BY <1>2 DEF OldChat
<1>3. CASE NotFound(r)  BY <1>3 DEF NotFound, Refused
<1>4. CASE Unreachable(r)  BY <1>4 DEF Unreachable, Refused
<1>5. CASE Register(r)  BY <1>5 DEF Register, Registry!Acquire, Registry!Held
<1>6. CASE Conflict(r)  BY <1>6 DEF Conflict, Refused
<1>7. CASE Input(r)  BY <1>7 DEF Input, Commit
<1>8. CASE Summarize(r)  BY <1>8 DEF Summarize, Commit
<1>9. CASE KeepAll(r)  BY <1>9 DEF KeepAll
<1>10. CASE Reply(r)  BY <1>10 DEF Reply, Commit
<1>11. CASE Refuse(r)  BY <1>11 DEF Refuse, Commit
<1>12. CASE Tools(r)  BY <1>12 DEF Tools, Commit
<1>13. CASE Pass(r)  BY <1>13 DEF Pass
<1>14. CASE Account(r)  BY <1>14 DEF Account
<1>15. CASE Stop(r)  BY <1>15 DEF Stop
<1>16. CASE StopUnrepaired(r)  BY <1>16 DEF StopUnrepaired
<1>17. CASE Done(r)  BY <1>17 DEF Done
<1>18. CASE NoAnswer(r)  BY <1>18 DEF NoAnswer
<1>19. CASE Title(r)  BY <1>19 DEF Title
<1>20. CASE TitleLost(r)  BY <1>20 DEF TitleLost
<1>21. CASE Index(r)  BY <1>21 DEF Index
<1>22. CASE IndexLost(r)  BY <1>22 DEF IndexLost
<1>23. CASE Report(r)  BY <1>23 DEF Report
<1>24. CASE Leave(r)  BY <1>24 DEF Leave, Registry!Release
<1>25. CASE Cleanup(r) \/ CleanupLost(r)  BY <1>25 DEF Cleanup, CleanupLost
<1>26. CASE SyncDone(r)  BY <1>26 DEF SyncDone
<1>27. CASE Cancel(r)  BY <1>27 DEF Cancel, Registry!Signal
<1>28. CASE Disconnect(r)  BY <1>28 DEF Disconnect
<1>29. CASE Fail(r)  BY <1>29 DEF Fail
<1> QED
  BY <1>1, <1>2, <1>3, <1>4, <1>5, <1>6, <1>7, <1>8, <1>9, <1>10, <1>11, <1>12, <1>13, <1>14, <1>15,
     <1>16, <1>17, <1>18, <1>19, <1>20, <1>21, <1>22, <1>23,
     <1>24, <1>25, <1>26, <1>27, <1>28, <1>29 DEF RunStep, Step

LEMMA OutcomeStep ==
    ASSUME TypeOK, NothingTold, CancelEnds, NEW r \in Run,
           RunStep(r)
    PROVE  NothingTold' /\ CancelEnds'
<1> USE ConstantsAreSane DEF TypeOK, NothingTold, CancelEnds, CancelledIsFinal,
       BeforeOutcome, Running, Boundary, Yielded, PC, Goto, registry, rows, graph, locals, env
<1>1. CASE NewChat(r)  BY <1>1 DEF NewChat
<1>2. CASE OldChat(r)  BY <1>2 DEF OldChat
<1>3. CASE NotFound(r)  BY <1>3 DEF NotFound, Refused
<1>4. CASE Unreachable(r)  BY <1>4 DEF Unreachable, Refused
<1>5. CASE Register(r)  BY <1>5 DEF Register, Registry!Acquire, Registry!Held
<1>6. CASE Conflict(r)  BY <1>6 DEF Conflict, Refused
<1>7. CASE Input(r)  BY <1>7 DEF Input, Commit
<1>8. CASE Summarize(r)  BY <1>8 DEF Summarize, Commit
<1>9. CASE KeepAll(r)  BY <1>9 DEF KeepAll
<1>10. CASE Reply(r)  BY <1>10 DEF Reply, Commit
<1>11. CASE Refuse(r)  BY <1>11 DEF Refuse, Commit
<1>12. CASE Tools(r)  BY <1>12 DEF Tools, Commit
<1>13. CASE Pass(r)  BY <1>13 DEF Pass
<1>14. CASE Account(r)  BY <1>14 DEF Account
<1>15. CASE Stop(r)  BY <1>15 DEF Stop
<1>16. CASE StopUnrepaired(r)  BY <1>16 DEF StopUnrepaired
<1>17. CASE Done(r)  BY <1>17 DEF Done
<1>18. CASE NoAnswer(r)  BY <1>18 DEF NoAnswer
<1>19. CASE Title(r)  BY <1>19 DEF Title
<1>20. CASE TitleLost(r)  BY <1>20 DEF TitleLost
<1>21. CASE Index(r)  BY <1>21 DEF Index
<1>22. CASE IndexLost(r)  BY <1>22 DEF IndexLost
<1>23. CASE Report(r)
  <2>1. pc[r] = "error" /\ "cancelled" \notin told[r]  BY <1>23 DEF Report
  <2> QED  BY <1>23, <2>1 DEF Report
<1>24. CASE Leave(r)  BY <1>24 DEF Leave, Registry!Release
<1>25. CASE Cleanup(r) \/ CleanupLost(r)  BY <1>25 DEF Cleanup, CleanupLost
<1>26. CASE SyncDone(r)  BY <1>26 DEF SyncDone
<1>27. CASE Cancel(r)  BY <1>27 DEF Cancel, Registry!Signal
<1>28. CASE Disconnect(r)  BY <1>28 DEF Disconnect
<1>29. CASE Fail(r)  BY <1>29 DEF Fail
<1> QED
  BY <1>1, <1>2, <1>3, <1>4, <1>5, <1>6, <1>7, <1>8, <1>9, <1>10, <1>11, <1>12, <1>13, <1>14, <1>15,
     <1>16, <1>17, <1>18, <1>19, <1>20, <1>21, <1>22, <1>23,
     <1>24, <1>25, <1>26, <1>27, <1>28, <1>29 DEF RunStep, Step

LEMMA CommitCopy ==
    ASSUME TypeOK, HasThread, HoldsThread, SyncRun = {}, CopyIsCurrent,
           NEW r \in Run, pc[r] \in InStream, NEW x, Commit(r, x),
           NEW l, Goto(r, l), thread' = thread
    PROVE  CopyIsCurrent'
<1> USE DEF TypeOK, HasThread, HoldsThread, Commit, Goto
<1>1. /\ pc[r] \notin {"start", "closed"}
      /\ thread[r] \in Thread /\ inflight[r] = thread[r]
  BY DEF InStream, Running, Boundary, Yielded
<1> SUFFICES ASSUME NEW s \in Run, pc'[s] \in Running \cup Boundary \cup {"final"}
             PROVE  log'[thread[s]] \in {mem'[s], <<>>}
  BY DEF CopyIsCurrent
<1>2. CASE s = r
  BY <1>1, <1>2
<1>3. CASE s # r
  <2>1. pc[s] \in Running \cup Boundary \cup {"final"}  BY <1>3
  <2>2. inflight[s] = thread[s] /\ thread[s] \in Thread
    BY <2>1 DEF InStream, Running, Boundary, Yielded
  <2>3. thread[s] # thread[r]
    <3>1. inflight[s] # None  BY <2>2, ConstantsAreSane
    <3>2. inflight[s] = inflight[r] => s = r  BY <3>1 DEF Registry!Exclusive
    <3> QED  BY <1>1, <1>3, <2>2, <3>2
  <2>4. log'[thread[s]] = log[thread[s]] /\ mem'[s] = mem[s]
    BY <1>1, <1>3, <2>2, <2>3
  <2> QED  BY <2>1, <2>4 DEF CopyIsCurrent
<1> QED  BY <1>2, <1>3

LEMMA CopyStep ==
    ASSUME TypeOK, HasThread, HoldsThread, SyncRun = {}, CopyIsCurrent, NEW r \in Run,
           RunStep(r)
    PROVE  CopyIsCurrent'
<1> USE ConstantsAreSane DEF TypeOK, HasThread, HoldsThread, Registry!Exclusive, CopyIsCurrent,
       PC, InStream, Running, Boundary, Yielded, Goto, registry, rows, graph, locals, env
<1>1. CASE NewChat(r)  BY <1>1 DEF NewChat
<1>2. CASE OldChat(r)  BY <1>2 DEF OldChat
<1>3. CASE NotFound(r)  BY <1>3 DEF NotFound, Refused
<1>4. CASE Unreachable(r)  BY <1>4 DEF Unreachable, Refused
<1>5. CASE Register(r)  BY <1>5 DEF Register, Registry!Acquire, Registry!Held
<1>6. CASE Conflict(r)  BY <1>6 DEF Conflict, Refused
<1>7. CASE Input(r)
  BY <1>7, CommitCopy DEF Input
<1>8. CASE Summarize(r)
  <2>1. PICK i \in DOMAIN mem[r] : Commit(r, SubSeq(mem[r], i, Len(mem[r])))
    BY <1>8 DEF Summarize
  <2> QED  BY <1>8, <2>1, CommitCopy DEF Summarize
<1>9. CASE KeepAll(r)  BY <1>9 DEF KeepAll
<1>10. CASE Reply(r)
  <2>1. PICK k \in {"call", "answer", "empty"} : Commit(r, Append(mem[r], Msg(k, r)))
    BY <1>10 DEF Reply
  <2> QED  BY <1>10, <2>1, CommitCopy DEF Reply
<1>11. CASE Refuse(r)
  BY <1>11, CommitCopy DEF Refuse
<1>12. CASE Tools(r)
  BY <1>12, CommitCopy DEF Tools
<1>13. CASE Pass(r)  BY <1>13 DEF Pass
<1>14. CASE Account(r)  BY <1>14 DEF Account
<1>15. CASE Stop(r)
  <2>1. pc[r] \in InStream /\ thread[r] \in Thread  BY <1>15 DEF Stop
  <2> SUFFICES ASSUME NEW s \in Run, pc'[s] \in Running \cup Boundary \cup {"final"}
               PROVE  log'[thread'[s]] \in {mem'[s], <<>>}
    BY DEF CopyIsCurrent
  <2>2. s # r /\ pc'[s] = pc[s]  BY <1>15 DEF Stop
  <2>3. pc[s] \in InStream /\ thread[s] \in Thread  BY <2>2
  <2>4. thread[s] # thread[r]
    <3>1. inflight[s] = thread[s] /\ inflight[r] = thread[r]  BY <2>1, <2>3
    <3>2. inflight[s] # None  BY <2>3, <3>1
    <3> QED  BY <2>2, <3>1, <3>2
  <2>5. log'[thread[s]] = log[thread[s]] /\ mem' = mem /\ thread' = thread
    BY <1>15, <2>1, <2>3, <2>4 DEF Stop
  <2>6. log[thread[s]] \in {mem[s], <<>>}  BY <2>2
  <2> QED  BY <2>5, <2>6
<1>16. CASE StopUnrepaired(r)  BY <1>16 DEF StopUnrepaired
<1>17. CASE Done(r)  BY <1>17 DEF Done
<1>18. CASE NoAnswer(r)  BY <1>18 DEF NoAnswer
<1>19. CASE Title(r)  BY <1>19 DEF Title
<1>20. CASE TitleLost(r)  BY <1>20 DEF TitleLost
<1>21. CASE Index(r)  BY <1>21 DEF Index
<1>22. CASE IndexLost(r)  BY <1>22 DEF IndexLost
<1>23. CASE Report(r)  BY <1>23 DEF Report
<1>24. CASE Leave(r)  BY <1>24 DEF Leave, Registry!Release
<1>25. CASE Cleanup(r) \/ CleanupLost(r)  BY <1>25 DEF Cleanup, CleanupLost
<1>26. CASE SyncDone(r)  BY <1>26 DEF SyncDone
<1>27. CASE Cancel(r)  BY <1>27 DEF Cancel, Registry!Signal
<1>28. CASE Disconnect(r)  BY <1>28 DEF Disconnect
<1>29. CASE Fail(r)  BY <1>29 DEF Fail
<1> QED
  BY <1>1, <1>2, <1>3, <1>4, <1>5, <1>6, <1>7, <1>8, <1>9, <1>10, <1>11, <1>12, <1>13, <1>14, <1>15,
     <1>16, <1>17, <1>18, <1>19, <1>20, <1>21, <1>22, <1>23,
     <1>24, <1>25, <1>26, <1>27, <1>28, <1>29 DEF RunStep, Step

(* Usage: a row is due only while the reply's event is. *)
LEMMA AccountedStep ==
    ASSUME TypeOK, NothingTold, Accounted, NEW r \in Run, RunStep(r)
    PROVE  Accounted'
<1> USE ConstantsAreSane DEF TypeOK, PC, NothingTold, Accounted, BeforeOutcome,
       Running, Boundary, Yielded, Goto, registry, rows, graph, locals, env
<1>1. CASE NewChat(r)  BY <1>1 DEF NewChat
<1>2. CASE OldChat(r)  BY <1>2 DEF OldChat
<1>3. CASE NotFound(r)  BY <1>3 DEF NotFound, Refused
<1>4. CASE Unreachable(r)  BY <1>4 DEF Unreachable, Refused
<1>5. CASE Register(r)  BY <1>5 DEF Register, Registry!Acquire, Registry!Held
<1>6. CASE Conflict(r)  BY <1>6 DEF Conflict, Refused
<1>7. CASE Input(r)  BY <1>7 DEF Input, Commit
<1>8. CASE Summarize(r)  BY <1>8 DEF Summarize, Commit
<1>9. CASE KeepAll(r)  BY <1>9 DEF KeepAll
<1>10. CASE Reply(r)  BY <1>10 DEF Reply, Commit
<1>11. CASE Refuse(r)  BY <1>11 DEF Refuse, Commit
<1>12. CASE Tools(r)  BY <1>12 DEF Tools, Commit
<1>13. CASE Pass(r)  BY <1>13 DEF Pass
<1>14. CASE Account(r)  BY <1>14 DEF Account
<1>15. CASE Stop(r)  BY <1>15 DEF Stop
<1>16. CASE StopUnrepaired(r)  BY <1>16 DEF StopUnrepaired
<1>17. CASE Done(r)  BY <1>17 DEF Done
<1>18. CASE NoAnswer(r)  BY <1>18 DEF NoAnswer
<1>19. CASE Title(r)  BY <1>19 DEF Title
<1>20. CASE TitleLost(r)  BY <1>20 DEF TitleLost
<1>21. CASE Index(r)  BY <1>21 DEF Index
<1>22. CASE IndexLost(r)  BY <1>22 DEF IndexLost
<1>23. CASE Report(r)  BY <1>23 DEF Report
<1>24. CASE Leave(r)  BY <1>24 DEF Leave, Registry!Release
<1>25. CASE Cleanup(r) \/ CleanupLost(r)  BY <1>25 DEF Cleanup, CleanupLost
<1>26. CASE SyncDone(r)  BY <1>26 DEF SyncDone
<1>27. CASE Cancel(r)  BY <1>27 DEF Cancel, Registry!Signal
<1>28. CASE Disconnect(r)  BY <1>28 DEF Disconnect
<1>29. CASE Fail(r)  BY <1>29 DEF Fail
<1> QED
  BY <1>1, <1>2, <1>3, <1>4, <1>5, <1>6, <1>7, <1>8, <1>9, <1>10, <1>11, <1>12, <1>13, <1>14, <1>15,
     <1>16, <1>17, <1>18, <1>19, <1>20, <1>21, <1>22, <1>23,
     <1>24, <1>25, <1>26, <1>27, <1>28, <1>29 DEF RunStep, Step

(* First turns: nobody brings back the row of a chat that is gone. *)
LEMMA FirstTurnsStep ==
    ASSUME TypeOK, HasThread, FirstTurns, NEW r \in Run, RunStep(r)
    PROVE  FirstTurns'
<1> USE ConstantsAreSane DEF TypeOK, PC, HasThread, FirstTurns, FailedChatDropped,
       Running, Boundary, Yielded, Goto, registry, rows, graph, locals, env
<1>1. CASE NewChat(r)  BY <1>1 DEF NewChat
<1>2. CASE OldChat(r)  BY <1>2 DEF OldChat
<1>3. CASE NotFound(r)  BY <1>3 DEF NotFound, Refused
<1>4. CASE Unreachable(r)  BY <1>4 DEF Unreachable, Refused
<1>5. CASE Register(r)  BY <1>5 DEF Register, Registry!Acquire, Registry!Held
<1>6. CASE Conflict(r)  BY <1>6 DEF Conflict, Refused
<1>7. CASE Input(r)  BY <1>7 DEF Input, Commit
<1>8. CASE Summarize(r)  BY <1>8 DEF Summarize, Commit
<1>9. CASE KeepAll(r)  BY <1>9 DEF KeepAll
<1>10. CASE Reply(r)  BY <1>10 DEF Reply, Commit
<1>11. CASE Refuse(r)  BY <1>11 DEF Refuse, Commit
<1>12. CASE Tools(r)  BY <1>12 DEF Tools, Commit
<1>13. CASE Pass(r)  BY <1>13 DEF Pass
<1>14. CASE Account(r)  BY <1>14 DEF Account
<1>15. CASE Stop(r)  BY <1>15 DEF Stop
<1>16. CASE StopUnrepaired(r)  BY <1>16 DEF StopUnrepaired
<1>17. CASE Done(r)  BY <1>17 DEF Done
<1>18. CASE NoAnswer(r)  BY <1>18 DEF NoAnswer
<1>19. CASE Title(r)  BY <1>19 DEF Title
<1>20. CASE TitleLost(r)  BY <1>20 DEF TitleLost
<1>21. CASE Index(r)  BY <1>21 DEF Index
<1>22. CASE IndexLost(r)  BY <1>22 DEF IndexLost
<1>23. CASE Report(r)  BY <1>23 DEF Report
<1>24. CASE Leave(r)  BY <1>24 DEF Leave, Registry!Release
<1>25. CASE Cleanup(r) \/ CleanupLost(r)  BY <1>25 DEF Cleanup, CleanupLost
<1>26. CASE SyncDone(r)  BY <1>26 DEF SyncDone
<1>27. CASE Cancel(r)  BY <1>27 DEF Cancel, Registry!Signal
<1>28. CASE Disconnect(r)  BY <1>28 DEF Disconnect
<1>29. CASE Fail(r)  BY <1>29 DEF Fail
<1> QED
  BY <1>1, <1>2, <1>3, <1>4, <1>5, <1>6, <1>7, <1>8, <1>9, <1>10, <1>11, <1>12, <1>13, <1>14, <1>15,
     <1>16, <1>17, <1>18, <1>19, <1>20, <1>21, <1>22, <1>23,
     <1>24, <1>25, <1>26, <1>27, <1>28, <1>29 DEF RunStep, Step
----------------------------------------------------------------------------
(* The messages: what a step does to checkpoints and copies *)

Early == {"start", "connect", "started"}

(* Another run's locals stay, and who has begun does not begin again.      *)
LEMMA StepFrame ==
    ASSUME TypeOK, NEW r \in Run, RunStep(r)
    PROVE  \A q \in Run :
             /\ q # r => /\ pc'[q] = pc[q] /\ mem'[q] = mem[q]
                         /\ told'[q] = told[q] /\ thread'[q] = thread[q]
             /\ pc[q] \notin Early => pc'[q] \notin Early
             /\ pc[q] # "start" => pc'[q] # "start" /\ thread'[q] = thread[q]
<1> USE DEF TypeOK, PC, Early, Running, Boundary, Yielded, Goto, registry, rows, graph, locals, env
<1>1. CASE NewChat(r)  BY <1>1 DEF NewChat
<1>2. CASE OldChat(r)  BY <1>2 DEF OldChat
<1>3. CASE NotFound(r)  BY <1>3 DEF NotFound, Refused
<1>4. CASE Unreachable(r)  BY <1>4 DEF Unreachable, Refused
<1>5. CASE Register(r)  BY <1>5 DEF Register, Registry!Acquire, Registry!Held
<1>6. CASE Conflict(r)  BY <1>6 DEF Conflict, Refused
<1>7. CASE Input(r)  BY <1>7 DEF Input, Commit
<1>8. CASE Summarize(r)  BY <1>8 DEF Summarize, Commit
<1>9. CASE KeepAll(r)  BY <1>9 DEF KeepAll
<1>10. CASE Reply(r)  BY <1>10 DEF Reply, Commit
<1>11. CASE Refuse(r)  BY <1>11 DEF Refuse, Commit
<1>12. CASE Tools(r)  BY <1>12 DEF Tools, Commit
<1>13. CASE Pass(r)  BY <1>13 DEF Pass
<1>14. CASE Account(r)  BY <1>14 DEF Account
<1>15. CASE Stop(r)  BY <1>15 DEF Stop
<1>16. CASE StopUnrepaired(r)  BY <1>16 DEF StopUnrepaired
<1>17. CASE Done(r)  BY <1>17 DEF Done
<1>18. CASE NoAnswer(r)  BY <1>18 DEF NoAnswer
<1>19. CASE Title(r)  BY <1>19 DEF Title
<1>20. CASE TitleLost(r)  BY <1>20 DEF TitleLost
<1>21. CASE Index(r)  BY <1>21 DEF Index
<1>22. CASE IndexLost(r)  BY <1>22 DEF IndexLost
<1>23. CASE Report(r)  BY <1>23 DEF Report
<1>24. CASE Leave(r)  BY <1>24 DEF Leave, Registry!Release
<1>25. CASE Cleanup(r) \/ CleanupLost(r)  BY <1>25 DEF Cleanup, CleanupLost
<1>26. CASE SyncDone(r)  BY <1>26 DEF SyncDone
<1>27. CASE Cancel(r)  BY <1>27 DEF Cancel, Registry!Signal
<1>28. CASE Disconnect(r)  BY <1>28 DEF Disconnect
<1>29. CASE Fail(r)  BY <1>29 DEF Fail
<1> QED
  BY <1>1, <1>2, <1>3, <1>4, <1>5, <1>6, <1>7, <1>8, <1>9, <1>10, <1>11, <1>12, <1>13, <1>14, <1>15,
     <1>16, <1>17, <1>18, <1>19, <1>20, <1>21, <1>22, <1>23,
     <1>24, <1>25, <1>26, <1>27, <1>28, <1>29 DEF RunStep, Step

(* The steps that move no message. *)
Aside(r) ==
    /\ log' = log /\ mem' = mem
    /\ pc'[r] \in InGraph => pc[r] \in InGraph
    /\ pc'[r] = "start" => pc[r] = "start" /\ thread' = thread
    /\ pc'[r] \in InGraph /\ LastKind(mem[r]) \in Said(pc[r]) =>
         LastKind(mem[r]) \in Said(pc'[r])
    /\ pc[r] \in {"replied", "tools"} /\ pc'[r] \in InGraph =>
         pc'[r] \in {"replied", "tools"} \/ LastKind(mem[r]) # "call"
    /\ Settled(r)' => Settled(r)

LEMMA StepCases ==
    ASSUME TypeOK, NEW r \in Run, RunStep(r)
    PROVE  \/ Aside(r) \/ Input(r) \/ Summarize(r) \/ Reply(r) \/ Refuse(r) \/ Tools(r)
           \/ Stop(r) \/ Done(r) \/ Leave(r) \/ SyncDone(r)
<1> USE DEF Aside, TypeOK, PC, InGraph, Said, Settled, Running, Boundary, Yielded, Goto, registry, rows,
       graph, locals, env
<1>1. CASE NewChat(r)  BY <1>1 DEF NewChat
<1>2. CASE OldChat(r)  BY <1>2 DEF OldChat
<1>3. CASE NotFound(r)  BY <1>3 DEF NotFound, Refused
<1>4. CASE Unreachable(r)  BY <1>4 DEF Unreachable, Refused
<1>5. CASE Register(r)  BY <1>5 DEF Register, Registry!Acquire, Registry!Held
<1>6. CASE Conflict(r)  BY <1>6 DEF Conflict, Refused
<1>7. CASE KeepAll(r)  BY <1>7 DEF KeepAll
<1>8. CASE Pass(r)  BY <1>8 DEF Pass
<1>9. CASE Account(r)  BY <1>9 DEF Account
<1>10. CASE StopUnrepaired(r)  BY <1>10 DEF StopUnrepaired
<1>11. CASE NoAnswer(r)  BY <1>11 DEF NoAnswer
<1>12. CASE Title(r)  BY <1>12 DEF Title
<1>13. CASE TitleLost(r)  BY <1>13 DEF TitleLost
<1>14. CASE Index(r)  BY <1>14 DEF Index
<1>15. CASE IndexLost(r)  BY <1>15 DEF IndexLost
<1>16. CASE Report(r)  BY <1>16 DEF Report
<1>17. CASE Cleanup(r) \/ CleanupLost(r)  BY <1>17 DEF Cleanup, CleanupLost
<1>18. CASE Cancel(r)  BY <1>18 DEF Cancel, Registry!Signal
<1>19. CASE Disconnect(r)  BY <1>19 DEF Disconnect
<1>20. CASE Fail(r)  BY <1>20 DEF Fail
<1> QED
  BY <1>1, <1>2, <1>3, <1>4, <1>5, <1>6, <1>7, <1>8, <1>9, <1>10, <1>11, <1>12, <1>13, <1>14, <1>15,
     <1>16, <1>17, <1>18, <1>19, <1>20 DEF RunStep, Step

(* The last message of a copy is what the last step said. *)
LEMMA LastStep ==
    ASSUME TypeOK, HasThread, LastIsOwn, NEW r \in Run, RunStep(r)
    PROVE  LastIsOwn'
<1>0. \A q \in Run \ {r} : pc'[q] = pc[q] /\ mem'[q] = mem[q]  BY StepFrame
<1>1. SUFFICES ASSUME pc'[r] \in InGraph
               PROVE  /\ mem'[r] # <<>> /\ mem'[r][Len(mem'[r])].by = r
                      /\ mem'[r][Len(mem'[r])].kind \in Said(pc'[r])
  BY <1>0, <1>1 DEF LastIsOwn, LastKind
<1>2. pc[r] \in InGraph =>
        /\ mem[r] # <<>> /\ mem[r][Len(mem[r])].by = r
        /\ LastKind(mem[r]) = mem[r][Len(mem[r])].kind
        /\ LastKind(mem[r]) \in Said(pc[r])
  BY DEF LastIsOwn, LastKind
<1>3. mem[r] \in Seq(Message)  BY DEF TypeOK
<1>4. CASE Aside(r)
  <2>1. pc[r] \in InGraph /\ mem' = mem /\ LastKind(mem[r]) \in Said(pc'[r])
    BY <1>1, <1>2, <1>4 DEF Aside
  <2> QED  BY <1>2, <2>1
<1>5. CASE Input(r)
  <2>1. thread[r] \in Thread  BY <1>5 DEF Input, HasThread
  <2>2. log[thread[r]] \in Seq(Message)  BY <2>1 DEF TypeOK
  <2>3. mem'[r] = Append(log[thread[r]], Msg("human", r)) /\ pc'[r] \in {"agent", "summarize"}
    BY <1>5 DEF Input, Commit, Goto, TypeOK
  <2>4. LastIs(mem'[r], Msg("human", r))  BY <2>2, <2>3, LastOfAppend
  <2>5. "human" \in Said(pc'[r])  BY <2>3 DEF Said
  <2> QED  BY <2>4, <2>5 DEF LastIs, Msg
<1>6. CASE Summarize(r)
  <2>1. PICK i \in DOMAIN mem[r] : Commit(r, SubSeq(mem[r], i, Len(mem[r])))
    BY <1>6 DEF Summarize
  <2>2. mem'[r] = SubSeq(mem[r], i, Len(mem[r])) /\ pc'[r] = "summarized" /\ pc[r] = "summarize"
    BY <1>6, <2>1 DEF Summarize, Commit, Goto, TypeOK
  <2>3. mem'[r] # <<>> /\ mem'[r][Len(mem'[r])] = mem[r][Len(mem[r])]
    BY <1>3, <2>2, LastOfTail
  <2>4. pc[r] \in InGraph /\ Said(pc'[r]) = Said(pc[r])
    BY <2>2 DEF InGraph, Running, Said
  <2> QED  BY <1>2, <2>3, <2>4
<1>7. CASE Reply(r)
  <2>1. PICK k \in {"call", "answer", "empty"} : Commit(r, Append(mem[r], Msg(k, r)))
    BY <1>7 DEF Reply
  <2>2. mem'[r] = Append(mem[r], Msg(k, r)) /\ pc'[r] = "replied"
    BY <1>7, <2>1 DEF Reply, Commit, Goto, TypeOK
  <2>3. LastIs(mem'[r], Msg(k, r))  BY <1>3, <2>2, LastOfAppend
  <2>4. k \in Said(pc'[r])  BY <2>2 DEF Said
  <2> QED  BY <2>3, <2>4 DEF LastIs, Msg
<1>8. CASE Refuse(r)
  <2>1. mem'[r] = Append(mem[r], Msg("answer", r)) /\ pc'[r] = "replied"
    BY <1>8 DEF Refuse, Commit, Goto, TypeOK
  <2>2. LastIs(mem'[r], Msg("answer", r))  BY <1>3, <2>1, LastOfAppend
  <2>3. "answer" \in Said(pc'[r])  BY <2>1 DEF Said
  <2> QED  BY <2>2, <2>3 DEF LastIs, Msg
<1>9. CASE Tools(r)
  <2>1. pc[r] \in InGraph  BY <1>9 DEF Tools, InGraph, Running
  <2>2. mem[r][Len(mem[r])] \in Message /\ mem[r][Len(mem[r])].by = r
    BY <1>2, <1>3, <2>1
  <2>3. ToolFor(mem[r][Len(mem[r])]).kind = "tool" /\ ToolFor(mem[r][Len(mem[r])]).by = r
    BY <2>2 DEF ToolFor, Message
  <2>4. mem'[r] = Append(mem[r], ToolFor(mem[r][Len(mem[r])])) /\ pc'[r] = "ran"
    BY <1>9 DEF Tools, Commit, Goto, TypeOK
  <2>5. LastIs(mem'[r], ToolFor(mem[r][Len(mem[r])]))  BY <1>3, <2>4, LastOfAppend
  <2>6. "tool" \in Said(pc'[r])  BY <2>4 DEF Said
  <2> QED  BY <2>3, <2>5, <2>6 DEF LastIs
<1>10. CASE Stop(r) \/ Done(r) \/ Leave(r) \/ SyncDone(r)
  BY <1>1, <1>10 DEF Stop, Done, Leave, SyncDone, Goto, TypeOK, InGraph, Running, Boundary
<1> QED  BY <1>4, <1>5, <1>6, <1>7, <1>8, <1>9, <1>10, StepCases

(* A result appended behind its call, or another message behind any, keeps *)
(* a history well formed; so does what summarize leaves, which starts with *)
(* a human message.                                                        *)
LEMMA AppendFollows ==
    ASSUME NEW s \in Seq(Message), ResultsFollow(s), NEW m,
           m.kind # "tool" \/ (LastKind(s) = "call" /\ m = ToolFor(s[Len(s)]))
    PROVE  ResultsFollow(Append(s, m))
<1> DEFINE x == Append(s, m)
<1> SUFFICES ASSUME NEW i \in DOMAIN x, x[i].kind = "tool"
             PROVE  i > 1 /\ x[i - 1].kind = "call" /\ x[i] = ToolFor(x[i - 1])
  BY DEF ResultsFollow
<1>1. i \in 1..(Len(s) + 1)  OBVIOUS
<1>2. CASE i \in DOMAIN s
  <2>1. x[i] = s[i]  BY <1>2
  <2>2. i > 1 /\ s[i - 1].kind = "call" /\ s[i] = ToolFor(s[i - 1])
    BY <1>2, <2>1 DEF ResultsFollow
  <2>3. x[i - 1] = s[i - 1]  BY <1>2, <2>2
  <2> QED  BY <2>1, <2>2, <2>3
<1>3. CASE i = Len(s) + 1
  <2>1. x[i] = m  BY <1>3
  <2>2. LastKind(s) = "call" /\ m = ToolFor(s[Len(s)])  BY <2>1
  <2>3. s # <<>> /\ s[Len(s)].kind = "call"  BY <2>2 DEF LastKind
  <2>4. x[i - 1] = s[Len(s)] /\ i > 1  BY <1>3, <2>3
  <2> QED  BY <2>1, <2>2, <2>3, <2>4
<1> QED  BY <1>1, <1>2, <1>3

LEMMA TailFollows ==
    ASSUME NEW s \in Seq(Message), ResultsFollow(s),
           NEW i \in DOMAIN s, s[i].kind = "human"
    PROVE  ResultsFollow(SubSeq(s, i, Len(s)))
<1> DEFINE x == SubSeq(s, i, Len(s))
<1>1. /\ Len(x) = Len(s) - i + 1
      /\ \A j \in 1..Len(x) : x[j] = s[i + j - 1]
      /\ x \in Seq(Message)
  <2>1. i \in 1..Len(s)  OBVIOUS
  <2>2. Len(x) = Len(s) - i + 1  BY <2>1, SubSeqProperties
  <2> QED  BY <2>1, <2>2, SubSeqProperties, TailType
<1> HIDE DEF x
<1>2. SUFFICES ASSUME NEW j \in DOMAIN x, x[j].kind = "tool"
               PROVE  j > 1 /\ x[j - 1].kind = "call" /\ x[j] = ToolFor(x[j - 1])
  BY DEF ResultsFollow, x
<1>3. j \in 1..Len(x) /\ x[j] = s[i + j - 1] /\ i + j - 1 \in DOMAIN s  BY <1>1
<1>4. j # 1  BY <1>2, <1>3
<1>5. j - 1 \in 1..Len(x)  BY <1>3, <1>4, <1>1
<1>6. x[j - 1] = s[i + j - 2]
  BY <1>1, <1>5
<1>7. s[i + j - 2].kind = "call" /\ s[i + j - 1] = ToolFor(s[i + j - 2])
  <2>1. (i + j - 1) - 1 = i + j - 2  BY <1>3
  <2> QED  BY <1>2, <1>3, <2>1 DEF ResultsFollow
<1> QED  BY <1>3, <1>4, <1>6, <1>7

LEMMA RepairedFollows ==
    ASSUME NEW s \in Seq(Message), ResultsFollow(s) PROVE ResultsFollow(Repaired(s))
BY AppendFollows DEF Repaired

(* Well formed copies make well formed checkpoints. *)
LEMMA CommitPaired ==
    ASSUME TypeOK, ResultsPaired, NEW r \in Run, NEW x, ResultsFollow(x), Commit(r, x)
    PROVE  ResultsPaired'
<1>1. \A t \in Thread : log'[t] = log[t] \/ log'[t] = x
  BY DEF Commit, TypeOK
<1>2. \A q \in Run : IF q = r THEN mem'[q] = x ELSE mem'[q] = mem[q]
  BY DEF Commit, TypeOK
<1> QED  BY <1>1, <1>2 DEF ResultsPaired, NoDanglingResult

LEMMA PairedStep ==
    ASSUME TypeOK, HasThread, LastIsOwn, ResultsPaired, NEW r \in Run, RunStep(r)
    PROVE  ResultsPaired'
<1>0. \A q \in Run \ {r} : mem'[q] = mem[q]  BY StepFrame
<1>1. CASE Aside(r)
  BY <1>1 DEF Aside, ResultsPaired, NoDanglingResult
<1>2. CASE Input(r)
  <2>1. thread[r] \in Thread  BY <1>2 DEF Input, HasThread
  <2>2. log[thread[r]] \in Seq(Message) /\ ResultsFollow(log[thread[r]])
    BY <2>1 DEF TypeOK, ResultsPaired, NoDanglingResult
  <2>3. ResultsFollow(Append(log[thread[r]], Msg("human", r)))
    BY <2>2, AppendFollows DEF Msg
  <2> QED  BY <1>2, <2>3, CommitPaired DEF Input
<1>3. CASE Summarize(r)
  <2>1. PICK i \in DOMAIN mem[r] : /\ IsSafeCut(mem[r], i)
                                   /\ Commit(r, SubSeq(mem[r], i, Len(mem[r])))
    BY <1>3 DEF Summarize
  <2>2. mem[r] \in Seq(Message) /\ ResultsFollow(mem[r]) /\ mem[r][i].kind = "human"
    BY <2>1 DEF TypeOK, ResultsPaired, IsSafeCut
  <2>3. ResultsFollow(SubSeq(mem[r], i, Len(mem[r])))  BY <2>2, TailFollows
  <2> QED  BY <1>3, <2>1, <2>3, CommitPaired DEF Summarize
<1>4. CASE Reply(r)
  <2>1. PICK k \in {"call", "answer", "empty"} : Commit(r, Append(mem[r], Msg(k, r)))
    BY <1>4 DEF Reply
  <2>2. mem[r] \in Seq(Message) /\ ResultsFollow(mem[r])  BY DEF TypeOK, ResultsPaired
  <2>3. ResultsFollow(Append(mem[r], Msg(k, r)))  BY <2>2, AppendFollows DEF Msg
  <2> QED  BY <1>4, <2>1, <2>3, CommitPaired DEF Reply
<1>5. CASE Refuse(r)
  <2>1. mem[r] \in Seq(Message) /\ ResultsFollow(mem[r])  BY DEF TypeOK, ResultsPaired
  <2>2. ResultsFollow(Append(mem[r], Msg("answer", r)))  BY <2>1, AppendFollows DEF Msg
  <2> QED  BY <1>5, <2>2, CommitPaired DEF Refuse
<1>6. CASE Tools(r)
  <2>1. mem[r] \in Seq(Message) /\ ResultsFollow(mem[r]) /\ LastKind(mem[r]) = "call"
    BY <1>6, ToolsAfterCall DEF TypeOK, ResultsPaired
  <2>2. ResultsFollow(Append(mem[r], ToolFor(mem[r][Len(mem[r])])))
    BY <2>1, AppendFollows
  <2> QED  BY <1>6, <2>2, CommitPaired DEF Tools
<1>7. CASE Stop(r)
  <2>1. \A t \in Thread : log'[t] = log[t] \/ log'[t] = Repaired(log[t])
    BY <1>7 DEF Stop, TypeOK
  <2>2. \A t \in Thread : log[t] \in Seq(Message) /\ ResultsFollow(log[t])
    BY DEF TypeOK, ResultsPaired, NoDanglingResult
  <2>3. \A t \in Thread : ResultsFollow(log[t])'  BY <2>1, <2>2, RepairedFollows
  <2> QED  BY <1>7, <2>3 DEF Stop, ResultsPaired, NoDanglingResult
<1>8. CASE Done(r)
  <2>1. thread[r] \in Thread  BY <1>8 DEF Done, HasThread
  <2>2. log' = log /\ mem'[r] = log[thread[r]]  BY <1>8 DEF Done, TypeOK
  <2> QED  BY <1>0, <2>1, <2>2 DEF ResultsPaired, NoDanglingResult
<1>9. CASE Leave(r) \/ SyncDone(r)
  <2>1. log' = log /\ mem'[r] = <<>>  BY <1>9 DEF Leave, SyncDone, TypeOK
  <2>2. ResultsFollow(<<>>)  BY DEF ResultsFollow
  <2> QED  BY <1>0, <2>1, <2>2 DEF ResultsPaired, NoDanglingResult
<1> QED  BY <1>1, <1>2, <1>3, <1>4, <1>5, <1>6, <1>7, <1>8, <1>9, StepCases

----------------------------------------------------------------------------
(* Whose messages are where *)

(* OnlyOn with the threads and the labels it reads as arguments. *)
On(t, s, th, p) == \A i \in DOMAIN s : th[s[i].by] = t /\ p[s[i].by] \notin Early

LEMMA PlacedNow ==
    MessagesPlaced <=>
      /\ \A t \in Thread : On(t, log[t], thread, pc)
      /\ \A q \in Run : pc[q] \in InGraph => On(thread[q], mem[q], thread, pc)
      /\ \A q \in Run : pc[q] = "start" => thread[q] = None
BY DEF MessagesPlaced, OnlyOn, On, Early

LEMMA PlacedNext ==
    MessagesPlaced' <=>
      /\ \A t \in Thread : On(t, log'[t], thread', pc')
      /\ \A q \in Run : pc'[q] \in InGraph => On(thread'[q], mem'[q], thread', pc')
      /\ \A q \in Run : pc'[q] = "start" => thread'[q] = None
BY DEF MessagesPlaced, OnlyOn, On, Early

LEMMA OnKept ==
    ASSUME TypeOK, NEW r \in Run, RunStep(r),
           NEW t, NEW s \in Seq(Message), On(t, s, thread, pc)
    PROVE  On(t, s, thread', pc')
<1> SUFFICES ASSUME NEW i \in DOMAIN s
             PROVE  thread'[s[i].by] = t /\ pc'[s[i].by] \notin Early
  BY DEF On
<1>1. s[i].by \in Run
  <2>1. s[i] \in Message  OBVIOUS
  <2> QED  BY <2>1 DEF Message
<1>2. thread[s[i].by] = t /\ pc[s[i].by] \notin Early  BY DEF On
<1> QED  BY <1>1, <1>2, StepFrame DEF Early

LEMMA AppendOn ==
    ASSUME NEW s \in Seq(Message), NEW m, NEW t, NEW th, NEW p,
           On(t, s, th, p), th[m.by] = t, p[m.by] \notin Early
    PROVE  On(t, Append(s, m), th, p)
BY DEF On

LEMMA TailOn ==
    ASSUME NEW s \in Seq(Message), NEW i \in DOMAIN s, NEW t, NEW th, NEW p, On(t, s, th, p)
    PROVE  On(t, SubSeq(s, i, Len(s)), th, p)
<1> DEFINE x == SubSeq(s, i, Len(s))
<1>1. Len(x) = Len(s) - i + 1 /\ \A j \in 1..Len(x) : x[j] = s[i + j - 1]
  BY SubSeqProperties
<1>2. x \in Seq(Message)  BY TailType
<1> HIDE DEF x
<1>3. ASSUME NEW j \in DOMAIN x PROVE th[x[j].by] = t /\ p[x[j].by] \notin Early
  <2>1. x[j] = s[i + j - 1] /\ i + j - 1 \in DOMAIN s  BY <1>1, <1>2
  <2> QED  BY <2>1 DEF On
<1> QED  BY <1>3 DEF On, x

LEMMA EndOn ==
    ASSUME NEW s \in Seq(Message), s # <<>>, NEW t, NEW th, NEW p, On(t, s, th, p)
    PROVE  th[s[Len(s)].by] = t /\ p[s[Len(s)].by] \notin Early
BY DEF On

LEMMA RepairedOn ==
    ASSUME NEW s \in Seq(Message), NEW t, NEW th, NEW p, On(t, s, th, p)
    PROVE  On(t, Repaired(s), th, p)
<1>1. CASE LastKind(s) = "call"
  <2>1. s # <<>>  BY <1>1 DEF LastKind
  <2>2. s[Len(s)] \in Message  BY <2>1
  <2>3. ToolFor(s[Len(s)]).by = s[Len(s)].by  BY <2>2 DEF ToolFor, Message
  <2> QED  BY <1>1, <2>1, <2>3, EndOn, AppendOn DEF Repaired
<1>2. CASE LastKind(s) # "call"  BY <1>2 DEF Repaired
<1> QED  BY <1>1, <1>2

LEMMA CommitPlaced ==
    ASSUME TypeOK, MessagesPlaced, NEW r \in Run, RunStep(r), pc[r] # "start",
           NEW x, Commit(r, x), On(thread[r], x, thread', pc')
    PROVE  MessagesPlaced'
<1>1. \A q \in Run : /\ thread'[q] = thread[q] \/ pc[q] = "start"
                     /\ q # r => pc'[q] = pc[q] /\ mem'[q] = mem[q] /\ thread'[q] = thread[q]
                     /\ pc[q] # "start" => pc'[q] # "start"
  BY StepFrame
<1>2. ASSUME NEW t \in Thread PROVE On(t, log'[t], thread', pc')
  <2>1. CASE t = thread[r]  BY <2>1 DEF Commit, TypeOK
  <2>2. CASE t # thread[r]
    <3>1. log'[t] = log[t] /\ log[t] \in Seq(Message) /\ On(t, log[t], thread, pc)
      BY <2>2, PlacedNow DEF Commit, TypeOK
    <3> QED  BY <3>1, OnKept
  <2> QED  BY <2>1, <2>2
<1>3. ASSUME NEW q \in Run, pc'[q] \in InGraph
      PROVE  On(thread'[q], mem'[q], thread', pc')
  <2>1. CASE q = r
    <3>1. thread'[r] = thread[r] /\ mem'[r] = x  BY <1>1 DEF Commit, TypeOK
    <3> QED  BY <2>1, <3>1
  <2>2. CASE q # r
    <3>1. mem'[q] = mem[q] /\ thread'[q] = thread[q] /\ pc[q] \in InGraph  BY <1>1, <1>3, <2>2
    <3>2. mem[q] \in Seq(Message) /\ On(thread[q], mem[q], thread, pc)
      BY <3>1, PlacedNow DEF TypeOK
    <3>3. On(thread[q], mem[q], thread', pc')  BY <3>2, OnKept
    <3> QED  BY <3>1, <3>3
  <2> QED  BY <2>1, <2>2
<1>4. ASSUME NEW q \in Run, pc'[q] = "start" PROVE thread'[q] = None
  BY <1>1, <1>4, PlacedNow
<1> QED  BY <1>2, <1>3, <1>4, PlacedNext

(* As CommitPlaced, for a step that writes no copy the graph goes on with. *)
LEMMA OtherPlaced ==
    ASSUME TypeOK, MessagesPlaced, NEW r \in Run, RunStep(r),
           \A t \in Thread : log'[t] = log[t] \/ log'[t] = Repaired(log[t]),
           pc'[r] \in InGraph => pc[r] \in InGraph /\ mem'[r] = mem[r],
           pc'[r] = "start" => pc[r] = "start" /\ thread'[r] = thread[r]
    PROVE  MessagesPlaced'
<1>1. \A q \in Run : q # r => pc'[q] = pc[q] /\ mem'[q] = mem[q] /\ thread'[q] = thread[q]
  BY StepFrame
<1>2. ASSUME NEW t \in Thread PROVE On(t, log'[t], thread', pc')
  <2>1. log[t] \in Seq(Message) /\ On(t, log[t], thread, pc)  BY PlacedNow DEF TypeOK
  <2>2. On(t, log[t], thread', pc')  BY <2>1, OnKept
  <2>3. On(t, Repaired(log[t]), thread', pc')  BY <2>1, <2>2, RepairedOn
  <2> QED  BY <2>2, <2>3
<1>3. ASSUME NEW q \in Run, pc'[q] \in InGraph
      PROVE  On(thread'[q], mem'[q], thread', pc')
  <2>1. pc[q] \in InGraph /\ mem'[q] = mem[q]  BY <1>1, <1>3
  <2>2. thread'[q] = thread[q]  BY <2>1, StepFrame DEF InGraph, Running, Boundary
  <2>3. mem[q] \in Seq(Message) /\ On(thread[q], mem[q], thread, pc)
    BY <2>1, PlacedNow DEF TypeOK
  <2>4. On(thread[q], mem[q], thread', pc')  BY <2>3, OnKept
  <2> QED  BY <2>1, <2>2, <2>4
<1>4. ASSUME NEW q \in Run, pc'[q] = "start" PROVE thread'[q] = None
  <2>1. pc[q] = "start" /\ thread'[q] = thread[q]  BY <1>1, <1>4
  <2> QED  BY <2>1, PlacedNow
<1> QED  BY <1>2, <1>3, <1>4, PlacedNext

LEMMA PlacedStep ==
    ASSUME TypeOK, HasThread, LastIsOwn, MessagesPlaced, NEW r \in Run, RunStep(r)
    PROVE  MessagesPlaced'
<1>1. CASE Aside(r)
  <2>1. pc'[r] = "start" => pc[r] = "start" /\ thread'[r] = thread[r]  BY <1>1 DEF Aside
  <2> QED  BY <1>1, <2>1, OtherPlaced DEF Aside
<1>2. CASE Input(r)
  <2>1. thread[r] \in Thread /\ pc[r] = "started" /\ pc'[r] \notin Early /\ thread' = thread
    BY <1>2 DEF Input, HasThread, Goto, Early, TypeOK, locals
  <2>2. log[thread[r]] \in Seq(Message) /\ On(thread[r], log[thread[r]], thread, pc)
    BY <2>1, PlacedNow DEF TypeOK
  <2>3. On(thread[r], log[thread[r]], thread', pc')  BY <2>2, OnKept
  <2>4. Msg("human", r).by = r  BY DEF Msg
  <2>5. On(thread[r], Append(log[thread[r]], Msg("human", r)), thread', pc')
    BY <2>1, <2>2, <2>3, <2>4, AppendOn
  <2> QED  BY <1>2, <2>1, <2>5, CommitPlaced DEF Input
<1>3. CASE Summarize(r) \/ Reply(r) \/ Refuse(r) \/ Tools(r)
  <2>1. /\ pc[r] \in Running /\ pc'[r] \notin Early /\ thread' = thread
        /\ mem[r] \in Seq(Message)
    BY <1>3 DEF Summarize, Reply, Refuse, Tools, Running, Early, Goto, TypeOK, locals
  <2>2. On(thread[r], mem[r], thread, pc)  BY <2>1, PlacedNow DEF InGraph
  <2>3. On(thread[r], mem[r], thread', pc')  BY <2>1, <2>2, OnKept
  <2>4. PICK x : Commit(r, x) /\ On(thread[r], x, thread', pc')
    <3>1. CASE Summarize(r)
      <4>1. PICK i \in DOMAIN mem[r] : Commit(r, SubSeq(mem[r], i, Len(mem[r])))
        BY <3>1 DEF Summarize
      <4> QED  BY <2>1, <2>3, <4>1, TailOn
    <3>2. CASE Reply(r)
      <4>1. PICK k \in {"call", "answer", "empty"} : Commit(r, Append(mem[r], Msg(k, r)))
        BY <3>2 DEF Reply
      <4>2. Msg(k, r).by = r  BY DEF Msg
      <4>3. On(thread[r], Append(mem[r], Msg(k, r)), thread', pc')
        BY <2>1, <2>3, <4>2, AppendOn
      <4> QED  BY <4>1, <4>3
    <3>3. CASE Refuse(r)
      <4>1. Msg("answer", r).by = r  BY DEF Msg
      <4>2. On(thread[r], Append(mem[r], Msg("answer", r)), thread', pc')
        BY <2>1, <2>3, <4>1, AppendOn
      <4> QED  BY <3>3, <4>2 DEF Refuse
    <3>4. CASE Tools(r)
      <4>1. mem[r] # <<>> /\ mem[r][Len(mem[r])].by = r /\ mem[r][Len(mem[r])] \in Message
        BY <3>4, ToolsAfterCall
      <4>2. ToolFor(mem[r][Len(mem[r])]).by = r  BY <4>1 DEF ToolFor, Message
      <4>3. On(thread[r], Append(mem[r], ToolFor(mem[r][Len(mem[r])])), thread', pc')
        BY <2>1, <2>3, <4>2, AppendOn
      <4> QED  BY <3>4, <4>3 DEF Tools
    <3> QED  BY <1>3, <3>1, <3>2, <3>3, <3>4
  <2> QED  BY <2>1, <2>4, CommitPlaced DEF Running
<1>4. CASE Stop(r) \/ Done(r) \/ Leave(r) \/ SyncDone(r)
  <2>1. pc'[r] \notin InGraph /\ pc'[r] # "start"
    BY <1>4 DEF Stop, Done, Leave, SyncDone, Goto, TypeOK, InGraph, Running, Boundary
  <2>2. \A t \in Thread : log'[t] = log[t] \/ log'[t] = Repaired(log[t])
    BY <1>4 DEF Stop, Done, Leave, SyncDone, TypeOK
  <2> QED  BY <2>1, <2>2, OtherPlaced
<1> QED  BY <1>1, <1>2, <1>3, <1>4, StepCases

----------------------------------------------------------------------------
(* Whose calls are answered *)

(* All calls of q but a last one. *)
OpenAtEnd(q, s) == \A i \in DOMAIN s : s[i].by = q => AnsweredAt(s, i) \/ i = Len(s)

LEMMA OwnNow ==
    OwnCallsAnswered <=>
      \A q \in Run : pc[q] \in InGraph =>
        IF pc[q] \in {"replied", "tools"} THEN OpenAtEnd(q, mem[q]) ELSE AnsweredBy(q, mem[q])
BY DEF OwnCallsAnswered, OpenAtEnd, AnsweredBy

LEMMA OwnNext ==
    OwnCallsAnswered' <=>
      \A q \in Run : pc'[q] \in InGraph =>
        IF pc'[q] \in {"replied", "tools"} THEN OpenAtEnd(q, mem'[q]) ELSE AnsweredBy(q, mem'[q])
BY DEF OwnCallsAnswered, OpenAtEnd, AnsweredBy, AnsweredAt

LEMMA AppendAnswered ==
    ASSUME NEW s \in Seq(Message), NEW q, NEW m, AnsweredBy(q, s),
           m.by # q \/ m.kind # "call"
    PROVE  AnsweredBy(q, Append(s, m))
BY DEF AnsweredBy, AnsweredAt

LEMMA AppendOpen ==
    ASSUME NEW s \in Seq(Message), NEW q, NEW m, AnsweredBy(q, s)
    PROVE  OpenAtEnd(q, Append(s, m))
BY DEF AnsweredBy, AnsweredAt, OpenAtEnd

LEMMA TailAnswered ==
    ASSUME NEW s \in Seq(Message), NEW i \in DOMAIN s, NEW q, AnsweredBy(q, s)
    PROVE  AnsweredBy(q, SubSeq(s, i, Len(s)))
<1> DEFINE x == SubSeq(s, i, Len(s))
<1>1. Len(x) = Len(s) - i + 1 /\ \A j \in 1..Len(x) : x[j] = s[i + j - 1]
  BY SubSeqProperties
<1>2. x \in Seq(Message)  BY TailType
<1> HIDE DEF x
<1>3. ASSUME NEW j \in DOMAIN x, x[j].by = q, x[j].kind = "call"
      PROVE  j < Len(x) /\ x[j + 1] = ToolFor(x[j])
  <2>1. j \in 1..Len(x) /\ x[j] = s[i + j - 1] /\ i + j - 1 \in DOMAIN s  BY <1>1, <1>2
  <2>2. i + j - 1 < Len(s) /\ s[(i + j - 1) + 1] = ToolFor(s[i + j - 1])
    BY <1>3, <2>1 DEF AnsweredBy, AnsweredAt
  <2>3. (i + j - 1) + 1 = i + (j + 1) - 1 /\ j < Len(x)  BY <1>1, <2>1, <2>2
  <2>4. x[j + 1] = s[i + (j + 1) - 1]  BY <1>1, <2>1, <2>3
  <2> QED  BY <2>1, <2>2, <2>3, <2>4
<1> QED  BY <1>3 DEF AnsweredBy, AnsweredAt, x

(* The result that closes a last call, and a last message that is no call. *)
LEMMA ResultCloses ==
    ASSUME NEW s \in Seq(Message), NEW q, OpenAtEnd(q, s), LastKind(s) = "call"
    PROVE  AnsweredBy(q, Append(s, ToolFor(s[Len(s)])))
<1> DEFINE m == ToolFor(s[Len(s)])
<1>1. s # <<>>  BY DEF LastKind
<1>2. m.kind = "tool"
  <2>1. s[Len(s)] \in Message  BY <1>1
  <2> QED  BY <2>1 DEF ToolFor, Message
<1> SUFFICES ASSUME NEW i \in DOMAIN Append(s, m), Append(s, m)[i].by = q,
                    Append(s, m)[i].kind = "call"
             PROVE  i < Len(s) + 1 /\ Append(s, m)[i + 1] = ToolFor(Append(s, m)[i])
  BY DEF AnsweredBy, AnsweredAt
<1> HIDE DEF m
<1>3. i \in DOMAIN s /\ Append(s, m)[i] = s[i]  BY <1>2
<1>4. CASE i = Len(s)  BY <1>3, <1>4 DEF m
<1>5. CASE i < Len(s)
  <2>1. s[i + 1] = ToolFor(s[i])  BY <1>3, <1>5 DEF OpenAtEnd, AnsweredAt
  <2> QED  BY <1>3, <1>5, <2>1
<1> QED  BY <1>3, <1>4, <1>5

LEMMA NoCallIsOpen ==
    ASSUME NEW s \in Seq(Message), NEW q, OpenAtEnd(q, s), LastKind(s) # "call"
    PROVE  AnsweredBy(q, s)
BY DEF AnsweredBy, AnsweredAt, OpenAtEnd, LastKind

LEMMA OpenRepaired ==
    ASSUME NEW s \in Seq(Message), NEW q, OpenAtEnd(q, s)
    PROVE  AnsweredBy(q, Repaired(s))
BY ResultCloses, NoCallIsOpen DEF Repaired

LEMMA AnsweredIsOpen == ASSUME NEW s, NEW q, AnsweredBy(q, s) PROVE OpenAtEnd(q, s)
BY DEF AnsweredBy, OpenAtEnd

LEMMA OwnStep ==
    ASSUME TypeOK, HasThread, LastIsOwn, MessagesPlaced, OwnCallsAnswered,
           NEW r \in Run, RunStep(r)
    PROVE  OwnCallsAnswered'
<1>0. \A q \in Run \ {r} : pc'[q] = pc[q] /\ mem'[q] = mem[q]  BY StepFrame
<1>1. SUFFICES ASSUME pc'[r] \in InGraph
               PROVE  IF pc'[r] \in {"replied", "tools"} THEN OpenAtEnd(r, mem'[r])
                                                         ELSE AnsweredBy(r, mem'[r])
  <2>1. \A q \in Run \ {r} : pc'[q] \in InGraph =>
          IF pc'[q] \in {"replied", "tools"} THEN OpenAtEnd(q, mem'[q])
                                             ELSE AnsweredBy(q, mem'[q])
    BY <1>0, OwnNow
  <2> QED  BY <1>1, <2>1, OwnNext
<1>2. mem[r] \in Seq(Message)  BY DEF TypeOK
<1>3. pc[r] \in InGraph => IF pc[r] \in {"replied", "tools"} THEN OpenAtEnd(r, mem[r])
                                                            ELSE AnsweredBy(r, mem[r])
  BY OwnNow
<1>4. CASE Aside(r)
  <2>1. pc[r] \in InGraph /\ mem'[r] = mem[r] /\ OpenAtEnd(r, mem[r])
    BY <1>1, <1>3, <1>4, AnsweredIsOpen DEF Aside
  <2>2. \/ pc'[r] \in {"replied", "tools"}
        \/ pc[r] \notin {"replied", "tools"} \/ LastKind(mem[r]) # "call"
    BY <1>1, <1>4 DEF Aside
  <2> QED  BY <1>2, <1>3, <2>1, <2>2, NoCallIsOpen
<1>5. CASE Input(r)
  <2>1. thread[r] \in Thread /\ pc[r] \in Early  BY <1>5 DEF Input, HasThread, Early
  <2>2. log[thread[r]] \in Seq(Message) /\ On(thread[r], log[thread[r]], thread, pc)
    BY <2>1, PlacedNow DEF TypeOK
  <2>3. AnsweredBy(r, log[thread[r]])  BY <2>1, <2>2 DEF On, AnsweredBy
  <2>4. AnsweredBy(r, Append(log[thread[r]], Msg("human", r)))
    BY <2>2, <2>3, AppendAnswered DEF Msg
  <2>5. mem'[r] = Append(log[thread[r]], Msg("human", r)) /\ pc'[r] \notin {"replied", "tools"}
    BY <1>5 DEF Input, Commit, Goto, TypeOK
  <2> QED  BY <2>4, <2>5
<1>6. CASE Summarize(r)
  <2>1. PICK i \in DOMAIN mem[r] : Commit(r, SubSeq(mem[r], i, Len(mem[r])))
    BY <1>6 DEF Summarize
  <2>2. AnsweredBy(r, mem[r])  BY <1>3, <1>6 DEF Summarize, InGraph, Running
  <2>3. mem'[r] = SubSeq(mem[r], i, Len(mem[r])) /\ pc'[r] = "summarized"
    BY <1>6, <2>1 DEF Summarize, Commit, Goto, TypeOK
  <2> QED  BY <1>2, <2>2, <2>3, TailAnswered
<1>7. CASE Reply(r) \/ Refuse(r)
  <2>1. PICK k : mem'[r] = Append(mem[r], Msg(k, r))
    <3>1. CASE Reply(r)   BY <3>1 DEF Reply, Commit, TypeOK
    <3>2. CASE Refuse(r)  BY <3>2 DEF Refuse, Commit, TypeOK
    <3> QED  BY <1>7, <3>1, <3>2
  <2>2. AnsweredBy(r, mem[r]) /\ pc'[r] = "replied"
    BY <1>3, <1>7 DEF Reply, Refuse, InGraph, Running, Goto, TypeOK
  <2> QED  BY <1>2, <2>1, <2>2, AppendOpen
<1>8. CASE Tools(r)
  <2>1. OpenAtEnd(r, mem[r]) /\ LastKind(mem[r]) = "call"
    BY <1>3, <1>8, ToolsAfterCall DEF Tools, InGraph, Running
  <2>2. mem'[r] = Append(mem[r], ToolFor(mem[r][Len(mem[r])])) /\ pc'[r] = "ran"
    BY <1>8 DEF Tools, Commit, Goto, TypeOK
  <2> QED  BY <1>2, <2>1, <2>2, ResultCloses
<1>9. CASE Stop(r) \/ Done(r) \/ Leave(r) \/ SyncDone(r)
  BY <1>1, <1>9 DEF Stop, Done, Leave, SyncDone, Goto, TypeOK, InGraph, Running, Boundary
<1> QED  BY <1>4, <1>5, <1>6, <1>7, <1>8, <1>9, StepCases

(* Where a run is not, it leaves no call. *)
LEMMA Elsewhere ==
    ASSUME NEW t, NEW s, NEW q, On(t, s, thread, pc), thread[q] # t
    PROVE  AnsweredBy(q, s)
BY DEF On, AnsweredBy

LEMMA StreamsApart ==
    ASSUME TypeOK, HasThread, HoldsThread, SyncRun = {},
           NEW r \in Run, pc[r] \in InGraph, NEW q \in Run, pc[q] \in InGraph, q # r
    PROVE  thread[q] # thread[r]
<1>1. /\ inflight[r] = thread[r] /\ inflight[q] = thread[q]
      /\ thread[r] \in Thread
  BY DEF HoldsThread, HasThread, InStream, InGraph, Running, Boundary
<1>2. inflight[r] # None  BY <1>1, ConstantsAreSane
<1> QED  BY <1>1, <1>2 DEF HoldsThread, Registry!Exclusive

(* A commit that adds to no settled turn. *)
LEMMA CommitSettled ==
    ASSUME TypeOK, SettledAnswered, NEW r \in Run, RunStep(r), NEW x, Commit(r, x), told' = told,
           \A q \in Run : Settled(q) => AnsweredBy(q, x)
    PROVE  SettledAnswered'
<1> SUFFICES ASSUME NEW q \in Run, Settled(q)
             PROVE  /\ \A t \in Thread : AnsweredBy(q, log'[t])
                    /\ \A p \in Run : pc'[p] \in InGraph => AnsweredBy(q, mem'[p])
  BY DEF SettledAnswered, Settled, AnsweredBy, AnsweredAt
<1>1. \A t \in Thread : log'[t] = log[t] \/ log'[t] = x  BY DEF Commit, TypeOK
<1>2. mem'[r] = x  BY DEF Commit, TypeOK
<1>3. \A p \in Run \ {r} : pc'[p] = pc[p] /\ mem'[p] = mem[p]  BY StepFrame
<1> QED  BY <1>1, <1>2, <1>3 DEF SettledAnswered

(* The outcome of r is told: its calls have their results in its           *)
(* checkpoint, and it has none elsewhere.                                  *)
LEMMA OutcomeSettles ==
    ASSUME TypeOK, HasThread, HoldsThread, SyncRun = {}, MessagesPlaced, SettledAnswered,
           NEW r \in Run, RunStep(r), pc[r] \in InGraph, pc'[r] \notin InGraph,
           \A t \in Thread : log'[t] = log[t] \/ (t = thread[r] /\ log'[t] = Repaired(log[t])),
           Settled(r)' => AnsweredBy(r, log'[thread[r]])
    PROVE  SettledAnswered'
<1>0. \A q \in Run \ {r} : pc'[q] = pc[q] /\ mem'[q] = mem[q] /\ told'[q] = told[q]
  BY StepFrame
<1> SUFFICES ASSUME NEW q \in Run, Settled(q)'
             PROVE  /\ \A t \in Thread : AnsweredBy(q, log'[t])
                    /\ \A p \in Run : pc'[p] \in InGraph => AnsweredBy(q, mem'[p])
  BY DEF SettledAnswered, Settled, AnsweredBy, AnsweredAt
<1>1. CASE q # r
  <2>1. Settled(q)  BY <1>0, <1>1 DEF Settled
  <2>2. ASSUME NEW t \in Thread PROVE AnsweredBy(q, log'[t])
    <3>1. log[t] \in Seq(Message) /\ AnsweredBy(q, log[t])
      BY <2>1 DEF TypeOK, SettledAnswered
    <3>2. OpenAtEnd(q, log[t])  BY <3>1, AnsweredIsOpen
    <3>3. AnsweredBy(q, Repaired(log[t]))  BY <3>1, <3>2, OpenRepaired
    <3> QED  BY <3>1, <3>3
  <2>3. \A p \in Run : pc'[p] \in InGraph => AnsweredBy(q, mem'[p])
    BY <1>0, <2>1 DEF SettledAnswered
  <2> QED  BY <2>2, <2>3
<1>2. CASE q = r
  <2>1. ASSUME NEW t \in Thread PROVE AnsweredBy(r, log'[t])
    <3>1. CASE t = thread[r]  BY <1>2, <3>1
    <3>2. CASE t # thread[r]
      <4>1. On(t, log[t], thread, pc) /\ log'[t] = log[t]  BY <3>2, PlacedNow
      <4> QED  BY <3>2, <4>1, Elsewhere
    <3> QED  BY <3>1, <3>2
  <2>2. ASSUME NEW p \in Run, pc'[p] \in InGraph PROVE AnsweredBy(r, mem'[p])
    <3>1. p # r /\ pc[p] \in InGraph /\ mem'[p] = mem[p]  BY <1>0, <2>2
    <3>2. thread[p] # thread[r]  BY <3>1, StreamsApart
    <3>3. On(thread[p], mem[p], thread, pc)  BY <3>1, PlacedNow
    <3> QED  BY <3>1, <3>2, <3>3, Elsewhere
  <2> QED  BY <1>2, <2>1, <2>2
<1> QED  BY <1>1, <1>2

LEMMA SettledStep ==
    ASSUME TypeOK, HasThread, HoldsThread, LastIsOwn, NothingTold, ResultsPaired,
           MessagesPlaced, OwnCallsAnswered, SyncRun = {}, CopyIsCurrent, SettledAnswered,
           NEW r \in Run, RunStep(r)
    PROVE  SettledAnswered'
<1>0. \A q \in Run \ {r} : pc'[q] = pc[q] /\ mem'[q] = mem[q] /\ told'[q] = told[q]
  BY StepFrame
<1>1. mem[r] \in Seq(Message)  BY DEF TypeOK
<1>2. CASE Aside(r)
  <2>1. \A q \in Run : Settled(q)' => Settled(q)
    BY <1>0, <1>2 DEF Aside, Settled
  <2>2. \A q \in Run : pc'[q] \in InGraph => pc[q] \in InGraph  BY <1>0, <1>2 DEF Aside
  <2> QED  BY <1>2, <2>1, <2>2 DEF Aside, SettledAnswered, AnsweredBy, AnsweredAt
<1>3. CASE Input(r)
  <2>1. thread[r] \in Thread /\ ~ Settled(r)
    BY <1>3 DEF Input, HasThread, NothingTold, BeforeOutcome, Settled
  <2>2. log[thread[r]] \in Seq(Message)  BY <2>1 DEF TypeOK
  <2>3. \A q \in Run : Settled(q) => AnsweredBy(q, Append(log[thread[r]], Msg("human", r)))
    BY <2>1, <2>2, AppendAnswered DEF SettledAnswered, Msg
  <2> QED  BY <1>3, <2>3, CommitSettled DEF Input, locals
<1>4. CASE Summarize(r) \/ Reply(r) \/ Refuse(r) \/ Tools(r)
  <2>1. pc[r] \in Running /\ told' = told
    BY <1>4 DEF Summarize, Reply, Refuse, Tools, Running, locals
  <2>2. ~ Settled(r)  BY <2>1 DEF NothingTold, BeforeOutcome, Settled
  <2>3. \A q \in Run : Settled(q) => AnsweredBy(q, mem[r])
    BY <2>1 DEF SettledAnswered, InGraph
  <2>4. PICK x : Commit(r, x) /\ \A q \in Run : Settled(q) => AnsweredBy(q, x)
    <3>1. CASE Summarize(r)
      <4>1. PICK i \in DOMAIN mem[r] : Commit(r, SubSeq(mem[r], i, Len(mem[r])))
        BY <3>1 DEF Summarize
      <4> QED  BY <1>1, <2>3, <4>1, TailAnswered
    <3>2. CASE Reply(r)
      <4>1. PICK k \in {"call", "answer", "empty"} : Commit(r, Append(mem[r], Msg(k, r)))
        BY <3>2 DEF Reply
      <4>2. \A q \in Run : Settled(q) => AnsweredBy(q, Append(mem[r], Msg(k, r)))
        BY <1>1, <2>2, <2>3, AppendAnswered DEF Msg
      <4> QED  BY <4>1, <4>2
    <3>3. CASE Refuse(r)
      <4>1. \A q \in Run : Settled(q) => AnsweredBy(q, Append(mem[r], Msg("answer", r)))
        BY <1>1, <2>2, <2>3, AppendAnswered DEF Msg
      <4> QED  BY <3>3, <4>1 DEF Refuse
    <3>4. CASE Tools(r)
      <4>1. mem[r] # <<>> /\ mem[r][Len(mem[r])] \in Message
        BY <3>4, ToolsAfterCall
      <4>2. ToolFor(mem[r][Len(mem[r])]).kind = "tool"  BY <4>1 DEF ToolFor, Message
      <4>3. \A q \in Run : Settled(q) =>
              AnsweredBy(q, Append(mem[r], ToolFor(mem[r][Len(mem[r])])))
        BY <1>1, <2>3, <4>2, AppendAnswered
      <4> QED  BY <3>4, <4>3 DEF Tools
    <3> QED  BY <1>4, <3>1, <3>2, <3>3, <3>4
  <2> QED  BY <2>1, <2>4, CommitSettled
<1>5. CASE Stop(r)
  <2>1. pc[r] \in InGraph /\ pc'[r] \notin InGraph /\ thread[r] \in Thread
    BY <1>5 DEF Stop, InGraph, HasThread, Goto, TypeOK, Running, Boundary
  <2>2. log' = [log EXCEPT ![thread[r]] = Repaired(log[thread[r]])]  BY <1>5 DEF Stop
  <2>3. AnsweredBy(r, log'[thread[r]])
    <3>1. OpenAtEnd(r, mem[r])  BY <2>1, OwnNow, AnsweredIsOpen
    <3>2. OpenAtEnd(r, <<>>)  BY DEF OpenAtEnd
    <3>3. log[thread[r]] \in {mem[r], <<>>}  BY <2>1 DEF CopyIsCurrent, InGraph
    <3>4. log[thread[r]] \in Seq(Message) /\ OpenAtEnd(r, log[thread[r]])
      BY <2>1, <3>1, <3>2, <3>3 DEF TypeOK
    <3>5. AnsweredBy(r, Repaired(log[thread[r]]))  BY <3>4, OpenRepaired
    <3> QED  BY <2>1, <2>2, <3>5 DEF TypeOK
  <2>4. \A t \in Thread : log'[t] = log[t] \/ (t = thread[r] /\ log'[t] = Repaired(log[t]))
    BY <2>2 DEF TypeOK
  <2> QED  BY <2>1, <2>3, <2>4, OutcomeSettles
<1>6. CASE Done(r)
  <2>1. /\ pc[r] = "final" /\ pc'[r] \notin InGraph
        /\ log' = log /\ LastKind(log[thread[r]]) = "answer"
    BY <1>6 DEF Done, InGraph, Goto, TypeOK, Running, Boundary
  <2>2. AnsweredBy(r, mem[r])  BY <2>1, OwnNow DEF InGraph
  <2>3. AnsweredBy(r, log[thread[r]])
    BY <2>1, <2>2 DEF CopyIsCurrent, LastKind
  <2> QED  BY <2>1, <2>3, OutcomeSettles DEF InGraph
<1>7. CASE Leave(r) \/ SyncDone(r)
  <2>1. pc'[r] \notin InGraph /\ log' = log /\ told' = told
    BY <1>7 DEF Leave, SyncDone, InGraph, Goto, TypeOK, Running, Boundary, locals
  <2>2. \A q \in Run : pc'[q] \in InGraph => pc[q] \in InGraph /\ mem'[q] = mem[q]
    BY <1>0, <2>1
  <2> QED  BY <2>1, <2>2 DEF SettledAnswered, Settled, AnsweredBy, AnsweredAt
<1> QED  BY <1>2, <1>3, <1>4, <1>5, <1>6, <1>7, StepCases

(* A delete of the chat empties a checkpoint and drops rows. *)
LEMMA DeleteInvariant ==
    ASSUME IInv, NEW t \in Thread, DeleteLog(t) \/ DeleteRow(t) \/ DeleteIndex(t)
    PROVE  IInv'
<1> USE DEF IInv, registry, rows, graph, locals, env
<1>1. TypeOK'
  <2>1. CASE DeleteLog(t)    BY <2>1 DEF TypeOK, Registry!TypeOK, DeleteLog
  <2>2. CASE DeleteRow(t)    BY <2>2 DEF TypeOK, Registry!TypeOK, DeleteRow
  <2>3. CASE DeleteIndex(t)  BY <2>3 DEF TypeOK, Registry!TypeOK, DeleteIndex
  <2> QED  BY <2>1, <2>2, <2>3
<1>2. HasThread' /\ CallLeft' /\ LastIsOwn'
  BY DEF HasThread, CallLeft, LastIsOwn, DeleteLog, DeleteRow, DeleteIndex
<1>3. HoldsThread'
  BY DEF HoldsThread, Registry!Exclusive, DeleteLog, DeleteRow, DeleteIndex
<1>4. NothingTold' /\ CancelEnds'
  BY DEF NothingTold, CancelEnds, CancelledIsFinal, DeleteLog, DeleteRow, DeleteIndex
<1>5. SyncRun = {} => CopyIsCurrent'
  <2> SUFFICES ASSUME SyncRun = {}, NEW s \in Run,
                      pc[s] \in Running \cup Boundary \cup {"final"}
               PROVE  log'[thread[s]] \in {mem[s], <<>>}
    BY DEF CopyIsCurrent, DeleteLog, DeleteRow, DeleteIndex
  <2>1. log[thread[s]] \in {mem[s], <<>>}  BY DEF CopyIsCurrent
  <2>2. thread[s] \in Thread  BY DEF HasThread, Running, Boundary
  <2> QED  BY <2>1, <2>2 DEF DeleteLog, DeleteRow, DeleteIndex, TypeOK
<1>6. /\ \A u \in Thread : log'[u] \in {log[u], <<>>} /\ chat'[u] \in {chat[u], "none"}
      /\ <<usage, mem, calls, locals, crashed, pc>>' = <<usage, mem, calls, locals, crashed, pc>>
  BY DEF DeleteLog, DeleteRow, DeleteIndex, TypeOK
<1>7. Accounted'
  BY <1>6 DEF Accounted
<1>8. FirstTurns'
  BY <1>6 DEF FirstTurns, FailedChatDropped
<1>9. ResultsPaired'
  <2>1. ResultsFollow(<<>>)  BY DEF ResultsFollow
  <2>2. \A u \in Thread : ResultsFollow(log'[u])
    BY <1>6, <2>1 DEF ResultsPaired, NoDanglingResult
  <2> QED  BY <1>6, <2>2 DEF ResultsPaired, NoDanglingResult
<1>10. MessagesPlaced'
  <2>1. \A u \in Thread : On(u, log[u], thread, pc) /\ On(u, <<>>, thread, pc)
    BY PlacedNow DEF On
  <2> QED  BY <1>6, <2>1, PlacedNow, PlacedNext
<1>11. OwnCallsAnswered'
  BY <1>6 DEF OwnCallsAnswered, AnsweredAt
<1>12. SyncRun = {} => SettledAnswered'
  <2>1. \A q : AnsweredBy(q, <<>>)  BY DEF AnsweredBy
  <2>2. ASSUME SyncRun = {}, NEW q \in Run, Settled(q)
        PROVE  /\ \A u \in Thread : AnsweredBy(q, log'[u])
               /\ \A p \in Run : pc[p] \in InGraph => AnsweredBy(q, mem[p])
    BY <1>6, <2>1, <2>2 DEF SettledAnswered
  <2> QED  BY <1>6, <2>2 DEF SettledAnswered, Settled, AnsweredBy, AnsweredAt
<1> QED
  BY <1>1, <1>2, <1>3, <1>4, <1>5, <1>7, <1>8, <1>9, <1>10, <1>11, <1>12

(* A crash leaves rows and checkpoints; whoever was served is gone. *)
LEMMA CrashInvariant == IInv /\ Crash => IInv'
<1> SUFFICES ASSUME IInv, Crash PROVE IInv'  OBVIOUS
<1> USE DEF IInv, Crash, Registry!Wipe, rows, locals
<1>1. \A r \in Run : pc'[r] = "closed" \/ (pc'[r] = "start" /\ pc[r] = "start")
  OBVIOUS
<1>2. TypeOK'
  BY ConstantsAreSane DEF TypeOK, Registry!TypeOK, PC
<1>3. HasThread' /\ CallLeft' /\ LastIsOwn'
  BY <1>1 DEF HasThread, CallLeft, LastIsOwn, InGraph, Running, Boundary
<1>4. HoldsThread'
  BY <1>1, ConstantsAreSane
     DEF HoldsThread, Registry!Exclusive, InStream, Running, Boundary, Yielded
<1>5. NothingTold' /\ CancelEnds'
  BY <1>1 DEF NothingTold, CancelEnds, CancelledIsFinal, BeforeOutcome, Running, Boundary
<1>6. SyncRun = {} => CopyIsCurrent'
  BY <1>1 DEF CopyIsCurrent, Running, Boundary
<1>7. \A r \in Run : pc'[r] \notin InGraph /\ pc'[r] # "replied" /\ mem'[r] = <<>>
  BY <1>1 DEF InGraph, Running, Boundary
<1>8. Accounted' /\ FirstTurns'
  BY <1>1 DEF Accounted, FirstTurns, BeforeOutcome, Running, Boundary
<1>9. ResultsPaired'
  BY <1>1, <1>7 DEF ResultsPaired, NoDanglingResult, ResultsFollow
<1>10. MessagesPlaced'
  <2>1. ASSUME NEW t \in Thread PROVE On(t, log'[t], thread', pc')
    <3>1. log[t] \in Seq(Message) /\ On(t, log[t], thread, pc)
      BY PlacedNow DEF TypeOK
    <3>2. ASSUME NEW i \in DOMAIN log[t] PROVE log[t][i].by \in Run
      <4>1. log[t][i] \in Message  BY <3>1
      <4> QED  BY <4>1 DEF Message
    <3>3. \A q \in Run : pc[q] \notin Early => pc'[q] \notin Early  BY DEF Early
    <3> QED  BY <3>1, <3>2, <3>3 DEF On
  <2> QED  BY <1>1, <1>7, <2>1, PlacedNow, PlacedNext
<1>11. OwnCallsAnswered'
  BY <1>7 DEF OwnCallsAnswered
<1>12. SyncRun = {} => SettledAnswered'
  <2>1. ASSUME SyncRun = {}, NEW q \in Run, Settled(q)
        PROVE  \A t \in Thread : AnsweredBy(q, log[t])
    BY <2>1 DEF SettledAnswered
  <2> QED  BY <1>7, <2>1 DEF SettledAnswered, Settled, AnsweredBy, AnsweredAt
<1> QED  BY <1>2, <1>3, <1>4, <1>5, <1>6, <1>8, <1>9, <1>10, <1>11, <1>12

LEMMA StutterInvariant == IInv /\ UNCHANGED vars => IInv'
<1> SUFFICES ASSUME IInv, UNCHANGED vars PROVE IInv'  OBVIOUS
<1> USE DEF vars, registry, rows, graph, locals, env, IInv
<1>1. TypeOK' /\ HasThread' /\ HoldsThread' /\ CallLeft' /\ LastIsOwn'
  BY DEF TypeOK, Registry!TypeOK, HasThread, HoldsThread, Registry!Exclusive, CallLeft, LastIsOwn
<1>2. NothingTold' /\ CancelEnds' /\ Accounted' /\ FirstTurns'
  BY DEF NothingTold, CancelEnds, CancelledIsFinal, Accounted, FirstTurns,
         FailedChatDropped
<1>3. ResultsPaired' /\ MessagesPlaced' /\ OwnCallsAnswered'
  BY PlacedNow, PlacedNext
     DEF ResultsPaired, NoDanglingResult, OwnCallsAnswered, AnsweredAt
<1>4. SyncRun = {} => CopyIsCurrent' /\ SettledAnswered'
  BY DEF CopyIsCurrent, SettledAnswered, Settled, AnsweredBy, AnsweredAt
<1> QED  BY <1>1, <1>2, <1>3, <1>4

LEMMA NextInvariant == IInv /\ [Next]_vars => IInv'
<1> SUFFICES ASSUME IInv, [Next]_vars PROVE IInv'  OBVIOUS
<1>1. ASSUME NEW r \in Run, RunStep(r)
      PROVE  IInv'
  <2>1. TypeOK'                                BY <1>1, TypeStep DEF IInv
  <2>2. HasThread' /\ CallLeft' /\ LastIsOwn'  BY <1>1, ControlStep, LastStep DEF IInv
  <2>3. HoldsThread'                           BY <1>1, HoldsStep DEF IInv
  <2>4. NothingTold' /\ CancelEnds'            BY <1>1, OutcomeStep DEF IInv
  <2>5. SyncRun = {} => CopyIsCurrent'         BY <1>1, CopyStep DEF IInv
  <2>6. Accounted' /\ FirstTurns'              BY <1>1, AccountedStep, FirstTurnsStep DEF IInv
  <2>7. ResultsPaired' /\ MessagesPlaced'      BY <1>1, PairedStep, PlacedStep DEF IInv
  <2>8. OwnCallsAnswered'                      BY <1>1, OwnStep DEF IInv
  <2>9. SyncRun = {} => SettledAnswered'       BY <1>1, SettledStep DEF IInv
  <2> QED  BY <2>1, <2>2, <2>3, <2>4, <2>5, <2>6, <2>7, <2>8, <2>9 DEF IInv
<1>2. ASSUME NEW t \in Thread, DeleteLog(t) \/ DeleteRow(t) \/ DeleteIndex(t)
      PROVE  IInv'
  BY <1>2, DeleteInvariant
<1>3. CASE Crash            BY <1>3, CrashInvariant
<1>4. CASE UNCHANGED vars   BY <1>4, StutterInvariant
<1> QED  BY <1>1, <1>2, <1>3, <1>4 DEF Next, RunStep, Quiet

(* IInv holds in every state of the SQL agent. *)
THEOREM Invariant == Spec => []IInv
<1>1. Init => IInv  BY InitInvariant
<1>2. IInv /\ [Next]_vars => IInv'  BY NextInvariant
<1> QED  BY <1>1, <1>2, PTL DEF Spec

----------------------------------------------------------------------------
(* What follows *)

(* Types, and with them the bound on the LLM calls of a turn. *)
THEOREM TypeCorrect == Spec => []TypeOK
BY Invariant, PTL DEF IInv

(* As long as only SqlAgent writes to threads, the messages a run works on *)
(* are the checkpoint's until the chat is deleted.                         *)
THEOREM SingleWriter == Spec => [](SyncRun = {} => CopyIsCurrent)
BY Invariant, PTL DEF IInv

(* Nothing follows "cancelled" on a stream, in any interleaving of cancel, *)
(* failure, disconnect and the end of the graph.                           *)
THEOREM CancelledIsTheEnd == Spec => []CancelledIsFinal
<1>1. IInv => CancelledIsFinal  BY DEF IInv, CancelEnds
<1> QED  BY <1>1, Invariant, PTL

(* Whatever is cut, stubbed, abandoned, deleted or overwritten, no tool    *)
(* result is without its call (_safe_cut_index, repair_orphan_tool_calls). *)
THEOREM ResultsHaveCalls == Spec => []NoDanglingResult
<1>1. IInv => NoDanglingResult  BY DEF IInv, ResultsPaired
<1> QED  BY <1>1, Invariant, PTL

(* The history of an LLM call has the results of all calls of finished     *)
(* turns, as long as only SqlAgent writes to threads and the checkpointer  *)
(* answers, so that no repair before "cancelled" is lost.                  *)
THEOREM HistoriesAreAnswered ==
    ASSUME SyncRun = {}, "error" \notin Faults PROVE Spec => []FinishedTurnsAnswered
<1>1. IInv => FinishedTurnsAnswered
  <2> SUFFICES ASSUME IInv, NEW r \in Run, pc[r] = "agent", NEW i \in DOMAIN mem[r],
                      mem[r][i].by = r \/ told[mem[r][i].by] \cap {"done", "cancelled"} # {}
               PROVE  AnsweredAt(mem[r], i)
    BY DEF FinishedTurnsAnswered
  <2>1. pc[r] \in InGraph  BY DEF InGraph, Running
  <2>2. CASE mem[r][i].by = r
    BY <2>1, <2>2 DEF IInv, OwnCallsAnswered
  <2>3. CASE told[mem[r][i].by] \cap {"done", "cancelled"} # {}
    <3>1. mem[r][i].by \in Run /\ Settled(mem[r][i].by)
      <4>1. mem[r] \in Seq(Message)  BY DEF IInv, TypeOK
      <4>2. mem[r][i] \in Message  BY <4>1
      <4> QED  BY <2>3, <4>2 DEF Message, Settled
    <3> QED  BY <2>1, <3>1 DEF IInv, SettledAnswered, AnsweredBy
  <2> QED  BY <2>2, <2>3
<1> QED  BY <1>1, Invariant, PTL

(* As long as the process lives, a first turn without an answer leaves no  *)
(* chat, whoever used its thread meanwhile and whatever else failed, save  *)
(* the delete of the row itself: a stream in which that raised ends in     *)
(* "uncleaned", not in "closed" (the finally block).                       *)
THEOREM FailedChatsAreDropped == Spec => [](~ crashed => FailedChatDropped)
<1>1. IInv => (~ crashed => FailedChatDropped)  BY DEF IInv, FirstTurns
<1> QED  BY <1>1, Invariant, PTL

(* Only Done announces an answer. *)
LEMMA DoneTells ==
    ASSUME IInv, [Next]_vars, NEW r \in Run, "done" \in told'[r] \ told[r]
    PROVE  Done(r)
<1> USE DEF IInv, TypeOK, graph, locals
<1>1. ASSUME NEW s \in Run,
             NewChat(s) \/ OldChat(s) \/ Register(s) \/ Input(s) \/ Summarize(s)
             \/ KeepAll(s) \/ Reply(s) \/ Refuse(s) \/ Tools(s) \/ Pass(s) \/ Account(s)
             \/ NoAnswer(s) \/ Title(s) \/ TitleLost(s) \/ Index(s) \/ IndexLost(s)
             \/ Leave(s) \/ Cleanup(s) \/ CleanupLost(s) \/ SyncDone(s)
             \/ Cancel(s) \/ Disconnect(s) \/ Fail(s)
      PROVE  told' = told
  BY <1>1 DEF NewChat, OldChat, Register, Input, Summarize, KeepAll, Reply, Refuse, Tools,
      Pass, Account, NoAnswer, Title, TitleLost, Index, IndexLost, Leave, Cleanup, CleanupLost, SyncDone,
      Cancel, Disconnect, Fail
<1>2. ASSUME NEW t \in Thread, DeleteLog(t) \/ DeleteRow(t) \/ DeleteIndex(t)
      PROVE  told' = told
  BY <1>2 DEF DeleteLog, DeleteRow, DeleteIndex
<1>3. Crash \/ UNCHANGED vars => told' = told  BY DEF Crash, vars
<1>4. ASSUME NEW s \in Run, NotFound(s) \/ Unreachable(s) \/ Conflict(s)
      PROVE  told' = [told EXCEPT ![s] = {"refused"}]
  BY <1>4 DEF NotFound, Unreachable, Conflict, Refused
<1>5. ASSUME NEW s \in Run, Stop(s) \/ StopUnrepaired(s)
      PROVE  told' = [told EXCEPT ![s] = @ \cup {"cancelled"}]
  BY <1>5 DEF Stop, StopUnrepaired
<1>6. ASSUME NEW s \in Run, Report(s)
      PROVE  told' = [told EXCEPT ![s] = @ \cup {"error"}]
  BY <1>6 DEF Report
<1>7. ASSUME NEW s \in Run, Done(s)
      PROVE  told' = [told EXCEPT ![s] = @ \cup {"done"}]
  BY <1>7 DEF Done
<1>8. \E s \in Run : s = r /\ Done(s)
  <2>1. told' # told  OBVIOUS
  <2>2. \E s \in Run : Step(s) \/ NotFound(s)
    BY <1>1, <1>2, <1>3, <2>1 DEF Next, Quiet
  <2>3. PICK s \in Run : Step(s) \/ NotFound(s)  BY <2>2
  <2>4. \/ NotFound(s) \/ Unreachable(s) \/ Conflict(s)
        \/ Stop(s) \/ StopUnrepaired(s) \/ Report(s) \/ Done(s)
    BY <1>1, <2>1, <2>3 DEF Step
  <2>5. s = r /\ Done(s)
    <3>1. \E told1 \in {{"refused"}, told[s] \cup {"cancelled"}, told[s] \cup {"error"},
                         told[s] \cup {"done"}} :
             /\ told' = [told EXCEPT ![s] = told1]
             /\ "done" \in told1 => "done" \in told[s] \/ Done(s)
      BY <1>4, <1>5, <1>6, <1>7, <2>4
    <3>2. s = r  BY <3>1
    <3> QED  BY <3>1, <3>2
  <2> QED  BY <2>5
<1> QED  BY <1>8

(* The text of a done event is the run's own answer. *)
THEOREM AnswersAreOwn == ASSUME SyncRun = {} PROVE Spec => AnswerIsOwn
<1>1. ASSUME IInv, [Next]_vars, NEW r \in Run, "done" \in told'[r] \ told[r]
      PROVE  Last(log[thread[r]]).by = r
  <2>1. Done(r)  BY <1>1, DoneTells
  <2>2. pc[r] = "final" /\ log[thread[r]] # <<>>  BY <2>1 DEF Done, LastKind
  <2>3. log[thread[r]] = mem[r]  BY <1>1, <2>2 DEF IInv, CopyIsCurrent
  <2>4. pc[r] \in InGraph  BY <2>2 DEF InGraph
  <2> QED  BY <1>1, <2>3, <2>4 DEF IInv, LastIsOwn, Last
<1>2. IInv /\ [Next]_vars =>
        [\A r \in Run : "done" \in told'[r] \ told[r] => Last(log[thread[r]]).by = r]_vars
  BY <1>1
<1> QED  BY <1>2, Invariant, PTL DEF Spec, AnswerIsOwn
(* What a step may do to the messages of thread t. *)
Keeps(t) ==
    \/ IsPrefix(log[t], log'[t])
    \/ DeleteLog(t)
    \/ \E r \in Run, i \in DOMAIN log[t] :
          /\ thread[r] = t /\ Summarize(r)
          /\ log'[t] = SubSeq(log[t], i, Len(log[t]))

(* A run that appends to its copy appends to the checkpoint, or starts a   *)
(* deleted one anew.                                                       *)
LEMMA AppendKeeps ==
    ASSUME TypeOK, NEW r \in Run, thread[r] \in Thread, NEW t \in Thread,
           NEW x \in Seq(Message), NEW m \in Message,
           log[thread[r]] \in {x, <<>>}, Commit(r, Append(x, m))
    PROVE  Keeps(t)
<1>1. CASE t # thread[r]
  <2>1. log'[t] = log[t] /\ log[t] \in Seq(Message)  BY <1>1 DEF Commit, TypeOK
  <2> QED  BY <2>1, PrefixOfSelf DEF Keeps
<1>2. CASE t = thread[r]
  <2>1. log'[t] = Append(x, m) /\ Append(x, m) \in Seq(Message)
    BY <1>2 DEF Commit, TypeOK
  <2> QED  BY <1>2, <2>1, PrefixOfAppend, EmptyPrefix DEF Keeps
<1> QED  BY <1>1, <1>2

LEMMA SummarizeKeeps ==
    ASSUME IInv, SyncRun = {}, NEW r \in Run, Summarize(r), NEW t \in Thread
    PROVE  Keeps(t)
<1> USE DEF IInv
<1>1. PICK i \in DOMAIN mem[r] : Commit(r, SubSeq(mem[r], i, Len(mem[r])))
  BY DEF Summarize
<1>2. thread[r] \in Thread /\ pc[r] \in Running  BY DEF Summarize, HasThread, Running
<1>3. CASE t # thread[r]
  <2>1. log'[t] = log[t] /\ log[t] \in Seq(Message)  BY <1>1, <1>3 DEF Commit, TypeOK
  <2> QED  BY <2>1, PrefixOfSelf DEF Keeps
<1>4. CASE t = thread[r]
  <2>1. mem[r] \in Seq(Message)  BY DEF TypeOK
  <2>2. log'[t] = SubSeq(mem[r], i, Len(mem[r])) /\ log'[t] \in Seq(Message)
    BY <1>1, <1>2, <1>4, <2>1, TailType DEF Commit, TypeOK
  <2>3. CASE log[t] = mem[r]  BY <1>4, <2>2, <2>3 DEF Keeps
  <2>4. CASE log[t] = <<>>    BY <2>2, <2>4, EmptyPrefix DEF Keeps
  <2> QED  BY <1>2, <1>4, <2>3, <2>4 DEF CopyIsCurrent
<1> QED  BY <1>3, <1>4

LEMMA StopKeeps ==
    ASSUME TypeOK, NEW r \in Run, Stop(r), NEW t \in Thread
    PROVE  Keeps(t)
<1>1. log[t] \in Seq(Message)  BY DEF TypeOK
<1>2. CASE log'[t] = log[t]  BY <1>1, <1>2, PrefixOfSelf DEF Keeps
<1>3. CASE log'[t] = Repaired(log[t]) /\ log'[t] # log[t]
  <2>1. log'[t] = Append(log[t], ToolFor(log[t][Len(log[t])])) /\ log[t] # <<>>
    BY <1>3 DEF Repaired, LastKind
  <2>2. log[t][Len(log[t])] \in Message  BY <1>1, <2>1
  <2> QED  BY <1>1, <2>1, <2>2, ToolForType, PrefixOfAppend DEF Keeps
<1> QED  BY <1>2, <1>3 DEF Stop, TypeOK

LEMMA NextKeeps ==
    ASSUME IInv, SyncRun = {}, [Next]_vars, NEW t \in Thread
    PROVE  Keeps(t)
<1> USE DEF IInv, graph
<1>0. log[t] \in Seq(Message)  BY DEF TypeOK
<1>1. ASSUME log' = log PROVE Keeps(t)  BY <1>0, <1>1, PrefixOfSelf DEF Keeps
<1>2. ASSUME NEW r \in Run,
             \/ NewChat(r) \/ OldChat(r) \/ NotFound(r) \/ Unreachable(r) \/ Register(r)
             \/ Conflict(r) \/ KeepAll(r) \/ Pass(r) \/ Account(r) \/ StopUnrepaired(r)
             \/ Done(r) \/ NoAnswer(r) \/ Title(r) \/ TitleLost(r) \/ Index(r)
             \/ IndexLost(r) \/ Report(r) \/ Leave(r) \/ Cleanup(r) \/ CleanupLost(r)
             \/ SyncDone(r)
             \/ Cancel(r) \/ Disconnect(r) \/ Fail(r)
      PROVE  log' = log
  BY <1>2 DEF NewChat, OldChat, NotFound, Unreachable, Register, Conflict, KeepAll, Pass,
      Account, StopUnrepaired, Done, NoAnswer, Title, TitleLost, Index, IndexLost, Report,
      Leave, Cleanup, CleanupLost, SyncDone, Cancel, Disconnect, Fail
<1>3. ASSUME NEW r \in Run, Input(r) PROVE Keeps(t)
  <2>1. thread[r] \in Thread  BY <1>3 DEF Input, HasThread
  <2>2. log[thread[r]] \in Seq(Message)  BY <2>1 DEF TypeOK
  <2> QED  BY <1>3, <2>1, <2>2, MsgType, AppendKeeps DEF Input
<1>4. ASSUME NEW r \in Run, Reply(r) \/ Refuse(r) \/ Tools(r) PROVE Keeps(t)
  <2>1. thread[r] \in Thread /\ pc[r] \in Running
    BY <1>4 DEF Reply, Refuse, Tools, HasThread, Running
  <2>2. log[thread[r]] \in {mem[r], <<>>}  BY <2>1 DEF CopyIsCurrent
  <2>3. mem[r] \in Seq(Message)  BY DEF TypeOK
  <2>4. \E m \in Message : Commit(r, Append(mem[r], m))
    <3>1. CASE Reply(r)   BY <3>1, MsgType DEF Reply
    <3>2. CASE Refuse(r)  BY <3>2, MsgType DEF Refuse
    <3>3. CASE Tools(r)
      <4>1. mem[r][Len(mem[r])] \in Message  BY <3>3, ToolsAfterCall
      <4> QED  BY <3>3, <4>1, ToolForType DEF Tools
    <3> QED  BY <1>4, <3>1, <3>2, <3>3
  <2> QED  BY <2>1, <2>2, <2>3, <2>4, AppendKeeps
<1>5. ASSUME NEW r \in Run, Summarize(r) PROVE Keeps(t)  BY <1>5, SummarizeKeeps
<1>6. ASSUME NEW r \in Run, Stop(r) PROVE Keeps(t)       BY <1>6, StopKeeps
<1>7. ASSUME NEW u \in Thread, DeleteLog(u) \/ DeleteRow(u) \/ DeleteIndex(u)
      PROVE  Keeps(t)
  <2>1. CASE DeleteLog(u) /\ u = t   BY <2>1 DEF Keeps
  <2>2. CASE DeleteLog(u) /\ u # t
    <3>1. log'[t] = log[t]  BY <2>2 DEF DeleteLog, TypeOK
    <3> QED  BY <1>0, <3>1, PrefixOfSelf DEF Keeps
  <2>3. CASE DeleteRow(u) \/ DeleteIndex(u)
    BY <1>1, <2>3 DEF DeleteRow, DeleteIndex
  <2> QED  BY <1>7, <2>1, <2>2, <2>3
<1>8. Crash \/ UNCHANGED vars => log' = log  BY DEF Crash, vars
<1> QED
  BY <1>1, <1>2, <1>3, <1>4, <1>5, <1>6, <1>7, <1>8 DEF Next, Step, Quiet

(* No message a run committed is ever overwritten: the claim of README.md  *)
(* "Concurrency control", as long as only SqlAgent writes to threads.      *)
THEOREM NothingLost == ASSUME SyncRun = {} PROVE Spec => NoLostTurn
<1>1. IInv /\ [Next]_vars => \A t \in Thread : Keeps(t)  BY NextKeeps
<1>2. IInv /\ [Next]_vars => [\A t \in Thread : Keeps(t)]_vars  BY <1>1
<1> QED  BY <1>2, Invariant, PTL DEF Spec, NoLostTurn, Keeps

----------------------------------------------------------------------------
(* The conversation *)

Turns == INSTANCE ConversationProofs WITH
    Turn <- Run, Number <- 0..MaxCalls, Reliable <- "error" \notin Faults

Outcome(S) == S \cap {"done", "cancelled"}

(* Nobody speaks on a thread, or one run does. *)
LEMMA Nobody ==
    ASSUME NEW t \in Thread, Speakers(t) = {}
    PROVE  speaker[t] = None /\ words[t] = log[t] /\ erased[t] = FALSE
BY DEF speaker, words, erased, OneOf

LEMMA Somebody ==
    ASSUME NEW t \in Thread, NEW r \in Run, Speakers(t) = {r}
    PROVE  speaker[t] = r /\ words[t] = mem[r] /\ erased[t] = (log[t] = <<>>)
<1>1. speaker[t] = r  BY DEF speaker, OneOf
<1>2. r # None  BY ConstantsAreSane
<1> QED  BY <1>1, <1>2 DEF words, erased

LEMMA NobodyNext ==
    ASSUME NEW t \in Thread, Speakers(t)' = {}
    PROVE  speaker'[t] = None /\ words'[t] = log'[t] /\ erased'[t] = FALSE
BY DEF speaker, words, erased, OneOf

LEMMA SomebodyNext ==
    ASSUME NEW t \in Thread, NEW r \in Run, Speakers(t)' = {r}
    PROVE  speaker'[t] = r /\ words'[t] = mem'[r] /\ erased'[t] = (log'[t] = <<>>)
<1>1. speaker'[t] = r  BY DEF speaker, OneOf
<1>2. r # None  BY ConstantsAreSane
<1> QED  BY <1>1, <1>2 DEF words, erased

(* The registry keeps speakers apart. *)
LEMMA OneSpeaker ==
    ASSUME IInv, SyncRun = {}, NEW t \in Thread
    PROVE  Speakers(t) = {} \/ \E r \in Run : Speakers(t) = {r}
<1> SUFFICES ASSUME NEW r \in Speakers(t) PROVE Speakers(t) = {r}
  BY DEF Speakers
<1>1. ASSUME NEW q \in Speakers(t) PROVE q = r
  <2>1. q \in Run /\ r \in Run /\ thread[q] = thread[r] /\ pc[q] \in InGraph /\ pc[r] \in InGraph
    BY DEF Speakers
  <2> QED  BY <2>1, StreamsApart DEF IInv
<1> QED  BY <1>1

LEMMA ShapesNow ==
    /\ words = [t \in Thread |-> words[t]] /\ speaker = [t \in Thread |-> speaker[t]]
    /\ erased = [t \in Thread |-> erased[t]]
    /\ words' = [t \in Thread |-> words'[t]] /\ speaker' = [t \in Thread |-> speaker'[t]]
    /\ erased' = [t \in Thread |-> erased'[t]]
BY DEF words, speaker, erased

(* Where the same run speaks of the same messages, all is as it was. *)
LEMMA ThreadKept ==
    ASSUME IInv, SyncRun = {}, NEW t \in Thread, log'[t] = log[t],
           \A q \in Run : /\ q \in Speakers(t)' <=> q \in Speakers(t)
                          /\ q \in Speakers(t) => mem'[q] = mem[q]
    PROVE  words'[t] = words[t] /\ speaker'[t] = speaker[t] /\ erased'[t] = erased[t]
<1>1. Speakers(t)' = Speakers(t)  BY DEF Speakers
<1>2. CASE Speakers(t) = {}
  BY <1>1, <1>2, Nobody, NobodyNext
<1>3. ASSUME NEW r \in Run, Speakers(t) = {r}
      PROVE  words'[t] = words[t] /\ speaker'[t] = speaker[t] /\ erased'[t] = erased[t]
  BY <1>1, <1>3, Somebody, SomebodyNext
<1> QED  BY <1>2, <1>3, OneSpeaker

(* A step of a run is about its thread alone. *)
LEMMA OtherThreads ==
    ASSUME IInv, SyncRun = {}, NEW r \in Run, RunStep(r), pc[r] # "start",
           NEW t \in Thread, t # thread[r], log'[t] = log[t]
    PROVE  words'[t] = words[t] /\ speaker'[t] = speaker[t] /\ erased'[t] = erased[t]
<1>1. ASSUME NEW q \in Run
      PROVE  /\ q \in Speakers(t)' <=> q \in Speakers(t)
             /\ q \in Speakers(t) => mem'[q] = mem[q]
  <2>1. CASE q = r
    <3>1. thread'[r] = thread[r]  BY StepFrame DEF IInv
    <3> QED  BY <2>1, <3>1 DEF Speakers
  <2>2. CASE q # r
    <3>1. pc'[q] = pc[q] /\ mem'[q] = mem[q] /\ thread'[q] = thread[q]
      BY <2>2, StepFrame DEF IInv
    <3> QED  BY <3>1 DEF Speakers
  <2> QED  BY <2>1, <2>2
<1> QED  BY <1>1, ThreadKept

LEMMA OnlyIts ==
    ASSUME IInv, SyncRun = {}, NEW r \in Run, RunStep(r), pc[r] # "start",
           thread[r] \in Thread, \A t \in Thread \ {thread[r]} : log'[t] = log[t]
    PROVE  /\ words' = [words EXCEPT ![thread[r]] = words'[thread[r]]]
           /\ speaker' = [speaker EXCEPT ![thread[r]] = speaker'[thread[r]]]
           /\ erased' = [erased EXCEPT ![thread[r]] = erased'[thread[r]]]
<1>1. \A t \in Thread \ {thread[r]} :
        words'[t] = words[t] /\ speaker'[t] = speaker[t] /\ erased'[t] = erased[t]
  BY OtherThreads
<1>2. words' = [words EXCEPT ![thread[r]] = words'[thread[r]]]  BY <1>1, ShapesNow
<1>3. speaker' = [speaker EXCEPT ![thread[r]] = speaker'[thread[r]]]  BY <1>1, ShapesNow
<1>4. erased' = [erased EXCEPT ![thread[r]] = erased'[thread[r]]]  BY <1>1, ShapesNow
<1> QED  BY <1>2, <1>3, <1>4

(* Who is in its graph speaks. *)
LEMMA InGraphSpeaks ==
    ASSUME IInv, SyncRun = {}, NEW r \in Run, pc[r] \in InGraph
    PROVE  /\ thread[r] \in Thread /\ Speakers(thread[r]) = {r}
           /\ speaker[thread[r]] = r /\ words[thread[r]] = mem[r]
           /\ erased[thread[r]] = (log[thread[r]] = <<>>)
           /\ speaker[thread[r]] # None
<1>1. thread[r] \in Thread
  BY DEF IInv, HasThread, InGraph, Running, Boundary
<1>2. Speakers(thread[r]) = {r}
  <2>1. r \in Speakers(thread[r])  BY DEF Speakers
  <2> QED  BY <1>1, <2>1, OneSpeaker
<1>3. r # None  BY ConstantsAreSane
<1> QED  BY <1>1, <1>2, <1>3, Somebody

(* A run that goes on in its graph and commits. *)
LEMMA Stays ==
    ASSUME IInv, SyncRun = {}, NEW r \in Run, RunStep(r), pc[r] \in InGraph, pc'[r] \in InGraph,
           NEW x, x # <<>>, Commit(r, x)
    PROVE  /\ words' = [words EXCEPT ![thread[r]] = x]
           /\ speaker' = speaker /\ erased' = [erased EXCEPT ![thread[r]] = FALSE]
<1>1. thread[r] \in Thread /\ pc[r] # "start" /\ Speakers(thread[r]) = {r}
      /\ speaker[thread[r]] = r
  BY InGraphSpeaks DEF InGraph, Running, Boundary
<1>2. thread'[r] = thread[r]  BY <1>1, StepFrame DEF IInv
<1>3. mem'[r] = x /\ log'[thread[r]] = x /\ \A t \in Thread \ {thread[r]} : log'[t] = log[t]
  BY <1>1 DEF IInv, TypeOK, Commit
<1>4. Speakers(thread[r])' = {r}
  <2>1. ASSUME NEW q \in Run, q # r PROVE thread'[q] # thread'[r] \/ pc'[q] \notin InGraph
    <3>1. pc'[q] = pc[q] /\ thread'[q] = thread[q]  BY <2>1, StepFrame DEF IInv
    <3>2. q \notin Speakers(thread[r])  BY <1>1, <2>1
    <3> QED  BY <1>2, <3>1, <3>2 DEF Speakers
  <2> QED  BY <1>2, <2>1 DEF Speakers
<1>5. words'[thread[r]] = x /\ speaker'[thread[r]] = r /\ erased'[thread[r]] = FALSE
  <2> DEFINE t == thread[r]
  <2>1. thread'[r] = t /\ t \in Thread  BY <1>1, <1>2
  <2> QED  BY <1>1, <1>2, <1>3, <1>4, SomebodyNext
<1>6. speaker' = [speaker EXCEPT ![thread[r]] = speaker[thread[r]]]
  BY <1>1, <1>3, <1>5, OnlyIts
<1> QED  BY <1>1, <1>3, <1>5, <1>6, OnlyIts, ShapesNow

(* A run that leaves its graph leaves the checkpoint, which is its copy    *)
(* unless the chat was deleted meanwhile, and was told nothing yet.        *)
LEMMA Leaves ==
    ASSUME IInv, SyncRun = {}, NEW r \in Run, RunStep(r), pc[r] \in InGraph, pc'[r] \notin InGraph,
           NEW x, log' = [log EXCEPT ![thread[r]] = x],
           NEW o, told'[r] = o
    PROVE  /\ words' = [words EXCEPT ![thread[r]] = x]
           /\ speaker' = [speaker EXCEPT ![thread[r]] = None]
           /\ erased' = [erased EXCEPT ![thread[r]] = FALSE]
           /\ verdict' = [verdict EXCEPT ![r] = Outcome(o)]
           /\ Chats!Left(thread[r]) = log[thread[r]]
<1>1. thread[r] \in Thread /\ pc[r] # "start" /\ Speakers(thread[r]) = {r}
      /\ speaker[thread[r]] = r /\ words[thread[r]] = mem[r]
      /\ erased[thread[r]] = (log[thread[r]] = <<>>)
  BY InGraphSpeaks DEF InGraph, Running, Boundary
<1>2. log'[thread[r]] = x /\ \A t \in Thread \ {thread[r]} : log'[t] = log[t]
  BY <1>1 DEF IInv, TypeOK
<1>3. Speakers(thread[r])' = {}
  <2>1. ASSUME NEW q \in Run PROVE thread'[q] # thread'[r] \/ pc'[q] \notin InGraph
    <3>1. CASE q # r
      <4>1. pc'[q] = pc[q] /\ thread'[q] = thread[q]  BY <3>1, StepFrame DEF IInv
      <4>2. q \notin Speakers(thread[r])  BY <1>1, <3>1
      <4>3. thread'[r] = thread[r]  BY <1>1, StepFrame DEF IInv
      <4> QED  BY <4>1, <4>2, <4>3 DEF Speakers
    <3> QED  BY <3>1
  <2> QED  BY <2>1 DEF Speakers
<1>4. words'[thread[r]] = x /\ speaker'[thread[r]] = None /\ erased'[thread[r]] = FALSE
  <2>1. thread'[r] = thread[r]  BY <1>1, StepFrame DEF IInv
  <2> QED  BY <1>1, <1>2, <1>3, <2>1, NobodyNext
<1>5. verdict' = [verdict EXCEPT ![r] = Outcome(o)]
  <2>1. \A q \in Run \ {r} : told'[q] = told[q]  BY StepFrame DEF IInv
  <2> QED  BY <2>1 DEF verdict, Outcome
<1>6. Chats!Left(thread[r]) = log[thread[r]]
  <2>1. log[thread[r]] \in {mem[r], <<>>}  BY DEF IInv, CopyIsCurrent, InGraph
  <2> QED  BY <1>1, <2>1 DEF Chats!Left
<1> QED  BY <1>1, <1>2, <1>4, <1>5, <1>6, OnlyIts

(* Input: nobody else speaks on the thread of a run that holds it. *)
LEMMA Enters ==
    ASSUME IInv, SyncRun = {}, NEW r \in Run, Input(r)
    PROVE  LET m == Msg("human", r)
           IN  /\ thread[r] \in Thread /\ speaker[thread[r]] = None
               /\ words[thread[r]] = log[thread[r]]
               /\ words' = [words EXCEPT ![thread[r]] = Append(log[thread[r]], m)]
               /\ speaker' = [speaker EXCEPT ![thread[r]] = r]
               /\ erased' = erased
<1> DEFINE m == Msg("human", r)
           x == Append(log[thread[r]], m)
<1>1. pc[r] = "started" /\ thread[r] \in Thread /\ pc[r] \notin InGraph /\ pc'[r] \in InGraph
  BY DEF Input, IInv, HasThread, TypeOK, InGraph, Running, Boundary, Goto
<1>2. Speakers(thread[r]) = {}
  <2>1. ASSUME NEW q \in Run, pc[q] \in InGraph PROVE thread[q] # thread[r]
    <3>1. inflight[r] = thread[r] /\ inflight[q] = thread[q] /\ q # r
      BY <1>1, <2>1 DEF IInv, HoldsThread, InStream, InGraph, Running, Boundary, Yielded
    <3>2. inflight[r] # None  BY <1>1, <3>1, ConstantsAreSane
    <3> QED  BY <3>1, <3>2 DEF IInv, HoldsThread, Registry!Exclusive
  <2> QED  BY <2>1 DEF Speakers
<1>3. speaker[thread[r]] = None /\ words[thread[r]] = log[thread[r]] /\ erased[thread[r]] = FALSE
  BY <1>1, <1>2, Nobody
<1>4. RunStep(r)  BY DEF RunStep, Step
<1>5. mem'[r] = x /\ log'[thread[r]] = x /\ \A t \in Thread \ {thread[r]} : log'[t] = log[t]
  BY <1>1 DEF Input, IInv, TypeOK, Commit
<1>6. x # <<>>
  <2>1. log[thread[r]] \in Seq(Message)  BY <1>1 DEF IInv, TypeOK
  <2>2. LastIs(x, m)  BY <2>1, LastOfAppend
  <2> QED  BY <2>2 DEF LastIs
<1> HIDE DEF x, m
<1>7. thread'[r] = thread[r]  BY <1>1, <1>4, StepFrame DEF IInv
<1>8. Speakers(thread[r])' = {r}
  <2>1. ASSUME NEW q \in Run, q # r PROVE thread'[q] # thread'[r] \/ pc'[q] \notin InGraph
    <3>1. pc'[q] = pc[q] /\ thread'[q] = thread[q]  BY <1>4, <2>1, StepFrame DEF IInv
    <3>2. q \notin Speakers(thread[r])  BY <1>2
    <3> QED  BY <1>7, <3>1, <3>2 DEF Speakers
  <2> QED  BY <1>1, <1>7, <2>1 DEF Speakers
<1>9. words'[thread[r]] = x /\ speaker'[thread[r]] = r /\ erased'[thread[r]] = FALSE
  BY <1>1, <1>5, <1>6, <1>7, <1>8, SomebodyNext
<1>10. erased' = [erased EXCEPT ![thread[r]] = erased[thread[r]]]
  BY <1>1, <1>3, <1>4, <1>5, <1>9, OnlyIts
<1>11. erased' = erased  BY <1>10, ShapesNow
<1> QED  BY <1>1, <1>3, <1>4, <1>5, <1>9, <1>11, OnlyIts DEF x, m

(* A step nobody hears of. *)
Unheard ==
    /\ log' = log
    /\ \A q \in Run : /\ pc'[q] \in InGraph <=> pc[q] \in InGraph
                      /\ pc[q] \in InGraph => mem'[q] = mem[q] /\ thread'[q] = thread[q]
                      /\ Outcome(told'[q]) = Outcome(told[q])

LEMMA Silence ==
    ASSUME IInv, SyncRun = {}, Unheard
    PROVE  UNCHANGED Chats!vars
<1>1. ASSUME NEW t \in Thread
      PROVE  words'[t] = words[t] /\ speaker'[t] = speaker[t] /\ erased'[t] = erased[t]
  BY ThreadKept DEF Unheard, Speakers
<1>2. words' = words /\ speaker' = speaker /\ erased' = erased  BY <1>1, ShapesNow
<1>3. verdict' = verdict  BY DEF Unheard, verdict, Outcome
<1> QED  BY <1>2, <1>3 DEF Chats!vars

(* The speaker's words are its copy, and it said the last of them. *)
LEMMA LastWord ==
    ASSUME IInv, SyncRun = {}, NEW r \in Run, pc[r] \in InGraph
    PROVE  /\ words[thread[r]] = mem[r] /\ mem[r] \in Seq(Message) /\ mem[r] # <<>>
           /\ mem[r][Len(mem[r])] \in Message /\ mem[r][Len(mem[r])].by = r
           /\ mem[r][Len(mem[r])].kind \in Said(pc[r])
           /\ \A k : Chats!EndsWith(mem[r], k) <=> mem[r][Len(mem[r])].kind = k
<1>1. words[thread[r]] = mem[r]  BY InGraphSpeaks
<1>2. mem[r] \in Seq(Message)  BY DEF IInv, TypeOK
<1>3. mem[r] # <<>> /\ mem[r][Len(mem[r])].by = r /\ mem[r][Len(mem[r])].kind \in Said(pc[r])
  BY DEF IInv, LastIsOwn, LastKind
<1>4. mem[r][Len(mem[r])] \in Message  BY <1>2, <1>3
<1>5. \A k : Chats!EndsWith(mem[r], k) <=> mem[r][Len(mem[r])].kind = k
  BY <1>3 DEF Chats!EndsWith
<1> QED  BY <1>1, <1>2, <1>3, <1>4, <1>5

(* Input asks. *)
LEMMA InputAsks ==
    ASSUME IInv, SyncRun = {}, NEW r \in Run, Input(r)
    PROVE  thread[r] \in Thread /\ Chats!Ask(r, thread[r])
<1>1. /\ thread[r] \in Thread /\ speaker[thread[r]] = None
      /\ words[thread[r]] = log[thread[r]]
      /\ words' = [words EXCEPT ![thread[r]] = Append(log[thread[r]], Msg("human", r))]
      /\ speaker' = [speaker EXCEPT ![thread[r]] = r]
      /\ erased' = erased
  BY Enters
<1>2. pc[r] = "started" /\ told' = told  BY DEF Input, locals
<1>3. verdict[r] = {} /\ verdict' = verdict
  BY <1>2 DEF IInv, NothingTold, BeforeOutcome, verdict
<1>4. ASSUME NEW t \in Thread, NEW i \in DOMAIN words[t] PROVE words[t][i].by # r
  <2>1. CASE Speakers(t) = {}
    <3>1. words[t] = log[t]  BY <2>1, Nobody
    <3> QED  BY <1>2, <3>1 DEF IInv, MessagesPlaced, OnlyOn
  <2>2. ASSUME NEW q \in Run, Speakers(t) = {q} PROVE words[t][i].by # r
    <3>1. words[t] = mem[q] /\ pc[q] \in InGraph  BY <2>2, Somebody DEF Speakers
    <3> QED  BY <1>2, <3>1 DEF IInv, MessagesPlaced, OnlyOn
  <2> QED  BY <2>1, <2>2, OneSpeaker
<1>5. Append(words[thread[r]], Msg("human", r)) = Append(log[thread[r]], Msg("human", r))
  BY <1>1
<1>6. calls[r] \in 0..MaxCalls  BY DEF IInv, TypeOK
<1>7. \E n \in 0..MaxCalls : words' = [words EXCEPT ![thread[r]] =
         Append(@, [kind |-> "human", by |-> r, n |-> n])]
  BY <1>1, <1>6 DEF Msg
<1> QED  BY <1>1, <1>3, <1>4, <1>7 DEF Chats!Ask

(* Replies, refusals and results are said. *)
LEMMA Saying ==
    ASSUME IInv, SyncRun = {}, NEW r \in Run, RunStep(r), pc[r] \in InGraph, pc'[r] \in InGraph,
           NEW k \in {"call", "tool", "answer", "empty"}, NEW n \in 0..MaxCalls,
           Commit(r, Append(mem[r], [kind |-> k, by |-> r, n |-> n])), told' = told,
           Chats!MaySay(mem[r], [kind |-> k, by |-> r, n |-> n])
    PROVE  thread[r] \in Thread /\ Chats!Say(thread[r])
<1> DEFINE m == [kind |-> k, by |-> r, n |-> n]
           x == Append(mem[r], m)
<1>1. /\ thread[r] \in Thread /\ speaker[thread[r]] = r /\ words[thread[r]] = mem[r]
      /\ speaker[thread[r]] # None
  BY InGraphSpeaks
<1>2. mem[r] \in Seq(Message)  BY LastWord
<1>3. x # <<>> /\ x # mem[r] /\ Commit(r, x) /\ Chats!MaySay(mem[r], m)
  <2>1. LastIs(x, m)  BY <1>2, LastOfAppend
  <2>2. Len(x) = Len(mem[r]) + 1  BY <1>2
  <2>3. Len(mem[r]) \in Nat  BY <1>2
  <2>4. x # mem[r]  BY <2>2, <2>3
  <2> QED  BY <2>1, <2>4 DEF LastIs
<1> HIDE DEF x
<1>4. /\ words' = [words EXCEPT ![thread[r]] = x]
      /\ speaker' = speaker /\ erased' = [erased EXCEPT ![thread[r]] = FALSE]
  BY <1>3, Stays
<1>5. verdict' = verdict  BY DEF verdict
<1>6. words'[thread[r]] # words[thread[r]]  BY <1>1, <1>3, <1>4 DEF words
<1>7. words' = [words EXCEPT ![thread[r]] = Append(@, [kind |-> k, by |-> speaker[thread[r]],
                                                       n |-> n])]
  BY <1>1, <1>4 DEF x
<1> QED  BY <1>1, <1>3, <1>4, <1>5, <1>6, <1>7 DEF Chats!Say

LEMMA ReplySays ==
    ASSUME IInv, SyncRun = {}, NEW r \in Run, Reply(r) \/ Refuse(r)
    PROVE  thread[r] \in Thread /\ Chats!Say(thread[r])
<1>1. RunStep(r) /\ pc[r] = "agent" /\ pc[r] \in InGraph /\ pc'[r] \in InGraph /\ told' = told
  BY DEF RunStep, Step, Reply, Refuse, IInv, TypeOK, Goto, InGraph, Running, Boundary, locals
<1>2. PICK k \in {"call", "answer", "empty"} : Commit(r, Append(mem[r], Msg(k, r)))
  BY DEF Reply, Refuse
<1>3. mem[r][Len(mem[r])].kind \in {"human", "tool"}  BY <1>1, LastWord DEF Said
<1>4. Chats!MaySay(mem[r], Msg(k, r))
  BY <1>1, <1>3, LastWord DEF Chats!MaySay, Msg
<1>5. calls[r] \in 0..MaxCalls  BY DEF IInv, TypeOK
<1> QED  BY <1>1, <1>2, <1>4, <1>5, Saying DEF Msg

LEMMA ToolsSay ==
    ASSUME IInv, SyncRun = {}, NEW r \in Run, Tools(r)
    PROVE  thread[r] \in Thread /\ Chats!Say(thread[r])
<1> DEFINE last == mem[r][Len(mem[r])]
<1>1. RunStep(r) /\ pc[r] = "tools" /\ pc[r] \in InGraph /\ pc'[r] \in InGraph /\ told' = told
  BY DEF RunStep, Step, Tools, IInv, TypeOK, Goto, InGraph, Running, Boundary, locals
<1>2. last \in Message /\ last.by = r /\ last.kind = "call"  BY <1>1, LastWord DEF Said
<1>3. ToolFor(last) = [kind |-> "tool", by |-> r, n |-> last.n] /\ last.n \in 0..MaxCalls
  BY <1>2 DEF ToolFor, Message
<1>4. Chats!ResultOf(last) = ToolFor(last)  BY DEF Chats!ResultOf, ToolFor
<1>5. Commit(r, Append(mem[r], ToolFor(last)))  BY DEF Tools
<1>6. Chats!MaySay(mem[r], ToolFor(last))
  BY <1>1, <1>2, <1>4, LastWord DEF Chats!MaySay
<1> HIDE DEF last
<1> QED  BY <1>1, <1>3, <1>5, <1>6, Saying

(* Summarize forgets. *)
LEMMA SummarizeForgets ==
    ASSUME IInv, SyncRun = {}, NEW r \in Run, Summarize(r)
    PROVE  thread[r] \in Thread /\ Chats!Forget(thread[r])
<1>1. RunStep(r) /\ pc[r] = "summarize" /\ pc[r] \in InGraph /\ pc'[r] \in InGraph /\ told' = told
  BY DEF RunStep, Step, Summarize, IInv, TypeOK, Goto, InGraph, Running, Boundary, locals
<1>2. PICK i \in DOMAIN mem[r] : /\ IsSafeCut(mem[r], i)
                                 /\ Commit(r, SubSeq(mem[r], i, Len(mem[r])))
  BY DEF Summarize
<1>3. /\ thread[r] \in Thread /\ words[thread[r]] = mem[r] /\ speaker[thread[r]] # None
  BY <1>1, InGraphSpeaks
<1>4. Chats!EndsWith(mem[r], "human")  BY <1>1, LastWord DEF Said
<1>5. SubSeq(mem[r], i, Len(mem[r])) # <<>>  BY <1>1, LastWord, LastOfTail
<1>6. /\ words' = [words EXCEPT ![thread[r]] = SubSeq(mem[r], i, Len(mem[r]))]
      /\ speaker' = speaker /\ erased' = [erased EXCEPT ![thread[r]] = FALSE]
  BY <1>1, <1>2, <1>5, Stays
<1>7. verdict' = verdict  BY <1>1 DEF verdict
<1>8. mem[r][i].kind = "human"  BY <1>2 DEF IsSafeCut
<1> QED  BY <1>3, <1>4, <1>6, <1>7, <1>8 DEF Chats!Forget

(* Done answers. *)
LEMMA DoneAnswers ==
    ASSUME IInv, SyncRun = {}, NEW r \in Run, Done(r)
    PROVE  thread[r] \in Thread /\ Chats!Answer(thread[r])
<1>1. /\ RunStep(r) /\ pc[r] = "final" /\ pc[r] \in InGraph /\ pc'[r] \notin InGraph
      /\ LastKind(log[thread[r]]) = "answer"
  BY DEF RunStep, Step, Done, IInv, TypeOK, Goto, InGraph, Running, Boundary
<1>2. /\ thread[r] \in Thread /\ words[thread[r]] = mem[r] /\ speaker[thread[r]] = r
      /\ speaker[thread[r]] # None /\ erased[thread[r]] = (log[thread[r]] = <<>>)
  BY <1>1, InGraphSpeaks
<1>3. log[thread[r]] # <<>> /\ log[thread[r]] = mem[r]
  <2>1. log[thread[r]] # <<>>  BY <1>1 DEF LastKind
  <2> QED  BY <1>1, <2>1 DEF IInv, CopyIsCurrent
<1>4. log' = [log EXCEPT ![thread[r]] = mem[r]]
  <2>1. log' = log  BY DEF Done
  <2> QED  BY <1>3, <2>1 DEF IInv, TypeOK
<1>5. told'[r] = {"done"}
  BY <1>1 DEF Done, IInv, TypeOK, NothingTold, BeforeOutcome
<1>6. /\ words' = [words EXCEPT ![thread[r]] = mem[r]]
      /\ speaker' = [speaker EXCEPT ![thread[r]] = None]
      /\ erased' = [erased EXCEPT ![thread[r]] = FALSE]
      /\ verdict' = [verdict EXCEPT ![r] = Outcome({"done"})]
  BY <1>1, <1>4, <1>5, Leaves
<1>7. Outcome({"done"}) = {"done"}  BY DEF Outcome
<1>8. Chats!End(thread[r], words[thread[r]], {"done"})
  BY <1>2, <1>6, <1>7 DEF Chats!End
<1>9. Chats!EndsWith(words[thread[r]], "answer")
      /\ words[thread[r]][Len(words[thread[r]])].by = speaker[thread[r]]
  <2>1. mem[r][Len(mem[r])].kind = "answer"  BY <1>1, <1>3 DEF LastKind
  <2> QED  BY <1>1, <1>2, <2>1, LastWord
<1>10. ~ erased[thread[r]]  BY <1>2, <1>3
<1> QED  BY <1>2, <1>8, <1>9, <1>10 DEF Chats!Answer

(* Whoever else leaves its graph ends its turn. *)
LEMMA Ending ==
    ASSUME IInv, SyncRun = {}, NEW r \in Run, RunStep(r), pc[r] \in InGraph, pc'[r] \notin InGraph,
           NEW x, log' = [log EXCEPT ![thread[r]] = x],
           NEW o, told'[r] = o
    PROVE  /\ thread[r] \in Thread /\ Chats!Left(thread[r]) = log[thread[r]]
           /\ Chats!End(thread[r], x, Outcome(o))
<1>1. /\ thread[r] \in Thread /\ speaker[thread[r]] = r /\ speaker[thread[r]] # None
  BY InGraphSpeaks
<1>2. /\ words' = [words EXCEPT ![thread[r]] = x]
      /\ speaker' = [speaker EXCEPT ![thread[r]] = None]
      /\ erased' = [erased EXCEPT ![thread[r]] = FALSE]
      /\ verdict' = [verdict EXCEPT ![r] = Outcome(o)]
      /\ Chats!Left(thread[r]) = log[thread[r]]
  BY Leaves
<1> QED  BY <1>1, <1>2 DEF Chats!End

LEMMA StopStops ==
    ASSUME IInv, SyncRun = {}, NEW r \in Run, Stop(r) \/ StopUnrepaired(r)
    PROVE  thread[r] \in Thread /\ Chats!Stop(thread[r])
<1>1. /\ RunStep(r) /\ pc[r] \in Running \cup Boundary /\ pc[r] \in InGraph
      /\ pc'[r] = "finally" /\ pc'[r] \notin InGraph
  BY DEF RunStep, Step, Stop, StopUnrepaired, IInv, TypeOK, Goto, InGraph, Running, Boundary
<1>2. told'[r] = {"cancelled"}
  <2>1. told[r] = {}  BY <1>1 DEF IInv, NothingTold, BeforeOutcome
  <2> QED  BY <2>1 DEF Stop, StopUnrepaired, IInv, TypeOK
<1>3. Outcome({"cancelled"}) = {"cancelled"}  BY DEF Outcome
<1>4. CASE Stop(r)
  <2>1. log' = [log EXCEPT ![thread[r]] = Repaired(log[thread[r]])]  BY <1>4 DEF Stop
  <2>2. /\ thread[r] \in Thread /\ Chats!Left(thread[r]) = log[thread[r]]
        /\ Chats!End(thread[r], Repaired(log[thread[r]]), Outcome({"cancelled"}))
    BY <1>1, <1>2, <2>1, Ending
  <2>3. Chats!Closed(log[thread[r]]) = Repaired(log[thread[r]])
    BY DEF Chats!Closed, Chats!EndsWith, Chats!ResultOf, Repaired, LastKind, ToolFor
  <2> QED  BY <1>3, <2>2, <2>3 DEF Chats!Stop
<1>5. CASE StopUnrepaired(r)
  <2>1. "error" \in Faults /\ log' = log  BY <1>5 DEF StopUnrepaired, graph
  <2>2. thread[r] \in Thread  BY <1>1, InGraphSpeaks
  <2>3. log' = [log EXCEPT ![thread[r]] = log[thread[r]]]  BY <2>1, <2>2 DEF IInv, TypeOK
  <2>4. /\ Chats!Left(thread[r]) = log[thread[r]]
        /\ Chats!End(thread[r], log[thread[r]], Outcome({"cancelled"}))
    BY <1>1, <1>2, <2>3, Ending
  <2> QED  BY <1>3, <2>1, <2>2, <2>4 DEF Chats!Stop
<1> QED  BY <1>4, <1>5

(* A step out of the graph that tells and commits nothing. *)
LEMMA Abandoning ==
    ASSUME IInv, SyncRun = {}, NEW r \in Run, RunStep(r), pc[r] \in InGraph, pc'[r] \notin InGraph,
           log' = log, told' = told
    PROVE  thread[r] \in Thread /\ Chats!Abandon(thread[r])
<1>1. thread[r] \in Thread  BY InGraphSpeaks
<1>2. log' = [log EXCEPT ![thread[r]] = log[thread[r]]]  BY <1>1 DEF IInv, TypeOK
<1>3. told'[r] = {} /\ Outcome({}) = {}
  BY DEF IInv, NothingTold, BeforeOutcome, InGraph, Outcome
<1>4. /\ Chats!Left(thread[r]) = log[thread[r]]
      /\ Chats!End(thread[r], log[thread[r]], Outcome({}))
  BY <1>2, <1>3, Ending
<1> QED  BY <1>1, <1>3, <1>4 DEF Chats!Abandon

(* Deleting a chat erases it, under the speaker if there is one. *)
LEMMA DeleteDeletes ==
    ASSUME IInv, SyncRun = {}, NEW t \in Thread, DeleteLog(t)
    PROVE  Chats!Delete(t)
<1>1. /\ log'[t] = <<>> /\ \A u \in Thread \ {t} : log'[u] = log[u]
      /\ mem' = mem /\ pc' = pc /\ thread' = thread /\ told' = told
  BY DEF DeleteLog, IInv, TypeOK, locals
<1>2. \A u \in Thread : Speakers(u)' = Speakers(u)  BY <1>1 DEF Speakers
<1>3. \A u \in Thread \ {t} :
        words'[u] = words[u] /\ speaker'[u] = speaker[u] /\ erased'[u] = erased[u]
  BY <1>1, <1>2, ThreadKept
<1>4. verdict' = verdict  BY <1>1 DEF verdict
<1>5. CASE Speakers(t) = {}
  <2>1. speaker[t] = None /\ speaker'[t] = None /\ words'[t] = <<>>
        /\ erased[t] = FALSE /\ erased'[t] = FALSE
    BY <1>1, <1>2, <1>5, Nobody, NobodyNext
  <2>2. words' = [words EXCEPT ![t] = <<>>]  BY <1>3, <2>1, ShapesNow
  <2>3. speaker' = speaker  BY <1>3, <2>1, ShapesNow
  <2>4. erased' = erased  BY <1>3, <2>1, ShapesNow
  <2> QED  BY <1>4, <2>1, <2>2, <2>3, <2>4 DEF Chats!Delete
<1>6. ASSUME NEW r \in Run, Speakers(t) = {r} PROVE Chats!Delete(t)
  <2>0. speaker[t] = r /\ words[t] = mem[r] /\ Speakers(t)' = {r}
    BY <1>2, <1>6, Somebody
  <2>1. speaker[t] = r /\ speaker'[t] = r /\ words'[t] = words[t] /\ erased'[t] = TRUE
    <3>1. speaker'[t] = r /\ words'[t] = mem'[r] /\ erased'[t] = (log'[t] = <<>>)
      BY <2>0, SomebodyNext
    <3>2. erased'[t] = TRUE  BY <1>1, <3>1
    <3> QED  BY <1>1, <2>0, <3>1, <3>2
  <2>2. words' = words  BY <1>3, <2>1, ShapesNow
  <2>3. speaker' = speaker  BY <1>3, <2>1, ShapesNow
  <2>4. erased' = [erased EXCEPT ![t] = TRUE]  BY <1>3, <2>1, ShapesNow
  <2> QED  BY <1>4, <2>1, <2>2, <2>3, <2>4, ConstantsAreSane DEF Chats!Delete
<1> QED  BY <1>5, <1>6, OneSpeaker

LEMMA CrashCrashes ==
    ASSUME IInv, SyncRun = {}, Crash
    PROVE  Chats!Crash
<1>1. \A t \in Thread : Speakers(t)' = {}
  BY DEF Crash, Speakers, InGraph, Running, Boundary
<1>2. log' = log /\ told' = told  BY DEF Crash, locals
<1>3. ASSUME NEW t \in Thread
      PROVE  words'[t] = Chats!Left(t) /\ speaker'[t] = None /\ erased'[t] = FALSE
  <2>1. words'[t] = log[t] /\ speaker'[t] = None /\ erased'[t] = FALSE
    BY <1>1, <1>2, NobodyNext
  <2>2. CASE Speakers(t) = {}
    BY <2>1, <2>2, Nobody DEF Chats!Left
  <2>3. ASSUME NEW r \in Run, Speakers(t) = {r} PROVE Chats!Left(t) = log[t]
    <3>1. words[t] = mem[r] /\ erased[t] = (log[t] = <<>>) /\ thread[r] = t /\ pc[r] \in InGraph
      BY <2>3, Somebody DEF Speakers
    <3>2. log[t] \in {mem[r], <<>>}  BY <3>1 DEF IInv, CopyIsCurrent, InGraph
    <3> QED  BY <3>1, <3>2 DEF Chats!Left
  <2> QED  BY <2>1, <2>2, <2>3, OneSpeaker
<1>4. words' = [t \in Thread |-> Chats!Left(t)]  BY <1>3, ShapesNow
<1>5. speaker' = [t \in Thread |-> None]  BY <1>3, ShapesNow
<1>6. erased' = [t \in Thread |-> FALSE]  BY <1>3, ShapesNow
<1>7. verdict' = verdict  BY <1>2 DEF verdict
<1> QED  BY <1>4, <1>5, <1>6, <1>7 DEF Chats!Crash

(* Every other step of a run that has begun its turn, or ended it. *)
LEMMA OtherSteps ==
    ASSUME IInv, SyncRun = {}, NEW r \in Run, RunStep(r),
           log' = log, mem' = mem, thread' = thread, told' = told
    PROVE  UNCHANGED Chats!vars \/ \E t \in Thread : Chats!Abandon(t)
<1>1. \A q \in Run \ {r} : pc'[q] = pc[q]  BY StepFrame DEF IInv
<1>2. CASE pc'[r] \in InGraph <=> pc[r] \in InGraph
  <2>1. Unheard  BY <1>1, <1>2 DEF Unheard
  <2> QED  BY <2>1, Silence
<1>3. CASE pc[r] \in InGraph /\ pc'[r] \notin InGraph
  BY <1>3, Abandoning
<1>4. CASE pc[r] \notin InGraph /\ pc'[r] \in InGraph
  <2>1. ~ Aside(r)  BY <1>4 DEF Aside
  <2>2. Input(r) \/ Summarize(r) \/ Reply(r) \/ Refuse(r) \/ Tools(r)
        \/ Stop(r) \/ Done(r) \/ Leave(r) \/ SyncDone(r)
    BY <2>1, StepCases DEF IInv
  <2>3. Input(r)
    BY <1>4, <2>2 DEF Summarize, Reply, Refuse, Tools, Stop, Done, Leave, SyncDone, InGraph,
       Running, Boundary, Goto, IInv, TypeOK
  <2>4. Commit(r, Append(log[thread[r]], Msg("human", r))) /\ thread[r] \in Thread
    BY <2>3 DEF Input, IInv, HasThread
  <2>5. log[thread[r]] \in Seq(Message)  BY <2>4 DEF IInv, TypeOK
  <2>6. log[thread[r]] = Append(log[thread[r]], Msg("human", r))
    BY <2>4 DEF Commit, IInv, TypeOK
  <2> QED  BY <2>5, <2>6
<1> QED  BY <1>2, <1>3, <1>4

(* The steps around a turn: its thread is chosen, it is refused, reports,  *)
(* or is over and forgets its copy.                                        *)
LEMMA AroundTurn ==
    ASSUME IInv, SyncRun = {}, NEW r \in Run,
           \/ NewChat(r) \/ OldChat(r) \/ NotFound(r) \/ Unreachable(r) \/ Conflict(r)
           \/ Report(r) \/ Leave(r) \/ SyncDone(r)
    PROVE  UNCHANGED Chats!vars
<1>1. RunStep(r)  BY DEF RunStep, Step
<1>2. r \notin SyncRun  OBVIOUS
<1>3. pc[r] \notin InGraph /\ pc'[r] \notin InGraph /\ log' = log
  BY <1>2 DEF NewChat, OldChat, NotFound, Unreachable, Conflict, Refused, Report, Leave, SyncDone,
     Goto, InGraph, Running, Boundary, IInv, TypeOK, graph
<1>4. \A q \in Run \ {r} : /\ pc'[q] = pc[q] /\ mem'[q] = mem[q] /\ thread'[q] = thread[q]
                           /\ told'[q] = told[q]
  BY <1>1, StepFrame DEF IInv
<1>5. Outcome(told'[r]) = Outcome(told[r])
  <2>1. CASE NewChat(r) \/ OldChat(r) \/ Leave(r) \/ SyncDone(r)
    BY <2>1 DEF NewChat, OldChat, Leave, SyncDone, locals
  <2>2. CASE NotFound(r) \/ Unreachable(r) \/ Conflict(r)
    <3>1. told[r] = {}
      BY <2>2 DEF NotFound, Unreachable, Conflict, IInv, NothingTold, BeforeOutcome
    <3>2. told'[r] = {"refused"}
      BY <2>2 DEF NotFound, Unreachable, Conflict, Refused, IInv, TypeOK
    <3> QED  BY <3>1, <3>2 DEF Outcome
  <2>3. CASE Report(r)
    <3>1. told'[r] = told[r] \cup {"error"}  BY <2>3 DEF Report, IInv, TypeOK
    <3> QED  BY <3>1 DEF Outcome
  <2> QED  BY <2>1, <2>2, <2>3
<1>6. Unheard  BY <1>3, <1>4, <1>5 DEF Unheard
<1> QED  BY <1>6, Silence

DeleteRows == \E t \in Thread : DeleteRow(t) \/ DeleteIndex(t)

LEMMA StepConverses ==
    ASSUME IInv, SyncRun = {}, [Next]_vars
    PROVE  [Chats!Next]_(Chats!vars)
<1>1. ASSUME NEW r \in Run, Input(r) PROVE Chats!Next
  BY <1>1, InputAsks DEF Chats!Next
<1>2. ASSUME NEW r \in Run, Reply(r) \/ Refuse(r) \/ Tools(r) PROVE Chats!Next
  BY <1>2, ReplySays, ToolsSay DEF Chats!Next
<1>3. ASSUME NEW r \in Run, Summarize(r) PROVE Chats!Next
  BY <1>3, SummarizeForgets DEF Chats!Next
<1>4. ASSUME NEW r \in Run, Done(r) PROVE Chats!Next
  BY <1>4, DoneAnswers DEF Chats!Next
<1>5. ASSUME NEW r \in Run, Stop(r) \/ StopUnrepaired(r) PROVE Chats!Next
  BY <1>5, StopStops DEF Chats!Next
<1>6. ASSUME NEW r \in Run,
             \/ NewChat(r) \/ OldChat(r) \/ NotFound(r) \/ Unreachable(r) \/ Conflict(r)
             \/ Report(r) \/ Leave(r) \/ SyncDone(r)
      PROVE  UNCHANGED Chats!vars
  BY <1>6, AroundTurn
<1>7. ASSUME NEW r \in Run,
             \/ Register(r) \/ KeepAll(r) \/ Pass(r) \/ Account(r) \/ NoAnswer(r) \/ Title(r)
             \/ TitleLost(r) \/ Index(r) \/ IndexLost(r) \/ Cleanup(r)
             \/ CleanupLost(r) \/ Cancel(r)
             \/ Disconnect(r) \/ Fail(r)
      PROVE  [Chats!Next]_(Chats!vars)
  <2>1. log' = log /\ mem' = mem /\ thread' = thread /\ told' = told
    BY <1>7 DEF Register, KeepAll, Pass, Account, NoAnswer, Title, TitleLost, Index, IndexLost,
       Cleanup, CleanupLost, Cancel, Disconnect, Fail, graph, locals
  <2>2. RunStep(r)  BY <1>7 DEF RunStep, Step
  <2> QED  BY <2>1, <2>2, OtherSteps DEF Chats!Next
<1>8. ASSUME NEW t \in Thread, DeleteLog(t) PROVE Chats!Next
  BY <1>8, DeleteDeletes DEF Chats!Next
<1>9. ASSUME DeleteRows \/ UNCHANGED vars PROVE UNCHANGED Chats!vars
  <2>1. log' = log /\ mem' = mem /\ thread' = thread /\ told' = told /\ pc' = pc
    BY <1>9 DEF DeleteRows, DeleteRow, DeleteIndex, vars, graph, locals
  <2>2. Unheard  BY <2>1 DEF Unheard
  <2> QED  BY <2>2, Silence
<1>10. CASE Crash
  BY <1>10, CrashCrashes DEF Chats!Next
<1>11. ASSUME NEW r \in Run, RunStep(r) PROVE [Chats!Next]_(Chats!vars)
  BY <1>1, <1>2, <1>3, <1>4, <1>5, <1>6, <1>7, <1>11 DEF RunStep, Step
<1>12. ASSUME NEW t \in Thread, DeleteLog(t) \/ DeleteRow(t) \/ DeleteIndex(t)
       PROVE  [Chats!Next]_(Chats!vars)
  BY <1>8, <1>9, <1>12 DEF DeleteRows
<1> QED  BY <1>9, <1>10, <1>11, <1>12 DEF Next, RunStep, Quiet

LEMMA InitConverses ==
    ASSUME Init
    PROVE  Chats!Init
<1>1. \A t \in Thread : Speakers(t) = {}
  BY DEF Init, Speakers, InGraph, Running, Boundary
<1>2. \A t \in Thread : speaker[t] = None /\ words[t] = <<>> /\ erased[t] = FALSE
  BY <1>1, Nobody DEF Init
<1>3. speaker = [t \in Thread |-> None]  BY <1>2, ShapesNow
<1>4. words = [t \in Thread |-> <<>>]  BY <1>2, ShapesNow
<1>5. erased = [t \in Thread |-> FALSE]  BY <1>2, ShapesNow
<1>6. verdict = [r \in Run |-> {}]  BY DEF Init, verdict
<1> QED  BY <1>3, <1>4, <1>5, <1>6 DEF Chats!Init

(* What a client, or the LLM, reads as the history of a thread behaves as  *)
(* the abstract conversation does, for any number of runs, threads and LLM *)
(* calls and under every fault: a question only when nobody is speaking,   *)
(* nothing from anyone else until the turn is answered, stopped, abandoned *)
(* or lost, "done" only for an answer of one's own.  The registry is what  *)
(* keeps speakers apart, so SQLQueryView, which does not ask it, is left   *)
(* out (sql_agent.py, post and stream_generator).                          *)
THEOREM ImplementsAConversation ==
  ASSUME SyncRun = {}
  PROVE  Spec => ImplementsConversation
<1>1. Init => Chats!Init
  BY InitConverses
<1>2. IInv /\ [Next]_vars => [Chats!Next]_(Chats!vars)
  BY StepConverses
<1>3. Spec => []IInv
  BY Invariant
<1> QED
  BY <1>1, <1>2, <1>3, PTL DEF Spec, ImplementsConversation, Chats!Spec

(* The checkpoint is what its speaker knows, or was deleted.               *)
LEMMA CheckpointIsWords ==
    ASSUME IInv, SyncRun = {}, NEW t \in Thread
    PROVE  log[t] \in {words[t], <<>>}
<1>1. CASE Speakers(t) = {}
  BY <1>1, Nobody
<1>2. ASSUME NEW r \in Run, Speakers(t) = {r} PROVE log[t] \in {words[t], <<>>}
  <2>1. words[t] = mem[r] /\ thread[r] = t /\ pc[r] \in InGraph
    BY <1>2, Somebody DEF Speakers
  <2> QED  BY <2>1 DEF IInv, CopyIsCurrent, InGraph
<1> QED  BY <1>1, <1>2, OneSpeaker

(* The theorems about conversations are about these. *)
LEMMA SameConversation == Chats!Next <=> Turns!Next
<1>1. ASSUME NEW t \in Thread
      PROVE  /\ \A r \in Run : Chats!Ask(r, t) <=> Turns!Ask(r, t)
             /\ Chats!Delete(t) <=> Turns!Delete(t)
             /\ Chats!Left(t) = Turns!Left(t)
             /\ \A s, o : Chats!End(t, s, o) <=> Turns!End(t, s, o)
  BY DEF Chats!Ask, Turns!Ask, Chats!Delete, Turns!Delete, Chats!Left, Turns!Left,
     Chats!End, Turns!End
<1>2. /\ \A s, k : Chats!EndsWith(s, k) <=> Turns!EndsWith(s, k)
      /\ \A m : Chats!ResultOf(m) = Turns!ResultOf(m)
  BY DEF Chats!EndsWith, Turns!EndsWith, Chats!ResultOf, Turns!ResultOf
<1>3. /\ \A s, m : Chats!MaySay(s, m) <=> Turns!MaySay(s, m)
      /\ \A s : Chats!Closed(s) = Turns!Closed(s)
  BY <1>2 DEF Chats!MaySay, Turns!MaySay, Chats!Closed, Turns!Closed
<1>4. ASSUME NEW t \in Thread
      PROVE  Chats!Say(t) <=> Turns!Say(t)
  BY <1>3 DEF Chats!Say, Turns!Say
<1>5. ASSUME NEW t \in Thread
      PROVE  Chats!Forget(t) <=> Turns!Forget(t)
  BY <1>2 DEF Chats!Forget, Turns!Forget
<1>6. ASSUME NEW t \in Thread
      PROVE  /\ Chats!Answer(t) <=> Turns!Answer(t)
             /\ Chats!Stop(t) <=> Turns!Stop(t)
             /\ Chats!Abandon(t) <=> Turns!Abandon(t)
  BY <1>1, <1>2, <1>3 DEF Chats!Answer, Turns!Answer, Chats!Stop, Turns!Stop,
     Chats!Abandon, Turns!Abandon
<1>7. Chats!Crash <=> Turns!Crash
  BY DEF Chats!Crash, Turns!Crash, Chats!Left, Turns!Left
<1> QED  BY <1>1, <1>4, <1>5, <1>6, <1>7 DEF Chats!Next, Turns!Next

(* Every checkpoint the next LLM call starts from is one turn after the    *)
(* other: no turn's messages are mixed with another's, and none is taken   *)
(* up again, whatever was summarized, cancelled, abandoned, deleted or     *)
(* lost with the process.  It is a property of conversations, and a thread *)
(* is one.                                                                 *)
THEOREM HistoriesStayWhole ==
  ASSUME SyncRun = {}
  PROVE  Spec => []HistoriesAreWhole
<1>1. Spec => []IInv
  BY Invariant
<1>2. Spec => Chats!Spec
  BY ImplementsAConversation DEF ImplementsConversation
<1>3. Turns!Spec => []Turns!IInv
  BY Turns!TurnsAreWhole, ConstantsAreSane
<1>4. Turns!IInv => \A t \in Thread : Chats!Whole(words[t])
  BY DEF Turns!IInv, Turns!WholeTurns, Turns!Whole, Turns!Follows, Turns!ResultOf,
     Chats!Whole, Chats!Follows, Chats!ResultOf
<1>5. IInv /\ Turns!IInv => HistoriesAreWhole
  <2>1. Chats!Whole(<<>>)  BY DEF Chats!Whole
  <2> QED  BY <1>4, <2>1, CheckpointIsWords DEF HistoriesAreWhole
<1>6. Chats!Init => Turns!Init
  BY DEF Chats!Init, Turns!Init
<1>7. [Chats!Next]_(Chats!vars) => [Turns!Next]_(Turns!vars)
  BY SameConversation DEF Chats!vars, Turns!vars
<1> QED
  BY <1>1, <1>2, <1>3, <1>5, <1>6, <1>7, PTL DEF Chats!Spec, Turns!Spec
=============================================================================
