------------------------------ MODULE SqlChat ------------------------------
(***************************************************************************)
(* A turn of the SQL agent, from the POST to the end of its SSE stream     *)
(* (core/sql_agent.py: SqlAgent.post, stream_generator and the graph), for *)
(* any number of runs on shared threads, together with what else writes to *)
(* a thread: the cancel endpoint, ChatDetailView.delete and SQLQueryView,  *)
(* which drives an agent on the same checkpoint.                           *)
(*                                                                         *)
(* LangGraph is external.  It is modelled as the view uses it: a generator *)
(* that loads the checkpoint once, runs one node per super-step on its own *)
(* copy of the messages, writes that copy back when the node ends, and     *)
(* then hands the view one event.  The view's loop body (the cancel check, *)
(* the rows it writes, its yields) is the step that consumes the event.    *)
(***************************************************************************)
EXTENDS Naturals, SequencesExt

CONSTANTS Thread,      \* thread ids
          Run,         \* requests; a run's id is also its request's
          SyncRun,     \* the requests made through SQLQueryView
          MaxCalls,    \* replies of a run's agent node: the graph's recursion limit
          KeepRecent,  \* _KEEP_RECENT_MESSAGES
          Faults,      \* what the environment may do
          None

FaultKinds == {"connect", "disconnect", "error", "recursion", "delete", "crash"}

ASSUME ConstantsAreSane ==
    /\ None \notin Run \cup Thread
    /\ SyncRun \subseteq Run
    /\ MaxCalls \in Nat \ {0} /\ KeepRecent \in Nat
    /\ Faults \subseteq FaultKinds

VARIABLES
    inflight, signalled,   \* the run registry, as RunLock has it
    chat,                  \* ChatSession rows: "none", "untitled" or "titled"
    log,                   \* the checkpoint of a thread: its messages
    usage,                 \* TokenUsage rows a run's loop wrote for agent replies
    index,                 \* the runs whose text is in the search index
    deleting,              \* ChatDetailView.delete: what it does next
    crashed,               \* the server process was restarted once
    pc, thread, isNew, produced, wasCancelled,   \* locals of stream_generator
    told,                  \* the outcomes a run's client has been told
    mem, calls             \* the graph's copy of the messages; its agent replies

registry == <<inflight, signalled>>
rows == <<chat, usage, index>>
graph == <<log, mem, calls>>
locals == <<thread, isNew, produced, wasCancelled, told>>
env == <<deleting, crashed>>
vars == <<registry, rows, graph, locals, env, pc>>

Registry == INSTANCE RunLock WITH Key <- Thread

Message == [kind : {"human", "call", "tool", "answer", "empty"},
            by : Run, n : 0..MaxCalls]

(* A generator waits at one of these: a node is running ... *)
Running == {"summarize", "agent", "tools"}
(* ... or the event that a node has ended is about to be consumed ... *)
Boundary == {"summarized", "recalled", "replied", "ran"}
(* ... or it is suspended at a yield, where a closed connection stops it. *)
Yielded == {"started", "agent", "tools", "title", "index"}
PC == {"start", "connect", "final", "error", "finally", "cleanup", "uncleaned", "closed"}
      \cup Running \cup Boundary \cup Yielded

TypeOK ==
    /\ Registry!TypeOK
    /\ chat \in [Thread -> {"none", "untitled", "titled"}]
    /\ log \in [Thread -> Seq(Message)]
    /\ usage \in [Run -> Nat]
    /\ index \in [Thread -> SUBSET Run]
    /\ deleting \in [Thread -> {"no", "row", "index"}]
    /\ crashed \in BOOLEAN
    /\ pc \in [Run -> PC]
    /\ thread \in [Run -> Thread \cup {None}]
    /\ isNew \in [Run -> BOOLEAN]
    /\ produced \in [Run -> BOOLEAN]
    /\ wasCancelled \in [Run -> BOOLEAN]
    /\ told \in [Run -> SUBSET {"refused", "done", "cancelled", "error"}]
    /\ mem \in [Run -> Seq(Message)]
    /\ calls \in [Run -> 0..MaxCalls]

Init ==
    /\ Registry!Init
    /\ chat = [t \in Thread |-> "none"]
    /\ log = [t \in Thread |-> <<>>]
    /\ usage = [r \in Run |-> 0]
    /\ index = [t \in Thread |-> {}]
    /\ deleting = [t \in Thread |-> "no"]
    /\ crashed = FALSE
    /\ pc = [r \in Run |-> "start"]
    /\ thread = [r \in Run |-> None]
    /\ isNew = [r \in Run |-> FALSE]
    /\ produced = [r \in Run |-> FALSE]
    /\ wasCancelled = [r \in Run |-> FALSE]
    /\ told = [r \in Run |-> {}]
    /\ mem = [r \in Run |-> <<>>]
    /\ calls = [r \in Run |-> 0]

----------------------------------------------------------------------------
(* Messages *)

Msg(k, r) == [kind |-> k, by |-> r, n |-> calls[r]]
ToolFor(m) == [m EXCEPT !.kind = "tool"]
LastKind(s) == IF s = <<>> THEN "none" ELSE s[Len(s)].kind

(* A graph step: the generator's copy grows and becomes the checkpoint. *)
Commit(r, s) ==
    /\ mem' = [mem EXCEPT ![r] = s]
    /\ log' = [log EXCEPT ![thread[r]] = s]

(* Mutant: cut at the budget, wherever that is. *)
IsBudgetCut(s, i) == i = Len(s) - KeepRecent + 1 /\ i > 1

(* _safe_cut_index, counted from 1: the first human message among the last *)
(* KeepRecent.  Everything before it is folded into the summary, unless it *)
(* is the first message of all (index 0 in the code: nothing to fold).     *)
IsSafeCut(s, i) ==
    /\ i > 1 /\ i > Len(s) - KeepRecent
    /\ s[i].kind = "human"
    /\ \A j \in DOMAIN s : j > Len(s) - KeepRecent /\ s[j].kind = "human" => i <= j

(* Mutant: no repair. *)
Unrepaired(s) == s

(* repair_orphan_tool_calls: stub the results of a dangling last call. *)
Repaired(s) == IF LastKind(s) = "call" THEN Append(s, ToolFor(s[Len(s)])) ELSE s

Goto(r, l) == pc' = [pc EXCEPT ![r] = l]

----------------------------------------------------------------------------
(* SqlAgent.post *)

(* A connection id and no thread id: the row is created before anything    *)
(* else can fail.  uuid4 never returns a thread id twice.                  *)
NewChat(r) ==
    /\ pc[r] = "start" /\ r \notin SyncRun
    /\ \E t \in Thread :
         /\ \A s \in Run : thread[s] # t
         /\ thread' = [thread EXCEPT ![r] = t]
         /\ chat' = [chat EXCEPT ![t] = "untitled"]
    /\ isNew' = [isNew EXCEPT ![r] = TRUE]
    /\ Goto(r, "connect")
    /\ UNCHANGED <<registry, usage, index, graph, produced, wasCancelled, told, env>>

Refused(r) == /\ told' = [told EXCEPT ![r] = {"refused"}]
              /\ Goto(r, "closed")

(* A thread id whose row exists.  SQLQueryView resolves the thread in the  *)
(* same way and goes straight on to its graph.                             *)
OldChat(r) ==
    /\ pc[r] = "start"
    /\ \E t \in Thread : chat[t] # "none" /\ thread' = [thread EXCEPT ![r] = t]
    /\ Goto(r, IF r \in SyncRun THEN "started" ELSE "connect")
    /\ UNCHANGED <<registry, rows, graph, isNew, produced, wasCancelled, told, env>>

(* A thread id without a row: 404. *)
NotFound(r) ==
    /\ pc[r] = "start" /\ \E t \in Thread : chat[t] = "none"
    /\ Refused(r)
    /\ UNCHANGED <<registry, rows, graph, thread, isNew, produced, wasCancelled, env>>

(* get_sql_database: 400 when the user's database cannot be reached. *)
Unreachable(r) ==
    /\ "connect" \in Faults /\ pc[r] = "connect"
    /\ Refused(r)
    /\ UNCHANGED <<registry, rows, graph, thread, isNew, produced, wasCancelled, env>>

(* Mutant: a run told to stop no longer blocks its thread. *)
RegisterOverSignalled(r) ==
    /\ pc[r] = "connect"
    /\ \A s \in Run : inflight[s] = thread[r] => s \in signalled
    /\ inflight' = [inflight EXCEPT ![r] = thread[r]]
    /\ Goto(r, "started")
    /\ UNCHANGED <<signalled, rows, graph, locals, env>>

(* register(), and the stream starts: it yields thread_created and         *)
(* run_started.                                                            *)
Register(r) ==
    /\ pc[r] = "connect"
    /\ Registry!Acquire(r, thread[r])
    /\ Goto(r, "started")
    /\ UNCHANGED <<rows, graph, locals, env>>

(* ConcurrentRunError: 409 while another run holds the thread. *)
Conflict(r) ==
    /\ pc[r] = "connect" /\ Registry!Held(thread[r])
    /\ Refused(r)
    /\ UNCHANGED <<registry, rows, graph, thread, isNew, produced, wasCancelled, env>>

----------------------------------------------------------------------------
(* Mutant: the turn starts without the thread's checkpoint. *)
InputAfresh(r) ==
    /\ pc[r] = "started"
    /\ Commit(r, <<Msg("human", r)>>)
    /\ Goto(r, IF r \in SyncRun THEN "agent" ELSE "summarize")
    /\ UNCHANGED <<registry, rows, calls, locals, env>>

(* sql_agent.stream(..): load the checkpoint, append the user's message. *)
Input(r) ==
    /\ pc[r] = "started"
    /\ Commit(r, Append(log[thread[r]], Msg("human", r)))
    /\ Goto(r, IF r \in SyncRun THEN "agent" ELSE "summarize")
    /\ UNCHANGED <<registry, rows, calls, locals, env>>

----------------------------------------------------------------------------
(* The graph's nodes *)

(* Over the token budget, and the summarizer answered: old turns go. *)
Summarize(r) ==
    /\ pc[r] = "summarize"
    /\ \E i \in DOMAIN mem[r] :
         IsSafeCut(mem[r], i) /\ Commit(r, SubSeq(mem[r], i, Len(mem[r])))
    /\ Goto(r, "summarized")
    /\ UNCHANGED <<registry, rows, calls, locals, env>>

(* Within it, or nothing to cut, or the summarizer failed.  A node that    *)
(* changes no message leaves the checkpoint's messages as they are.        *)
KeepAll(r) ==
    /\ pc[r] = "summarize"
    /\ Goto(r, "summarized")
    /\ UNCHANGED <<registry, rows, graph, locals, env>>

(* call_model: the LLM asks for tools, answers, or returns no text. *)
Reply(r) ==
    /\ pc[r] = "agent"
    /\ \E k \in {"call", "answer", "empty"} :
         /\ k = "call" => calls[r] + 1 < MaxCalls \/ "recursion" \in Faults
         /\ Commit(r, Append(mem[r], Msg(k, r)))
    /\ calls' = [calls EXCEPT ![r] = @ + 1]
    /\ Goto(r, "replied")
    /\ UNCHANGED <<registry, rows, locals, env>>

(* call_model with a guardrail tripped: a canned answer and no LLM call. *)
Refuse(r) ==
    /\ pc[r] = "agent" /\ calls[r] = 0 /\ r \notin SyncRun
    /\ Commit(r, Append(mem[r], Msg("answer", r)))
    /\ Goto(r, "replied")
    /\ UNCHANGED <<registry, rows, calls, locals, env>>

(* ToolNode: every call of the message is answered in one super-step. *)
Tools(r) ==
    /\ pc[r] = "tools"
    /\ Commit(r, Append(mem[r], ToolFor(mem[r][Len(mem[r])])))
    /\ Goto(r, "ran")
    /\ UNCHANGED <<registry, rows, calls, locals, env>>

----------------------------------------------------------------------------
(* The body of the view's loop, once per event *)

(* The event of a node that neither replies nor ends the graph; the next   *)
(* node starts.  recall reads the memory store and touches no message, so  *)
(* it is over when its event comes.                                        *)
Pass(r) ==
    /\ pc[r] \in {"summarized", "recalled", "ran"} /\ r \notin signalled
    /\ Goto(r, IF pc[r] = "summarized" THEN "recalled" ELSE "agent")
    /\ UNCHANGED <<registry, rows, graph, locals, env>>

(* Mutant: no recursion limit. *)
AccountUnbounded(r) ==
    /\ pc[r] = "replied" /\ r \notin signalled
    /\ usage' = [usage EXCEPT ![r] = @ + 1]
    /\ Goto(r, IF LastKind(mem[r]) # "call" THEN "final" ELSE "tools")
    /\ UNCHANGED <<registry, chat, index, graph, locals, env>>

(* The agent's event: one TokenUsage row per message that carries usage    *)
(* metadata, then should_continue.  Past the recursion limit the graph     *)
(* raises instead of running the tools.  This is the only place that       *)
(* writes rows: the calls of the summarizer, of the title and of the       *)
(* memory extraction get none, so calls and usage are the agent node's.    *)
Account(r) ==
    /\ pc[r] = "replied" /\ r \notin signalled
    /\ usage' = IF r \in SyncRun \/ calls[r] = 0 THEN usage
                ELSE [usage EXCEPT ![r] = @ + 1]
    /\ Goto(r, IF LastKind(mem[r]) # "call" THEN "final"
               ELSE IF calls[r] < MaxCalls THEN "tools" ELSE "error")
    /\ UNCHANGED <<registry, chat, index, graph, locals, env>>

(* Mutant: "break" without the "return" that skips the final section. *)
StopAndFinish(r) ==
    /\ r \in signalled /\ pc[r] \in Running \cup Boundary
    /\ log' = [log EXCEPT ![thread[r]] = Repaired(@)]
    /\ wasCancelled' = [wasCancelled EXCEPT ![r] = TRUE]
    /\ told' = [told EXCEPT ![r] = @ \cup {"cancelled"}]
    /\ Goto(r, IF r \in SyncRun THEN "finally" ELSE "final")
    /\ UNCHANGED <<registry, rows, mem, calls, thread, isNew, produced, env>>

(* handle.cancel_event.is_set(): drop the event, repair, yield cancelled. *)
Stop(r) ==
    /\ r \in signalled /\ pc[r] \in Running \cup Boundary
    /\ log' = [log EXCEPT ![thread[r]] = Repaired(@)]
    /\ wasCancelled' = [wasCancelled EXCEPT ![r] = TRUE]
    /\ told' = [told EXCEPT ![r] = @ \cup {"cancelled"}]
    /\ Goto(r, "finally")
    /\ UNCHANGED <<registry, rows, mem, calls, thread, isNew, produced, env>>

(* The same when the repair fails: that is logged and swallowed. *)
StopUnrepaired(r) ==
    /\ "error" \in Faults
    /\ r \in signalled /\ pc[r] \in Running \cup Boundary
    /\ wasCancelled' = [wasCancelled EXCEPT ![r] = TRUE]
    /\ told' = [told EXCEPT ![r] = @ \cup {"cancelled"}]
    /\ Goto(r, "finally")
    /\ UNCHANGED <<registry, rows, graph, thread, isNew, produced, env>>

----------------------------------------------------------------------------
(* After the loop *)

(* get_state; done when the last message is an AIMessage with text.  The   *)
(* snapshot replaces the generator's copy: it is what will be indexed.     *)
Done(r) ==
    /\ pc[r] = "final" /\ r \notin SyncRun
    /\ LastKind(log[thread[r]]) = "answer"
    /\ mem' = [mem EXCEPT ![r] = log[thread[r]]]
    /\ produced' = [produced EXCEPT ![r] = TRUE]
    /\ told' = [told EXCEPT ![r] = @ \cup {"done"}]
    /\ Goto(r, IF isNew[r] THEN "title" ELSE "index")
    /\ UNCHANGED <<registry, rows, log, calls, thread, isNew, wasCancelled, env>>

(* No text, or no messages: the stream ends without done or error. *)
NoAnswer(r) ==
    /\ pc[r] = "final" /\ r \notin SyncRun
    /\ LastKind(log[thread[r]]) # "answer"
    /\ Goto(r, "finally")
    /\ UNCHANGED <<registry, rows, graph, locals, env>>

(* The title falls back to "New Chat" when the title model fails. *)
Title(r) ==
    /\ pc[r] = "title" /\ chat[thread[r]] # "none"
    /\ \E name \in {"untitled", "titled"} : chat' = [chat EXCEPT ![thread[r]] = name]
    /\ Goto(r, "index")
    /\ UNCHANGED <<registry, usage, index, graph, locals, env>>

(* chat.save(update_fields=["title"]) raises when the row is gone. *)
TitleLost(r) ==
    /\ pc[r] = "title" /\ chat[thread[r]] = "none"
    /\ Goto(r, "error")
    /\ UNCHANGED <<registry, rows, graph, locals, env>>

(* reindex_thread on the snapshot, then memory extraction, which touches   *)
(* no thread.                                                              *)
Index(r) ==
    /\ pc[r] = "index"
    /\ index' = [index EXCEPT ![thread[r]] = {mem[r][i].by : i \in DOMAIN mem[r]}]
    /\ Goto(r, "finally")
    /\ UNCHANGED <<registry, chat, usage, graph, locals, env>>

(* Both are best effort: a failure is logged and swallowed. *)
IndexLost(r) ==
    /\ "error" \in Faults /\ pc[r] = "index"
    /\ Goto(r, "finally")
    /\ UNCHANGED <<registry, rows, graph, locals, env>>

(* Mutant: the error handler returns without the finally block. *)
ReportAndClose(r) ==
    /\ pc[r] = "error"
    /\ told' = [told EXCEPT ![r] = @ \cup {"error"}]
    /\ Goto(r, "closed")
    /\ UNCHANGED <<registry, rows, graph, thread, isNew, produced, wasCancelled, env>>

(* except Exception: yield the classified error. *)
Report(r) ==
    /\ pc[r] = "error"
    /\ told' = [told EXCEPT ![r] = @ \cup {"error"}]
    /\ Goto(r, IF r \in SyncRun THEN "closed" ELSE "finally")
    /\ UNCHANGED <<registry, rows, graph, thread, isNew, produced, wasCancelled, env>>

(* Mutant: the cleanup is in the error handler, not in finally. *)
LeaveAfterError(r) ==
    /\ pc[r] = "finally"
    /\ Registry!Release(r)
    /\ Goto(r, IF isNew[r] /\ "error" \in told[r] THEN "cleanup" ELSE "closed")
    /\ mem' = [mem EXCEPT ![r] = <<>>]
    /\ UNCHANGED <<rows, log, calls, locals, env>>

(* finally: the run leaves the registry first ... *)
Leave(r) ==
    /\ pc[r] = "finally"
    /\ Registry!Release(r)
    /\ Goto(r, IF isNew[r] /\ ~ produced[r] /\ ~ wasCancelled[r]
                 THEN "cleanup" ELSE "closed")
    /\ mem' = [mem EXCEPT ![r] = <<>>]
    /\ UNCHANGED <<rows, log, calls, locals, env>>

(* ... and then drops the ChatSession of a first turn without an answer.   *)
Cleanup(r) ==
    /\ pc[r] = "cleanup"
    /\ chat' = [chat EXCEPT ![thread[r]] = "none"]
    /\ Goto(r, "closed")
    /\ UNCHANGED <<registry, usage, index, graph, locals, env>>

(* When that raises, it is logged and swallowed: the row stays. *)
CleanupLost(r) ==
    /\ "error" \in Faults /\ pc[r] = "cleanup"
    /\ Goto(r, "uncleaned")
    /\ UNCHANGED <<registry, rows, graph, locals, env>>

(* SQLQueryView returns the collected events. *)
SyncDone(r) ==
    /\ pc[r] = "final" /\ r \in SyncRun
    /\ Goto(r, "closed")
    /\ mem' = [mem EXCEPT ![r] = <<>>]
    /\ UNCHANGED <<registry, rows, log, calls, locals, env>>

----------------------------------------------------------------------------
(* The environment *)

(* RunCancelView; RunRegistry has its two lookups. *)
Cancel(r) ==
    /\ r \notin signalled
    /\ Registry!Signal(r)
    /\ UNCHANGED <<rows, graph, locals, env, pc>>

(* The client goes away: GeneratorExit at the yield skips "except". *)
Disconnect(r) ==
    /\ "disconnect" \in Faults /\ pc[r] \in Yielded /\ r \notin SyncRun
    /\ Goto(r, "finally")
    /\ UNCHANGED <<registry, rows, graph, locals, env>>

(* The LLM, a tool, the checkpointer or the ORM raises. *)
Fail(r) ==
    /\ "error" \in Faults
    /\ pc[r] \in {"started", "final", "title"} \cup Running \cup Boundary
    /\ Goto(r, "error")
    /\ UNCHANGED <<registry, rows, graph, locals, env>>

(* ChatDetailView.delete: checkpoint, row, index rows.  It asks nobody     *)
(* whether a run is in flight.                                             *)
DeleteLog(t) ==
    /\ "delete" \in Faults /\ deleting[t] = "no" /\ chat[t] # "none"
    /\ log' = [log EXCEPT ![t] = <<>>]
    /\ deleting' = [deleting EXCEPT ![t] = "row"]
    /\ UNCHANGED <<registry, rows, mem, calls, locals, crashed, pc>>

DeleteRow(t) ==
    /\ deleting[t] = "row"
    /\ chat' = [chat EXCEPT ![t] = "none"]
    /\ deleting' = [deleting EXCEPT ![t] = "index"]
    /\ UNCHANGED <<registry, usage, index, graph, locals, crashed, pc>>

DeleteIndex(t) ==
    /\ deleting[t] = "index"
    /\ index' = [index EXCEPT ![t] = {}]
    /\ deleting' = [deleting EXCEPT ![t] = "no"]
    /\ UNCHANGED <<registry, chat, usage, graph, locals, crashed, pc>>

(* The process is killed: rows and checkpoints stay as they are. *)
Crash ==
    /\ "crash" \in Faults /\ ~ crashed
    /\ crashed' = TRUE
    /\ Registry!Wipe
    /\ pc' = [r \in Run |-> IF pc[r] = "start" THEN "start" ELSE "closed"]
    /\ deleting' = [t \in Thread |-> "no"]
    /\ mem' = [r \in Run |-> <<>>]
    /\ UNCHANGED <<rows, log, calls, locals>>

Quiet ==
    /\ \A r \in Run : pc[r] \in {"closed", "uncleaned"}
    /\ UNCHANGED vars

----------------------------------------------------------------------------

Step(r) ==
    \/ Unreachable(r) \/ Register(r) \/ Conflict(r) \/ Input(r)
    \/ Summarize(r) \/ KeepAll(r) \/ Reply(r) \/ Refuse(r) \/ Tools(r)
    \/ Pass(r) \/ Account(r) \/ Stop(r) \/ StopUnrepaired(r)
    \/ Done(r) \/ NoAnswer(r) \/ Title(r) \/ TitleLost(r) \/ Index(r) \/ IndexLost(r)
    \/ Report(r) \/ Leave(r) \/ Cleanup(r) \/ CleanupLost(r)
    \/ SyncDone(r)

Next ==
    \/ \E r \in Run : NewChat(r) \/ OldChat(r) \/ NotFound(r) \/ Step(r)
                      \/ Cancel(r) \/ Disconnect(r) \/ Fail(r)
    \/ \E t \in Thread : DeleteLog(t) \/ DeleteRow(t) \/ DeleteIndex(t)
    \/ Crash
    \/ Quiet

Spec == Init /\ [][Next]_vars

(* A request being served is executed to its end: WSGI pulls the generator *)
(* until it stops, and every LLM call and database call has a timeout.     *)
FairSpec == Spec /\ \A r \in Run : WF_vars(Step(r))

----------------------------------------------------------------------------
(* What holds *)

(* A tool result follows its call in every checkpoint, whatever is cut,    *)
(* stubbed, abandoned or lost: _safe_cut_index "always a turn boundary",   *)
(* repair_orphan_tool_calls.                                               *)
ResultsFollow(s) ==
    \A i \in DOMAIN s : s[i].kind = "tool" =>
        i > 1 /\ s[i - 1].kind = "call" /\ s[i] = ToolFor(s[i - 1])
NoDanglingResult == \A t \in Thread : ResultsFollow(log[t])

(* While a run is in flight, the messages it works on are the messages of  *)
(* the checkpoint, however long its LLM call takes: nobody else committed  *)
(* to its thread (the 409 of post()).  A delete of the chat empties the    *)
(* checkpoint under it.                                                    *)
CopyIsCurrent ==
    \A r \in Run : pc[r] \in Running \cup Boundary \cup {"final"} =>
        log[thread[r]] \in {mem[r], <<>>}

(* Nothing a run committed is overwritten by another: messages leave a     *)
(* checkpoint only from its front, by summarize, or with the whole thread. *)
NoLostTurn ==
    [][\A t \in Thread :
         \/ IsPrefix(log[t], log'[t])
         \/ DeleteLog(t)
         \/ \E r \in Run, i \in DOMAIN log[t] :
               /\ thread[r] = t /\ Summarize(r)
               /\ log'[t] = SubSeq(log[t], i, Len(log[t]))]_vars

(* The text of the done event answers the question of the run that sends   *)
(* it, although it is read back from the shared checkpoint (get_state).    *)
AnswerIsOwn ==
    [][\A r \in Run : "done" \in told'[r] \ told[r] =>
         Last(log[thread[r]]).by = r]_vars

(* cancelled "is the hard confirmation that the run has actually stopped"  *)
(* (run_views.py): no other outcome follows it, and the chat is kept.      *)
CancelledIsFinal ==
    \A r \in Run : "cancelled" \in told[r] =>
        told[r] = {"cancelled"} /\ ~ produced[r]

(* Every history sent to the LLM is valid as far as the code can see to    *)
(* it: the tool calls of a turn that was answered, or that was cancelled   *)
(* between agent and tools, have their results, and so have the run's own  *)
(* (stream_generator's repair before "cancelled").                         *)
AnsweredAt(s, i) == s[i].kind = "call" => i < Len(s) /\ s[i + 1] = ToolFor(s[i])
FinishedTurnsAnswered ==
    \A r \in Run : pc[r] = "agent" =>
        \A i \in DOMAIN mem[r] :
            LET s == mem[r][i].by
            IN  s = r \/ told[s] \cap {"done", "cancelled"} # {} => AnsweredAt(mem[r], i)

(* A first turn that failed leaves no row in the sidebar, however it ended *)
(* and whoever used the thread meanwhile (the finally block), unless the   *)
(* delete itself raised, which the stream swallows ("uncleaned").          *)
FailedChatDropped ==
    \A r \in Run : /\ pc[r] = "closed" /\ isNew[r] /\ "refused" \notin told[r]
                   /\ ~ produced[r] /\ ~ wasCancelled[r]
                   => chat[thread[r]] = "none"

(* No thread stays locked: a registered run is always unregistered. *)
EveryRunLeaves == \A r \in Run : inflight[r] # None ~> inflight[r] = None

----------------------------------------------------------------------------
(* The inductive invariant behind the safety properties, part by part *)

InStream == Running \cup Boundary \cup Yielded \cup {"final", "error", "finally"}
BeforeOutcome == Running \cup Boundary \cup {"start", "connect", "started", "final"}

(* Past post() a run has a thread. *)
HasThread == \A r \in Run : pc[r] \notin {"start", "closed"} => thread[r] \in Thread

(* From register() to unregister() a stream holds its thread, and no two   *)
(* streams hold one.                                                       *)
HoldsThread ==
    /\ Registry!Exclusive
    /\ \A r \in Run \ SyncRun : pc[r] \in InStream => inflight[r] = thread[r]

(* A reply is left for whoever may still make one.                         *)
CallLeft ==
    \A r \in Run : pc[r] \in {"start", "connect", "started", "summarize", "summarized",
                             "recalled", "agent", "tools", "ran"} => calls[r] < MaxCalls

(* The last message of a copy is the run's own, and of the kind after      *)
(* which its next step comes.                                              *)
InGraph == Running \cup Boundary \cup {"final"}
Said(l) ==
    CASE l \in {"summarize", "summarized", "recalled"} -> {"human"}
      [] l = "agent"   -> {"human", "tool"}
      [] l = "replied" -> {"call", "answer", "empty"}
      [] l = "tools"   -> {"call"}
      [] l = "ran"     -> {"tool"}
      [] OTHER         -> {"answer", "empty"}
LastIsOwn ==
    \A r \in Run : pc[r] \in InGraph =>
        /\ mem[r] # <<>> /\ mem[r][Len(mem[r])].by = r
        /\ LastKind(mem[r]) \in Said(pc[r])

(* A client is told nothing before the stream's outcome is decided ... *)
NothingTold ==
    \A r \in Run : pc[r] \in BeforeOutcome => told[r] = {} /\ ~ produced[r]

(* ... and after cancelled nothing but the finally block is left. *)
CancelEnds ==
    /\ CancelledIsFinal
    /\ \A r \in Run : "cancelled" \in told[r] =>
         wasCancelled[r] /\ pc[r] \in {"finally", "closed"}

(* A streaming turn has a TokenUsage row per reply of its agent node, but  *)
(* for the reply whose event is still to come; a stop at that event loses  *)
(* its row.                                                                *)
Accounted ==
    /\ \A r \in Run : "done" \in told[r] => usage[r] = calls[r]
    /\ \A r \in Run \ SyncRun :
         /\ pc[r] \in BeforeOutcome \ {"replied"} => usage[r] = calls[r]
         /\ pc[r] = "replied" => usage[r] = IF calls[r] = 0 THEN 0 ELSE calls[r] - 1
    /\ \A r \in SyncRun : "done" \notin told[r]

(* A first turn is a stream's and has its thread.  A process that dies     *)
(* runs no finally block.                                                  *)
FirstTurns ==
    /\ \A r \in Run : isNew[r] =>
         r \notin SyncRun /\ pc[r] # "start" /\ thread[r] \in Thread
    /\ ~ crashed => FailedChatDropped

(* The copies are as well formed as the checkpoints they become.           *)
ResultsPaired == NoDanglingResult /\ \A r \in Run : ResultsFollow(mem[r])

(* The messages of a run are on its own thread, and there only since its   *)
(* Input.                                                                  *)
OnlyOn(t, s) ==
    \A i \in DOMAIN s : /\ thread[s[i].by] = t
                        /\ pc[s[i].by] \notin {"start", "connect", "started"}
MessagesPlaced ==
    /\ \A t \in Thread : OnlyOn(t, log[t])
    /\ \A r \in Run : pc[r] \in InGraph => OnlyOn(thread[r], mem[r])
    /\ \A r \in Run : pc[r] = "start" => thread[r] = None

(* In its own copy a run leaves only the call it is about to run open ...  *)
OwnCallsAnswered ==
    \A r \in Run : pc[r] \in InGraph => \A i \in DOMAIN mem[r] :
        mem[r][i].by = r =>
            AnsweredAt(mem[r], i) \/ (pc[r] \in {"replied", "tools"} /\ i = Len(mem[r]))

(* ... and once its outcome is announced none is open anywhere: no         *)
(* checkpoint and no copy still has one.  The repair before "cancelled" is *)
(* best effort, so this needs the checkpointer to work.                    *)
AnsweredBy(r, s) == \A i \in DOMAIN s : s[i].by = r => AnsweredAt(s, i)
Settled(r) == "done" \in told[r] \/ ("cancelled" \in told[r] /\ "error" \notin Faults)
SettledAnswered ==
    \A s \in Run : Settled(s) =>
        /\ \A t \in Thread : AnsweredBy(s, log[t])
        /\ \A r \in Run : pc[r] \in InGraph => AnsweredBy(s, mem[r])

IInv == /\ TypeOK /\ HasThread /\ HoldsThread /\ CallLeft /\ LastIsOwn
        /\ NothingTold /\ CancelEnds /\ Accounted /\ FirstTurns
        /\ ResultsPaired /\ MessagesPlaced /\ OwnCallsAnswered
        /\ SyncRun = {} => CopyIsCurrent /\ SettledAnswered

----------------------------------------------------------------------------
(* The conversation a thread is, as long as only SqlAgent writes to it     *)

(* Who is in its graph speaks (nobody else can be, as long as the registry *)
(* keeps runs apart), and knows the thread by its copy.                    *)
Speakers(t) == {r \in Run : thread[r] = t /\ pc[r] \in InGraph}
OneOf(S) == IF S = {} THEN None ELSE CHOOSE r \in S : TRUE
speaker == [t \in Thread |-> OneOf(Speakers(t))]
words == [t \in Thread |-> IF speaker[t] = None THEN log[t] ELSE mem[speaker[t]]]
erased == [t \in Thread |-> speaker[t] # None /\ log[t] = <<>>]
verdict == [r \in Run |-> told[r] \cap {"done", "cancelled"}]

Chats == INSTANCE Conversation WITH
    Turn <- Run, Number <- 0..MaxCalls, Reliable <- "error" \notin Faults

(* Every step of SqlChat is one of a conversation, or none.                *)
ImplementsConversation == Chats!Spec

(* The next LLM call of a thread gets a history that is one turn after the *)
(* other, whatever became of the turns.                                    *)
HistoriesAreWhole == \A t \in Thread : Chats!Whole(log[t])

----------------------------------------------------------------------------
(* What the documentation says and the code does not keep *)

(* errors.py:115 answers RECURSION_LIMIT with "Please rephrase your        *)
(* question": the next turn of the thread has a history the LLM accepts.   *)
HistoryAnswered ==
    \A r \in Run : pc[r] = "agent" => \A i \in DOMAIN mem[r] : AnsweredAt(mem[r], i)

(* sql_agent.py:1023, cleanup drops an "empty ChatSession" of a chat in    *)
(* which "the agent never produced a real response".                       *)
AnsweredChatKept ==
    \A r \in Run : "done" \in told[r] => chat[thread[r]] # "none"
=============================================================================
