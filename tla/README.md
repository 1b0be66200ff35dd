# A verification of agent-sql-schema

TLA+ models, TLC runs and TLAPS proofs for the server in `src/`: a Django
application in which two LLM agents, one that queries a user's database and one
that designs schemas, stream their turns over SSE and keep their state in
LangGraph checkpoints and in Django rows at the same time.

The program is small and mostly sequential, but what it promises is not: a turn is
a generator that lives for minutes, suspended at every yield and waiting for LLM
calls, while other requests on the same thread start, cancel, edit and delete.
Almost no test reaches that (`core/tests` covers the error classifier and the
health check), and it is what the models are about.

## Inventory

One gunicorn process with four threads serves everything (`docker-entrypoint.sh`,
`render.yaml`); a request is one thread from the view to the last item of its
response. State lives in three places: the process (the run registry), Postgres
rows (Django models), and LangGraph's checkpoint tables in the same database.

| Part | State | Operations | Who it meets | What makes it correct |
|---|---|---|---|---|
| Run registry `services/run_registry.py` | `_RUNS`, `_BY_THREAD`, a cancel event per run, one lock | `register`, `unregister`, `cancel`, `get`, `repair_orphan_tool_calls` | both agents, cancel endpoint | at most one run per (user, agent, thread); index and table agree; nobody else's cleanup evicts a run |
| Cancel endpoint `run_views.py` | none | `POST runs/<id>/cancel/` | registry, and through it a stream | only the owner signals a run, and only one in flight |
| SQL agent `sql_agent.py` | `ChatSession`, checkpoint (messages, summary), `TokenUsage`, `Result`, search rows; locals of the generator | `post`, the graph summarize, recall, agent, tools, the stream loop, `finally` | registry, checkpointer, memory, search, user database | no turn overwrites another; the answer sent is the run's own; histories stay valid; every stream unregisters |
| SQL query endpoint `sql_views.py`, `services/sql_graph.py` | the same checkpoint, `Result` | a synchronous turn | the SQL agent's threads, without the registry | as above |
| Schema agent `schema_agent_hybrid.py`, `services/schema_graph_hybrid.py` | checkpoint (messages, schema, sql, seed), `SchemaProject` | `post`, the graph route, gen_schema, gen_sql, respond, persist, `finally` | registry, project page | what a turn showed is what the project becomes; SQL belongs to its schema |
| Project page `schema_views.py`, `serializers.py`, `tasks.py` | `SchemaProject` | PATCH, dialect variants, delete | schema agent | the "manually edited" badge and the variants fit the SQL they stand beside |
| Agentic schema agent `schema_agent.py`, `services/schema_graph.py` (not routed) | the same, and the locals of the generator | `post`, an LLM with four tools, the stream loop, persist, `finally` | no registry | a turn replaces what it showed and nothing else |
| Chat library `views.py` | `ChatSession`, checkpoints, search rows | list, history, PATCH, delete, bulk delete of what is not starred | turns in flight | a delete leaves nothing behind, a star keeps its chat |
| Search index `services/search_index.py` | `ConversationMessage` | `reindex_thread`, the command, search | turns, deletes | rows of a thread are its turns, once each |
| Long-term memory `services/memory.py` | one store per user | recall, extract with deduplication, CRUD | end of every turn, memory page | no secrets, no topic twice from one turn |
| Connections `services/connection.py` | `Connection`, SQLite files | create, import a file, refresh and merge options, toggle tables, samples | agents open them | one row per DSN, merged options keep what the user disabled |
| Results and charts | `Result` with `linked_id` | store, edit SQL, refresh chart, export | SQL agent writes them | the chain chart, run result, SQL resolves |
| History formatter, validators, error classifier | none | pure functions | read what the agents wrote | a reference definition each |
| Accounts, e-mail | the user's row, refresh tokens, mailed links | sign up, verify, reset, profile, log in, renew, log out | every request is authenticated by them | a reset ends the sessions before it |
| Health, admin, settings | none | configuration | – | – |
| Demo and legacy modules | none of the above | `AiChatView`, `streaming.py`, `*_old.py`, `ltm_*.py` | – | not part of the product |

What is hard here: two turns on one thread, and the windows before `register()` and
after `unregister()`; cancelling between two nodes; a client that goes away (the
generator is closed at a yield and skips `except`); an exception, the recursion
limit or a restart in the middle of a turn; deletes that ask no run; whole-row
`save()` of objects read long before; and what is in the checkpoint but not in the
row, or the other way round. `PROJECT.json` lists these hazards line by line, with
the properties that cover them.

## Modules

| Module | Models | Notes |
|---|---|---|
| `RunLock` | what the registry promises: a lock per key, a signal per run | abstract; also INSTANCEd by the agent modules as their registry |
| `RunRegistry` | `run_registry.py` statement by statement under `_LOCK`, and `RunCancelView` | `ImplementsRunLock` refines `RunLock` with `inflight <- Runs` |
| `RunRegistryProofs` | theorems about `RunRegistry` | |
| `Conversation` | what the SQL agent promises whoever reads a thread: one turn after the other | abstract, knows no registry, checkpoint or copies |
| `ConversationProofs` | its histories are whole | used for `SqlChat` through INSTANCE |
| `SqlChat` | a turn of the SQL agent with everything that writes to a thread | composes `RunLock`; `ImplementsConversation` refines `Conversation` |
| `SqlChatProofs` | theorems about `SqlChat`, the refinement among them | |
| `SchemaStudio`, `SchemaStudioProofs` | a schema project: agent turns, page requests, delete | composes `RunLock` |
| `AgenticSchema` | the schema agent with tools | the project is read by `post()` and saved at the end |
| `ChatLibrary`, `ChatLibraryProofs` | rows, histories and search index of all chats and projects of a user, and the requests on them | three stores without a common transaction |
| `ConnectionCatalog` | `services/connection.py`, `connection_views.py` | options, imports, what an agent is offered |
| `MemoryStore` | `services/memory.py`, `memory_views.py` | search and put are two steps |
| `ResultLinks`, `ResultLinksProofs` | the `Result` rows of both SQL endpoints and the requests on them | the tools' context and the stream loop side by side |
| `Accounts` | one account: row, links, sessions | |
| `HistoryFormat` | the three readers of a message list, and the cut of a compaction | pure |
| `SchemaChecks` | the validators, and `validation_issues` over the turns of a thread | pure, and a small machine |
| `ErrorClasses` | `classify_error` | pure |
| `WorkspaceProofs` | theorems about `ConnectionCatalog`, `MemoryStore`, `AgenticSchema`, the nodes of `SchemaChecks`, and `Accounts` | |
| `PureProofs` | theorems about `HistoryFormat` and the validators of `SchemaChecks` | what folds over lists of any length return |
| `MCWorkspace` | an instance of each of these nine, one at a time | `part` says which |
| `MC...` | constants and symmetry for TLC | |

Because `RunRegistry` implements `RunLock` (checked and proved), the agent modules
use `Acquire`, `Release` and `Signal` as single steps and do not repeat the
critical sections.

### How code and model correspond

*RunRegistry.* A worker is a request thread; `pc` names the statement it is at.
`_RUNS` maps a run to its handle, here the key of the handle, and the cancel events
are the set `signalled`. Each critical section is split at every dictionary
access, so that the lock, and not the grain of the model, is what keeps threads
apart. `get` and `cancel` are two critical sections of one request.

*SqlChat.* A run is a request. `log[t]` is the message list in the checkpoint of a thread; a
message is its kind (human, call, tool, answer, empty), the run that caused it and a number.
`mem[r]` is the copy the graph of a run works on: LangGraph loads the checkpoint once and
each node writes the copy back (`Commit`). The number of tool calls in one message is
abstracted to one, because all of them are answered, or stubbed, together. The view's loop
body is executed per event: `Pass`, `Account` and `Stop` are that body for the three things
it can do. `Done` to `Index` is the section after the loop, `Leave`, `Cleanup` and
`CleanupLost` the `finally` block, with `unregister()` before the delete as in the code; a
delete that raises is logged and leaves the row (`"uncleaned"`). `calls` and `usage` are the
replies of the agent node and the `TokenUsage` rows of the loop for them. The summarizer,
the title and the memory extraction call an LLM too and write no row, although
`models.py:158` has "One row per LLM round-trip": a disagreement that no run shows, because
the model counts the agent node only. `Disconnect` is possible only where the generator is
suspended at a yield; `Fail` only where something can raise. A cancel is seen when the next
event is consumed. `SyncRun` are requests to SQLQueryView, which use the checkpoint and not
the registry.

*Conversation.* The same turns without the machinery: who is speaking on a thread, the
messages as the speaker knows them, whether they were deleted under it, and how a turn has
ended for its client. `SqlChat` maps to it by state functions of the same names: the speaker
of a thread is the run in its graph, its words are that run's copy of the messages, and
between turns they are the checkpoint. `Input` is `Ask`, the nodes are `Say` and `Forget`,
the section after the loop is `Answer`, the cancel check is `Stop`, every other way out of
the graph is `Abandon`, and all else is not heard of.

*SchemaStudio.* The artifacts are kept apart from messages. A schema and a primary key are
named after the run that made them, SQL and seed data each after its author and the schema
it was made from. `cp` is the checkpoint, `row` the project, `inst[r]` the project as
`post()` read it, `schemaArt`, `sqlArt` and `seedArt` what the stream has shown, `final`
what the section after the loop reads back. Each of the three falls back by itself, first
from the checkpoint to what was shown and then (`Saved`) to the project, so that old seed
data may stand beside new SQL: the generator may return an empty text for either.
`PersistRead` and `PersistWrite` are the get and the save of `persist_schema_project`, with
a possible LLM call for the title in between. A page request reads the row and later saves
the object: `Save` inserts a deleted row again and raises when the slug is taken, as Django
does; `save_variant` saves one column and raises when the row is gone.

*AgenticSchema.* An artifact is named after the turn and the round that made it. `project`
is the row, `gloc[r].project` the object that `post()` read. `GAgent` and the two tools
are the graph together with the loop body that consumes their events; `GPersistGet`
and `GPersistSave` are the get and the save of `persist_schema_project`. `apart` is a
history variable: the turns that have met no other so far.

*ChatLibrary.* `row`, `hist` and `index` are the three stores, `ready` the index rows
whose vector has been filled in. A turn is here only what others can meet of it:
the new row, the write of the checkpoint, the read of what is indexed, title,
reindexing and cleanup. `ReindexBegin` and `ReindexCommit` are the DELETE and the
commit of one transaction under READ COMMITTED: it removes the rows it could see.
A search reads as many titles of a kind as `TitleLimit` says and as many index rows as
`ContentLimit` says (`Cut`), before it looks up the threads of these rows.
`alone` and `firm` are history variables that say when a request was undisturbed
and when a star was there before everybody.

*ConnectionCatalog.* A table is a pair of schema and name, and a schema may be there without
any; `options` remember which schemas were listed, which tables were seen, and what of both
is enabled. `Merge` starts afresh when no schema was listed, as `merge_options` does. Every
request is a read, a change and a save, with `unique_together` at the save. `Offered` and
`Opens` are what LangChain's `SQLDatabase` does with the names `get_sql_database` passes.
`Migrate` is somebody else changing the database.

*MemoryStore.* A fact is a topic and a wording; two facts are similar when they have one
topic. `Deduplicate` is the search and `Remember` the put of `extract_and_store`,
`UpdateGet`/`UpdatePut` and `DeleteMemoryGet`/`DeleteMemory` the two calls to the store of
the memory page. The `category` of a memory is stored without the check for secrets
(`memory.py:221-236`) and is not in the model: recall puts the content only into a prompt.
Keys are `uuid4`: a key that a request holds is not given out.

*ResultLinks.* A tool call, its SQL and its rows have one name, so that a property can
ask whose rows a chart shows. `Execute` runs the calls of a message in either order
with the context (`last_chart_data`), `StoreSql` and `StoreOutput` are the loop body for
the agent and the tools node (`last_run_result_id`), where a stream may break at any
row.

*Accounts.* A password hash is named after the request that set it, and so is a
session. A link holds as long as the hash it was made from. Requests read the user,
change it and save the row as a whole; login and renewal check first and issue later.

*HistoryFormat, SchemaChecks, ErrorClasses.* The loops of the code are folds with the
accumulators of the code; what they should return is stated beside them with
quantifiers. `SchemaChecks` also follows `validation_issues` through the nodes of the
hybrid graph: `reported` against `flawed`.

### Assumptions about code outside `src/`

LangGraph 1.0.9 and its Postgres saver are modelled from how the views use them:
messages are loaded when a stream starts; when the event of a node is consumed its
writes are visible to `get_state`; the generator does not run ahead of its
consumer; `delete_thread` empties a thread, and a graph that is running then writes
the channels its later nodes set. `uuid4` does not repeat. Django's `save()` inserts
when the update finds no row and `save(update_fields=...)` raises. ToolNode answers
every call of a message. These are the `external` entries of the map.

## Runs

| Run | Asks | Instance | Result |
|---|---|---|---|
| `registry` | are the two dictionaries a lock per thread; is the proofs' invariant true | 3 workers, 2 runs, 2 users, 4 requests or restarts | holds, 300 thousand states |
| `sql_turns` | what can turns on one thread do to each other; is a thread a conversation | 3 runs, 1 thread, cancel, delete | holds, 2.1 million states, with symmetry over runs |
| `sql_faults` | what holds whatever fails | 1 streaming and 1 synchronous run, connection refused, disconnect, errors, recursion limit, restart | holds, 202 thousand states |
| `sql_sync` | are concurrent checkpoint writes excluded (README) | 3 runs, 2 of them synchronous | **no** |
| `sql_cleanup` | does the cleanup drop only empty chats | 2 runs, disconnect | **no** |
| `sql_recursion` | is a thread usable after the recursion limit | 2 runs | **no** |
| `studio` | what do two turns and a page request leave in a project | 2 runs, 1 request, interruptions, cancel, delete | holds, 776 thousand states |
| `studio_explain` | does "explain" change no artifact | as above, no faults | **no** |
| `studio_variant` | does a variant belong to its SQL | 2 requests, no faults | **no** |
| `workspace` | what holds of the nine parts around the two agents | see the bounds below | holds, 1.9 million states |
| `connection_options` | does an agent get exactly the tables that are enabled | 1 schema, 2 tables, 2 requests | **no** |
| `chart_refresh` | is the SQL behind a chart found | 1 turn, 1 request | **no** |

Each of the seven that fail is a divergence between a comment or document and the
code; `findings` in `PROJECT.json` quotes both sides.

The inductive invariants of the proofs are checked by TLC as well: `IInv` of `RunRegistry`
in `registry`, of `SqlChat` in `sql_faults`, of `SchemaStudio` in `studio`; `PartsIInv` in
`workspace` is the one of the part that runs (`LibIInv`, `CatIInv`, `MemIInv`, `ResIInv`,
`AccIInv`, `CheckIInv` or `AgIInv`). Type correctness is the first conjunct of each.

### What the properties say

*Registry.* `IInv`, `OneStreamPerThread`, `StreamIsRegistered`: the two dictionaries never
disagree outside a critical section (`IndexFollows` in `IInv`) and a stream stays visible
until its own `unregister()`. `OnlyOwnerSignals`: the owner compared in one critical section
is the owner of the run signalled in the next. `ImplementsRunLock`: a cancel can never hit a
run that has ended, nor one that started later. `EveryRequestEnds`: the lock never wedges a
worker.

*SqlChat.* `CopyIsCurrent`: for the whole of a turn the copy of the graph is the checkpoint.
`ImplementsConversation`: a turn asks only when nobody is speaking, after every message only
its own continuation is said until it is answered, stopped or abandoned, only whole turns
are forgotten, "done" is said only of its own answer, and "cancelled" leaves no call open.
`HistoriesAreWhole`: what is left in a checkpoint is one turn after the other, a tool result
right after its call, no turn taken up again. `NoLostTurn` (violated in `sql_sync`, proved
without synchronous runs): messages leave a thread only from its front (summarize) or with
all of it (delete). `AnswerIsOwn`: the answer read back from the checkpoint is the run's.
`FinishedTurnsAnswered`: calls of a turn that was answered or cancelled have results in
every history sent to the LLM; `NoDanglingResult`: no result is separated from its call.
`FailedChatDropped`, `EveryRunLeaves`, and `CancelledIsFinal` within `IInv`: cleanup,
registry and outcomes at the end of a turn.

*SchemaStudio.* `ShownIsPersisted`: a turn that has answered saves each artifact it has
streamed, although it is read back from a checkpoint that a late cleanup or a delete may
have emptied. It names the only ways to lose one: the row that `post()` read is gone when
`persist_schema_project` looks for it (a cleanup or a delete came first), or the schema, of
an earlier turn, is gone from the checkpoint and there is nothing the code would save with
the texts made from it. `SqlMatchesSchema`: SQL and seed data saved by the turn that made
them were made from the schema saved with them. `EditedIsManual`: the badge is never shown
where neither text is of a user. `EveryRunLeaves`.

*AgenticSchema.* `TurnIsAllOrNothing`: a turn that no other met ends with the project as it
was, or with what it showed in place of that and only of that; unanswered, a new project
is gone with its messages. Turns that meet save over each other, which the model has and
the property leaves out.

*ChatLibrary.* `SearchIsExact`: an undisturbed search returns threads that exist and match,
each once, although index rows outlive their threads and are duplicated by races. It leaves
out none, unless more titles of a kind match, or more index rows, than it reads: rows of
deleted threads and duplicates do use up the limit of 60, and threads are then missed.
`ReindexRepairs`: one undisturbed reindexing leaves exactly the turns of the checkpoint,
whatever earlier overlapping ones left. `StarredIsKept`: a chat starred before the requests
in flight began loses row and history to nothing but its own delete. `DeleteIsWhole`: with
nobody writing beside it, a delete or a cleanup empties all three stores.

*ConnectionCatalog.* `MergeKeepsChoices`: a refresh enables nothing and forgets nothing that
still exists; the tables of a schema that was listed empty come disabled. Only options that
list no schema at all begin again with everything enabled. `OfferedIsEnabled`: the two cases
in which a disabled table is offered are the only ones.

*MemoryStore.* `NoSecretStored`, of contents, on three ways in and in flight. `OncePerTurn`: search and
put interleave with those of others, and yet a turn stores no topic twice.

*ResultLinks.* `RunHasItsSql`: rows never stand in the table without the SQL before them,
wherever the stream broke. `ChartShowsLinkedRun`: the two ways in which a chart is tied to
a query agree in turns that call one tool at a time.

*Accounts.* `ResetEndsSessions`: across renewals, a session that is alive stems from a
password in force since the last reset, or from a request that was past its check
when a reset was committed.

*Pure parts.* `HistoryIsFaithful`, `ViewsAgree`, `CompactionCutsTurns`: nothing is lost,
doubled or torn, page and index agree, before and after a compaction.
`IssuesMatchReference`: the validators' passes find an issue exactly where the definition
says so. `NoIssueHidden`: no flaw of what a thread shows is missing from its issues.
`MostSpecificFirst`: the if-chain answers as the nearest base class does.

Every property of a passing run has a mutant in `PROJECT.json`: an operator that
changes one definition as a plausible bug would (`RegisterOverSignalled`,
`LeaveAfterError`, `PersistKeepFlag`, ...), under which TLC finds the property
violated in the same run.

### Bounds, and why they are enough

* *Threads.* One: the registry's keys and the checkpoints of different threads never
  meet, and no property relates two threads.
* *Runs.* Two meet in every window; three let a turn suffer from what an earlier one
  left while another is in flight. Two are enough for the faults run, where the
  interesting case is one turn after or beside a broken one.
* *`MaxCalls = 2`.* The real limit is LangGraph's 25 super-steps. Two calls are one
  that asks for tools and one that answers; the limit is reached at the second when
  `"recursion"` is allowed.
* *`KeepRecent = 3`.* The code keeps 8 messages. Three is less than the four messages
  of a turn with a tool call, so that an unsafe cut would fall inside a turn; four
  or more with two calls per turn would hide it. The token budget is a free choice:
  `Summarize` or `KeepAll`.
* *`MaxRequests = 4`* (registry). Two posts and two cancels, or a restart among them.
* *Once.* One crash, one delete of a project; a request of the page is used once.
* *`studio`.* The two turns differ in nothing but their names, so one of them starts first
  (`InOrder`). Its generator returns SQL and seed data, that of the second both or one of
  them (`SomeText`): an empty text matters where another one is there to fall back to. The
  page edits one of the two texts (`OneText`), and the text a user leaves is not empty (in
  `Edit`). The model and its proofs have neither bound but the last.
* *`workspace`.* The parts share no state that their properties speak of (chats, connections,
  memories, results, accounts and messages are different tables), so a behaviour is one
  of one part, and TLC adds their state spaces instead of multiplying them. Requests
  of `ChatLibrary` are symmetric; those of the other parts begin in
  the order of their numbers (`InOrder`), which loses nothing, as any of them may be any
  request.
  - library: a chat and a project, both unnamed, and three requests, so that two writers meet
    a third that reads or repairs; or a second chat, all renamed, and two requests
    (`LibBound`), so that a search has more titles (`TitleLimit = 1`) and index rows
    (`ContentLimit = 2`) than it reads; faults of the turn, the index and the checkpointer.
  - catalog: two schemas, one with two tables and one with a view that has the name of
    one of them, each of which may be missing, so that a schema may be there empty; two
    requests, two connections.
  - memory: one topic in two wordings, one other, one secret; two requests and one
    memory from before (`MaxEarlier`), so that an edit and a delete of it meet; three keys,
    given out in order (`LeastKey`). `RecallLimit = 1` instead of 3, less than the memories
    there are.
  - results: one streaming and one synchronous turn with three tool calls together
    (`MaxToolCalls`), in one or more messages, at most one of them synchronous
    (`MaxSyncCalls`: nothing links its rows), and a request.
  - accounts: four requests: two resets, a login and its renewal among them.
  - agentic: two turns after those of before (`OldArt`), with two tool calls each
    (`MaxRounds`): a schema, SQL, or both, in either order.
  - pure: lists of up to four messages of nine kinds with `KeepRecent = 2`, schemas of up to
    two tables with two columns, scripts of up to two statements, every class of
    exception. Cycles, duplicates and torn turns need no more.
  - nodes: ten artifacts (`MaxArtifacts`), which is several turns with a retry each.
* *Faults* are switched per run to keep instances small; every action fires in some
  passing run. The refinement in `sql_turns` is checked with deletes only, because TLC
  evaluates the abstract step at every transition; its proof covers all faults.

Symmetry (over streaming runs) is used in `sql_turns` only, which checks no liveness.
Deadlock is checked everywhere: `Quiet` is the only stuttering step and is enabled
only when every request is over.

### Fairness

`WF_vars(Step(r))` for every run: a request being served is executed to its end. The
WSGI server pulls the generator until it stops, LLM clients have `timeout=60` and
bounded retries, and the threads are the operating system's. Nothing is assumed of
clients: sending a request, cancelling, disconnecting, deleting and faults are not
fair. The assumption covers a registered run only; that a request finds a free
thread among the four is not claimed (see the plan). In `SchemaStudio` the 403 of a
foreign project is not forced either: `Create` is then enabled and taken. It assumes less:
that some turn that can go on does (`WF_vars(\E r \in Run : Step(r))`), which is enough
because turns are finite and finitely many.

## Proofs

TLAPS proves, for any number of workers, runs, users, threads and messages, and for
every set of faults that a theorem does not exclude by name:

* `RunRegistryProofs`. `IInv` (also checked by TLC in `registry`) says which worker
  holds the lock, that a run id belongs to one request, that `_RUNS` holds exactly
  the runs between `reg_store` and `unreg_pop`, that `_BY_THREAD` lags it only inside
  a critical section, and what the cancel endpoint has learnt (`FoundRun`: the run it
  found is still there with the same key, or gone for good). The safety properties
  are not inductive alone: that two streams exclude each other needs that a worker
  past the check is alone in the critical section and saw both dictionaries in
  agreement. From it follow `TypeCorrect`, `ThreadsAreExclusive`, `IndexIsExact`,
  `StreamsStayRegistered`, `CancelIsOwners` and the refinement `RefinesRunLock`
  (initial states map to initial states; every step to an `Acquire`, `Release`,
  `Signal`, `Wipe` or a stutter).
* `SqlChatProofs`. `IInv` says that a stream holds its thread from `register()` to
  `unregister()` and alone (`HoldsThread`), that an LLM call is left where one may
  still be made, that the last message of a copy is the run's own and fits the node that
  comes next (`LastIsOwn`), and
  what a client has been told at each point. Hence `TypeCorrect`, `SingleWriter`
  (`CopyIsCurrent`), `CancelledIsTheEnd`, `AnswersAreOwn` and `NothingLost`.
  Four parts are about where in a history messages stand. `ResultsPaired`: copies are as well
  formed as checkpoints, under all faults and beside synchronous queries, hence
  `ResultsHaveCalls`. `MessagesPlaced`: messages of a run are on its thread only;
  `OwnCallsAnswered`: a run leaves open only the call it is about to execute, and so once it
  is answered or cancelled none is open in any history (`SettledAnswered`), hence
  `HistoriesAreAnswered`; this excludes synchronous runs and the fault `"error"`, after
  which the repair of the history is best effort in the code too. `Accounted`: usage is
  due only while the event of a reply is pending, and never more than the agent node's replies.
  `FirstTurns`: nobody brings back a row that was dropped, until a restart, hence
  `FailedChatsAreDropped`, which leaves out only a stream whose own delete raised. The
  theorems about the checkpoint's single writer assume `SyncRun = {}`, and `sql_sync` shows
  that they need to: they are the README's promise for the streaming endpoint.
  The refinement (`ImplementsAConversation`) follows step by step: `OneSpeaker` (the registry
  keeps speakers apart) makes the mapping a function, `Stays`, `Enters` and `Leaves` say
  what a step in, into and out of the graph is to the conversation, and `CopyIsCurrent` that what a run leaves
  behind is what it said. `HistoriesStayWhole` is then not proved about `SqlChat` at all: it is the
  theorem of `ConversationProofs`, read through the mapping.
* `ConversationProofs`. `WholeTurns` with `SpeakerIsLast` is inductive: what is said
  continues the turn of the last message, a question begins with a turn that nobody has
  heard of, and a history cut at a question is whole if it was. Hence `TurnsAreWhole`.
* `SchemaStudioProofs`. A turn holds the slug alone, so that the checkpoint may lose the
  turn's artifacts to a late cleanup or a delete but never gets those of another; a text by
  a run that has not reached `gen_sql` exists nowhere (`Unwritten`), so that what it
  shows it made in this turn and from this schema (`TextFits`), and what it has read back is
  what it showed (`FinalFits`). Hence `BadgeIsTrue` (`EditedIsManual`),
  `ShownArtifactsPersist` (`ShownIsPersisted`) and `PersistedSqlFits` (`SqlMatchesSchema`).
* `ChatLibraryProofs`. The invariant is about requests in flight: where each may stand
  (`Placed`), that what is not born yet is nowhere (`UnbornAreNew`), that turns which do not
  overlap have loaded all of the history (`TurnsApart`, `LoadedAll`), that nobody in flight
  holds a chat with a firm star as one to delete (`FirmIsSafe`), and what an undisturbed
  request knows of the three stores at each of its steps (`Knows`). Hence `SearchesAreExact`,
  `ReindexingRepairs`, `StarsProtect` and `DeletesAreWhole`.
* `ResultLinksProofs`. `SqlComesFirst`: every query about to run has its SQL in the table;
  `CacheIsLinked`: in a turn that calls one tool at a time, rows in `last_chart_data` are those
  of the result `last_run_result_id` names, or will be once the output in hand is stored; `LinksAreToRuns`: only charts are
  linked and only to run results, so that edits and refreshes leave charts and what they
  are linked to alone. Hence `RunsHaveSql`, `ChartsShowTheirRun` and `OnlyRunsAreLinkedTo`.
* `WorkspaceProofs`. *Connections:* `IsCurrent` says that the row an undisturbed request has
  read is still the one in the table, and that what it is about to save keeps the choices
  in it, although the database may change at any time; hence `ChoicesAreKept`.
  `OnlyNamesakesSlipIn` needs no more than types and the definition of `Offered`. *Agentic
  schema:* `Alone` says that a turn no other met knows the project until it saves or cleans
  up, `Ready` that it saves only when there is a schema; hence `LoneTurnsAreWhole`.
  `SqlHasSchema` holds of turns that overwrite each other too (`SqlComesWithSchema`).
  *Validators:* `CheckIInv` keeps room for the artifacts a node may still make; with it
  `NoIssueHidden` is inductive (`FlawsAreReported`).
  *Accounts:* `ResetEndsSessions` is not inductive: a login may be past its check with an
  old password in hand. `Pending` says what such a request holds, `Covered` that the
  password it holds is in force or that somebody who was about to issue at a reset
  descends from it, `Nobody` that before the signup there is nothing to issue. Hence
  `AccountsInvariant` and `ResetIsFinal`.
  *Memories:* `Puts` is the heart: a turn that is past its search has stored no
  memory of that topic, and no step of another request can give it one, because a new
  memory bears the name of its maker and an edit is marked (`Updates`). `Typed` is the type
  correctness with `Seq` for the bounded lists TLC enumerates. Hence `MemoryInvariant`,
  `SecretsStayOut` and `ExtractedOnce`.
* `PureProofs`. The pure parts are loops, and what a loop returns for every list is an
  induction over the list. The library states induction with an operator as parameter;
  `Induct` states it for a set of naturals and follows from `WFMin` and
  `NatLessThanWellFounded`. `FoldExists` shows that the function behind a fold over 1..n
  exists and what it does at each step; `ColumnsRun`, `TablesRun`, `ChatRuns`, `SchemaRuns`
  and `TurnRuns` are that for each loop, and `FlattenAppend` does it for the concatenations
  in the references. Each loop then has an invariant, as one would write it in the code:
  what `seen`, `columns` and `pk` say of the columns so far (`ColumnsMean`, `TablesMean`), what
  the messages and the open assistant message say of the list so far (`ChatMeans`), and
  that the texts pending and flushed are those indexed (`SchemaMeans`, `TurnsAreExact`). For a
  compaction, `ReadMoves` and `TurnReadMoves` run the loop over the whole list and over the rest side by
  side: at the first question that is kept the open message is flushed, and from there on the
  two differ by a shift of positions. Hence
  `ValidatorsAreExact`, `HistoryStaysFaithful`, `ViewsStayInAgreement` and `CompactionStaysWhole`,
  which allow the inputs to change to any others at every step: any number of tables, columns,
  statements, messages and tool calls in one, any names and any `KeepRecent`.

The assumptions are the named ASSUMEs of the modules: `None` is not a value, the
bounds are naturals, the sets of actors are disjoint where it matters, the requests to
`ConnectionCatalog` are finitely many (its model counts uploaded files), and
`MaxArtifacts` has room for what a thread brings along.

Only model-checked, and why:

* all liveness (`EveryRequestEnds`, `EveryRunLeaves`): outside the prover's reach;
* `PartsIInv`, the conjunction of the parts' inductive invariants in the instance that runs one part at a time:
  each part's is proved by itself;
* `MostSpecificFirst`: `ErrorClasses` has no constants, and `workspace` checks every class with
  every kind of message and header;
* the divergences, which are counterexamples.

## Not modelled, and why

The text of prompts, answers, summaries, titles and SSE payloads; which tokens are
streamed; the contents of the user's database and the formatting of rows; ranking and
snippets of the search; list views and `UsageView`, which only read;
health, admin and the setup commands. `AiChatView` and `streaming.py` are routed or
kept as a playground with an in-memory graph of their own; `*_old.py` and `ltm_*.py` are
superseded and no routed view runs them. Of the schema agents, faults of the cleanup
itself are left out. A hazard that no property covers has a note in
`PROJECT.json`.

## Plan

1. Done: `RunLock`, `RunRegistry`, `SqlChat`, `SchemaStudio`; `ChatLibrary` with the search
   index, `ResultLinks`, `ConnectionCatalog`, `MemoryStore`, `Accounts`; the pure parts
   `HistoryFormat`, `SchemaChecks`, `ErrorClasses`; an inductive invariant and proofs for
   every state machine of them.
2. `ServerThreads`: four threads, streams and the cancel request.
3. Done: a thread as a conversation (`Conversation`), implemented by `SqlChat` without
   synchronous runs; checked and proved.
4. Dropped: a schema project as a pair that changes only by a turn or an edit. A page that
   saves a whole row it read long ago puts older artifacts back (`SchemaStudio.Save`), so
   such a specification would have to allow any earlier pair and say little.
