---------------------------- MODULE ChatLibrary ----------------------------
(***************************************************************************)
(* The sidebar of a user: SQL chats and schema projects with their row     *)
(* (title and star), their history in a LangGraph checkpoint, and their    *)
(* rows in the full-text search index.  Three stores, and requests that    *)
(* change them one after another without a common transaction: turns,      *)
(* PATCH, delete, the cleanup of everything that is not starred, the       *)
(* reindex_search command, and search.                                     *)
(*                                                                         *)
(* A turn is named after the request that made it; Old stands for what was *)
(* said before.  A row of the index is <<thread, writer, turn>>.           *)
(***************************************************************************)
EXTENDS Naturals, FiniteSets

CONSTANTS
    SqlThread,    \* ids of chats (ChatSession)
    SchemaThread, \* slugs of schema projects (SchemaProject)
    Request,      \* requests to the server, each used once
    Faults,       \* subset of {"turn", "index", "checkpointer"}
    TitleLimit,   \* TITLE_LIMIT: title matches of a kind that a search reads
    ContentLimit, \* CONTENT_LIMIT: index rows that it reads
    Old,          \* the conversation before the first request
    None

Thread == SqlThread \cup SchemaThread

VARIABLES
    row,    \* row[t]: [title, starred], or None
    hist,   \* hist[t]: the turns in the checkpoint of t
    index,  \* the rows of ConversationMessage
    ready,  \* those whose search_vector has been filled in
    unborn, \* thread ids that uuid4 has not produced yet
    pc,     \* pc[q]: the next step of request q
    loc,    \* loc[q]: the locals of its view
    alone,  \* requests since whose last read nobody else has written
    firm    \* threads starred since a moment when no request was in flight

store == <<row, hist, index, ready>>
libVars == <<row, hist, index, ready, unborn, pc, loc, alone, firm>>

Turn == Request \cup {Old}
Titles == {"New Chat", "generated", "renamed"}
RowOf(title, starred) == [title |-> title, starred |-> starred]
RowsOf(t) == {e \in index : e[1] = t}
Live == {t \in Thread : row[t] # None}

Label == {"idle", "graph", "answer", "title", "cleanup", "begin", "commit", "vector", "next", "save",
          "del_hist", "del_row", "del_index", "bulk", "content", "resolve", "done"}

\* Results of a search are <<thread, how it was found>>.
Local == [op : {"none", "turn", "patch", "delete", "bulk", "command", "search"},
          t : Thread \cup {None}, new : BOOLEAN, failed : BOOLEAN,
          copy : {None} \cup [title : Titles, starred : BOOLEAN],
          turns : SUBSET Turn, seen : SUBSET (Thread \X Turn \X Turn),
          ids : SUBSET Thread, todo : SUBSET Thread, hits : SUBSET (Thread \X {"title", "text"})]
NoLocal == [op |-> "none", t |-> None, new |-> FALSE, failed |-> FALSE, copy |-> None, turns |-> {},
            seen |-> {}, ids |-> {}, todo |-> {}, hits |-> {}]

\* "No row" is not a row; a limit is a number; chats are not projects.
ASSUME LibAssumption ==
    /\ None \notin [title : Titles, starred : BOOLEAN]
    /\ TitleLimit \in Nat /\ ContentLimit \in Nat
    /\ SqlThread \cap SchemaThread = {}

Quiet == \A q \in Request : pc[q] \in {"idle", "done"}

-----------------------------------------------------------------------------
(* A turn of the SQL agent, as far as other requests can meet it (SqlChat  *)
(* has it in full).  The registry admits one per thread.                   *)

At(q, label) == pc[q] = label
Goto(q, label) == pc' = [pc EXCEPT ![q] = label]
Note(q, l) == loc' = [loc EXCEPT ![q] = l]
\* The same, and the locals go when the request is done.
Move(q, label) ==
    /\ Goto(q, label)
    /\ IF label = "done" THEN Note(q, NoLocal) ELSE UNCHANGED loc

\* SqlAgent.post(): without a thread id a new chat is created.
TurnStart(q) ==
    /\ At(q, "idle")
    /\ \E t \in SqlThread :
        /\ \A p \in Request : loc[p].op = "turn" /\ loc[p].t = t => pc[p] = "done"
        /\ t \in unborn \/ row[t] # None
        /\ Note(q, [NoLocal EXCEPT !.op = "turn", !.t = t, !.new = t \in unborn, !.turns = hist[t]])
        /\ row' = IF t \in unborn THEN [row EXCEPT ![t] = RowOf("New Chat", FALSE)] ELSE row
        /\ unborn' = unborn \ {t}
    /\ Goto(q, "graph")
    /\ UNCHANGED <<hist, index, ready>>

\* The graph writes the messages it loaded, and its own, to the checkpoint.
TurnGraph(q) ==
    LET t == loc[q].t IN
    /\ At(q, "graph")
    /\ hist' = [hist EXCEPT ![t] = loc[q].turns \cup {q}]
    /\ \/ Goto(q, "answer")
       \/ "turn" \in Faults /\ Goto(q, "cleanup")
    /\ UNCHANGED <<row, index, ready, unborn, loc>>

\* The answer is read back from the checkpoint; without one the new chat goes.
TurnAnswer(q) ==
    LET t == loc[q].t IN
    /\ At(q, "answer")
    /\ Note(q, [loc[q] EXCEPT !.turns = hist[t]])
    /\ Goto(q, IF q \notin hist[t] THEN "cleanup" ELSE IF loc[q].new THEN "title" ELSE "begin")
    /\ UNCHANGED <<row, hist, index, ready, unborn>>

\* save(update_fields=["title"]) raises when the row is gone: nothing is indexed.
TurnTitle(q) ==
    LET t == loc[q].t IN
    /\ At(q, "title")
    /\ IF row[t] = None
         THEN Move(q, "done") /\ UNCHANGED row
         ELSE Move(q, "begin") /\ row' = [row EXCEPT ![t].title = "generated"]
    /\ UNCHANGED <<hist, index, ready, unborn>>

(* Mutant: the chat is dropped although it was not new. *)
TurnCleanupAlways(q) ==
    /\ At(q, "cleanup")
    /\ row' = [row EXCEPT ![loc[q].t] = None]
    /\ Move(q, "done")
    /\ UNCHANGED <<hist, index, ready, unborn>>

\* The finally block of a turn that produced no response.
TurnCleanup(q) ==
    /\ At(q, "cleanup")
    /\ row' = IF loc[q].new THEN [row EXCEPT ![loc[q].t] = None] ELSE row
    /\ Move(q, "done")
    /\ UNCHANGED <<hist, index, ready, unborn>>

-----------------------------------------------------------------------------
(* reindex_thread: the DELETE sees the rows committed when it starts, the  *)
(* INSERTs appear at commit, and the vectors are filled in afterwards.     *)

After(q) == IF loc[q].todo = {} THEN "done" ELSE "next"

ReindexBegin(q) ==
    /\ At(q, "begin")
    /\ Note(q, [loc[q] EXCEPT !.seen = RowsOf(loc[q].t)])
    /\ Goto(q, "commit")
    /\ UNCHANGED <<row, hist, index, ready, unborn>>

(* Mutant: rows are added, none is deleted. *)
ReindexCommitAppends(q) ==
    /\ At(q, "commit")
    /\ index' = index \cup ({loc[q].t} \X {q} \X loc[q].turns)
    /\ ready' = ready \cap index'
    /\ Note(q, [loc[q] EXCEPT !.seen = {}, !.turns = {}])
    /\ Goto(q, "vector")
    /\ UNCHANGED <<row, hist, unborn>>

ReindexCommit(q) ==
    /\ At(q, "commit")
    /\ index' = (index \ loc[q].seen) \cup ({loc[q].t} \X {q} \X loc[q].turns)
    /\ ready' = ready \cap index'
    /\ Note(q, [loc[q] EXCEPT !.seen = {}, !.turns = {}])
    /\ Goto(q, "vector")
    /\ UNCHANGED <<row, hist, unborn>>

ReindexVector(q) ==
    /\ At(q, "vector")
    /\ ready' = ready \cup RowsOf(loc[q].t)
    /\ Move(q, After(q))
    /\ UNCHANGED <<row, hist, index, unborn>>

\* Best effort: the exception is logged, and an open transaction rolled back.
ReindexFail(q) ==
    /\ "index" \in Faults
    /\ pc[q] \in {"begin", "commit", "vector"}
    /\ Move(q, After(q))
    /\ UNCHANGED <<row, hist, index, ready, unborn>>

-----------------------------------------------------------------------------
(* manage.py reindex_search.  The list of the projects is read after that  *)
(* of the chats; here, as in BulkSnapshot, the two reads are one step.     *)

CommandStart(q) ==
    /\ At(q, "idle")
    /\ Note(q, [NoLocal EXCEPT !.op = "command", !.todo = Live])
    /\ Goto(q, IF Live = {} THEN "done" ELSE "next")
    /\ UNCHANGED <<row, hist, index, ready, unborn>>

CommandNext(q) ==
    /\ At(q, "next")
    /\ \E t \in loc[q].todo :
        /\ t \in SchemaThread => loc[q].todo \cap SqlThread = {}
        /\ Note(q, [loc[q] EXCEPT !.t = t, !.turns = hist[t], !.todo = @ \ {t}])
    /\ Goto(q, "begin")
    /\ UNCHANGED <<row, hist, index, ready, unborn>>

-----------------------------------------------------------------------------
(* ChatDetailView.patch: the whole row is saved as it was read, and        *)
(* inserted again when it is gone.                                         *)

PatchRead(q) ==
    /\ At(q, "idle")
    /\ \E t \in SqlThread \cap Live :
        \E title \in {row[t].title, "renamed"}, starred \in BOOLEAN :
            Note(q, [NoLocal EXCEPT !.op = "patch", !.t = t, !.copy = RowOf(title, starred)])
    /\ Goto(q, "save")
    /\ UNCHANGED <<row, hist, index, ready, unborn>>

PatchSave(q) ==
    /\ At(q, "save")
    /\ row' = [row EXCEPT ![loc[q].t] = loc[q].copy]
    /\ Move(q, "done")
    /\ UNCHANGED <<hist, index, ready, unborn>>

-----------------------------------------------------------------------------
(* Delete.  A chat loses its checkpoint first, a project its row first.    *)

FirstDelete(t) == IF t \in SqlThread THEN "del_hist" ELSE "del_row"

DeleteGet(q) ==
    /\ At(q, "idle")
    /\ \E t \in Live :
        /\ Note(q, [NoLocal EXCEPT !.op = "delete", !.t = t])
        /\ Goto(q, FirstDelete(t))
    /\ UNCHANGED <<row, hist, index, ready, unborn>>

\* For a chat a failure is a 500 before the row is touched; for a project it is logged.
DeleteHist(q) ==
    LET t == loc[q].t IN
    /\ At(q, "del_hist")
    /\ \/ /\ hist' = [hist EXCEPT ![t] = {}]
          /\ Move(q, IF t \in SqlThread THEN "del_row" ELSE "done")
       \/ /\ "checkpointer" \in Faults
          /\ Note(q, [NoLocal EXCEPT !.failed = TRUE])
          /\ Goto(q, "done")
          /\ UNCHANGED hist
    /\ UNCHANGED <<row, index, ready, unborn>>

DeleteRow(q) ==
    /\ At(q, "del_row")
    /\ row' = [row EXCEPT ![loc[q].t] = None]
    /\ Goto(q, "del_index")
    /\ UNCHANGED <<hist, index, ready, unborn, loc>>

DeleteIndex(q) ==
    LET t == loc[q].t IN
    /\ At(q, "del_index")
    /\ index' = index \ RowsOf(t)
    /\ ready' = ready \ RowsOf(t)
    /\ Move(q, IF t \in SqlThread THEN "done" ELSE "del_hist")
    /\ UNCHANGED <<row, hist, unborn>>

-----------------------------------------------------------------------------
(* BulkDeleteNonStarredView: ids first, then checkpoints one by one, then  *)
(* rows in one transaction.                                                *)

Unstarred == {t \in Live : ~row[t].starred}

BulkSnapshot(q) ==
    /\ At(q, "idle")
    /\ Note(q, [NoLocal EXCEPT !.op = "bulk", !.ids = Unstarred, !.todo = Unstarred])
    /\ Goto(q, "bulk")
    /\ UNCHANGED <<row, hist, index, ready, unborn>>

BulkHist(q) ==
    /\ At(q, "bulk")
    /\ \E t \in loc[q].todo :
        /\ t \in SchemaThread => loc[q].todo \cap SqlThread = {}
        /\ \/ /\ hist' = [hist EXCEPT ![t] = {}]
              /\ Note(q, [loc[q] EXCEPT !.todo = @ \ {t}])
           \/ /\ "checkpointer" \in Faults
              /\ Note(q, [loc[q] EXCEPT !.todo = @ \ {t}, !.failed = TRUE])
              /\ UNCHANGED hist
    /\ UNCHANGED <<row, index, ready, unborn, pc>>

(* Mutant: the search rows are forgotten. *)
BulkRowsOnly(q) ==
    /\ At(q, "bulk") /\ loc[q].todo = {}
    /\ row' = [t \in Thread |-> IF t \in Unstarred THEN None ELSE row[t]]
    /\ Move(q, "done")
    /\ UNCHANGED <<hist, index, ready, unborn>>

\* Rows by their star now, index rows by the ids of the snapshot.
BulkRows(q) ==
    /\ At(q, "bulk") /\ loc[q].todo = {}
    /\ row' = [t \in Thread |-> IF t \in Unstarred THEN None ELSE row[t]]
    /\ index' = {e \in index : e[1] \notin loc[q].ids}
    /\ ready' = ready \cap index'
    /\ Move(q, "done")
    /\ UNCHANGED <<hist, unborn>>

-----------------------------------------------------------------------------
(* ChatSearchView for a query that every message, and the title "renamed", *)
(* match: titles, then message hits of other threads, then their titles.   *)
(* Each read is cut to a limit.                                            *)

Renamed == {t \in Live : row[t].title = "renamed"}
HitBy(hits) == {h[1] : h \in hits}

\* order_by(...)[:limit]: all of S, or as many as the limit says.
Cut(S, limit) == {T \in SUBSET S : IF Cardinality(S) <= limit THEN T = S ELSE Cardinality(T) = limit}

\* Chats and projects have a limit each.
SearchTitles(q) ==
    /\ At(q, "idle")
    /\ \E chats \in Cut(Renamed \cap SqlThread, TitleLimit),
          projects \in Cut(Renamed \cap SchemaThread, TitleLimit) :
        Note(q, [NoLocal EXCEPT !.op = "search", !.hits = (chats \cup projects) \X {"title"}])
    /\ Goto(q, "content")
    /\ UNCHANGED <<row, hist, index, ready, unborn>>

\* The limit is on rows: those of deleted threads count, and so does each row of a thread.
SearchContent(q) ==
    /\ At(q, "content")
    /\ \E found \in Cut(ready, ContentLimit) :
        Note(q, [loc[q] EXCEPT !.ids = {e[1] : e \in found} \ HitBy(loc[q].hits)])
    /\ Goto(q, "resolve")
    /\ UNCHANGED <<row, hist, index, ready, unborn>>

(* Mutant: hits are not looked up among the threads that exist. *)
SearchResolveAll(q) ==
    /\ At(q, "resolve")
    /\ Note(q, [loc[q] EXCEPT !.hits = @ \cup (loc[q].ids \X {"text"}), !.ids = {}])
    /\ Goto(q, "done")
    /\ UNCHANGED <<row, hist, index, ready, unborn>>

\* Hits whose thread has no row any more are dropped.
SearchResolve(q) ==
    /\ At(q, "resolve")
    /\ Note(q, [loc[q] EXCEPT !.hits = @ \cup ((loc[q].ids \cap Live) \X {"text"}), !.ids = {}])
    /\ Goto(q, "done")
    /\ UNCHANGED <<row, hist, index, ready, unborn>>

\* SQLConversationCreateView: an empty chat for a connection.
CreateChat(q) ==
    /\ At(q, "idle")
    /\ \E t \in SqlThread \cap unborn :
        /\ row' = [row EXCEPT ![t] = RowOf("New Chat", FALSE)]
        /\ unborn' = unborn \ {t}
    /\ Goto(q, "done")
    /\ UNCHANGED <<hist, index, ready, loc>>

-----------------------------------------------------------------------------
\* Threads with an earlier conversation, indexed or not yet, and ids to come.
LibInit ==
    /\ unborn \in SUBSET SqlThread
    /\ \E named \in [Thread -> Titles] :
        row = [t \in Thread |-> IF t \in unborn THEN None ELSE RowOf(named[t], FALSE)]
    /\ hist = [t \in Thread |-> IF t \in unborn THEN {} ELSE {Old}]
    /\ index \in {{}, (Thread \ unborn) \X {Old} \X {Old}}
    /\ ready = index
    /\ pc = [q \in Request |-> "idle"]
    /\ loc = [q \in Request |-> NoLocal]
    /\ alone = {} /\ firm = {}

Step(q) ==
    \/ TurnStart(q) \/ TurnGraph(q) \/ TurnAnswer(q) \/ TurnTitle(q) \/ TurnCleanup(q)
    \/ ReindexBegin(q) \/ ReindexCommit(q) \/ ReindexVector(q) \/ ReindexFail(q)
    \/ CommandStart(q) \/ CommandNext(q)
    \/ PatchRead(q) \/ PatchSave(q)
    \/ DeleteGet(q) \/ DeleteHist(q) \/ DeleteRow(q) \/ DeleteIndex(q)
    \/ BulkSnapshot(q) \/ BulkHist(q) \/ BulkRows(q)
    \/ SearchTitles(q) \/ SearchContent(q) \/ SearchResolve(q)
    \/ CreateChat(q)

\* The labels at which a request reads what it will write back or answer.
ReadsAt == {"idle", "answer", "next"}

\* What the properties remember: who has worked undisturbed since its last
\* read, and which threads have been starred since nothing was in flight.
Observe(q) ==
    /\ alone' = {p \in Request :
                    /\ \/ p \in alone /\ (p = q \/ UNCHANGED store)
                       \/ p = q /\ pc[q] \in ReadsAt
                    /\ pc'[p] = "done" => loc'[p].op = "search"}
    /\ firm' = {t \in Thread : /\ row'[t] # None /\ row'[t].starred
                               /\ t \in firm \/ Quiet'}

LibNext == (\E q \in Request : Step(q) /\ Observe(q)) \/ (Quiet /\ UNCHANGED libVars)

LibSpec == LibInit /\ [][LibNext]_libVars

-----------------------------------------------------------------------------
LibTypeOK ==
    /\ row \in [Thread -> {None} \cup [title : Titles, starred : BOOLEAN]]
    /\ hist \in [Thread -> SUBSET Turn]
    /\ index \subseteq Thread \X Turn \X Turn
    /\ ready \subseteq index
    /\ unborn \subseteq SqlThread
    /\ pc \in [Request -> Label]
    /\ loc \in [Request -> Local]
    /\ alone \subseteq Request
    /\ firm \subseteq Live

\* A reindexing that nobody disturbed since it read the checkpoint leaves
\* exactly one row per turn of the thread, whatever races left before it
\* (reindex_search: "any time the index drifts").
ReindexRepairs ==
    [][\A q \in Request :
        /\ ReindexCommit(q) /\ q \in alone
        => LET t == loc[q].t IN
           {e \in index' : e[1] = t} = {t} \X {q} \X hist[t]]_libVars

\* A chat that has been starred since before the requests in flight began
\* loses neither row nor history, unless it is itself being deleted.
StarredIsKept ==
    [][\A t \in firm :
        \/ \E q \in Request : loc[q].op = "delete" /\ loc[q].t = t
        \/ row'[t] # None /\ hist[t] \subseteq hist'[t]]_libVars

\* A search that nobody disturbed answers with threads that exist and match as
\* said, each once: what a race left of a deleted thread is not shown.  It leaves
\* none out, unless there are more index rows or more matching titles than it
\* reads: rows of deleted threads and rows that were written twice can push the
\* thread that is looked for out of CONTENT_LIMIT.
Exact(hits) ==
    /\ \A h \in hits :
        /\ h[1] \in Live
        /\ h[2] = "title" => row[h[1]].title = "renamed"
        /\ h[2] = "text" => RowsOf(h[1]) \cap ready # {} /\ <<h[1], "title">> \notin hits
    /\ \A kind \in {SqlThread, SchemaThread} :
        Cardinality(Renamed \cap kind) <= TitleLimit => (Renamed \cap kind) \X {"title"} \subseteq hits
    /\ Cardinality(ready) <= ContentLimit =>
        \A t \in Live : RowsOf(t) \cap ready # {} => t \in HitBy(hits)
SearchIsExact ==
    \A q \in alone : loc[q].op = "search" /\ pc[q] = "done" => Exact(loc[q].hits)

\* A delete, or a cleanup, that nobody disturbed leaves none of the three
\* stores with anything of what it removed (a logged checkpointer error
\* apart), and a cleanup leaves only starred threads.
DeleteIsWhole ==
    [][\A q \in alone :
        /\ pc[q] # "done" /\ pc'[q] = "done"
        /\ ~loc[q].failed /\ ~loc'[q].failed
        => /\ loc[q].op = "delete" =>
                row'[loc[q].t] = None /\ hist'[loc[q].t] = {} /\ ~ \E e \in index' : e[1] = loc[q].t
           /\ loc[q].op = "bulk" =>
                \A t \in loc[q].ids :
                    row'[t] = None /\ hist'[t] = {} /\ ~ \E e \in index' : e[1] = t
           /\ loc[q].op = "bulk" => \A t \in Thread : row'[t] # None => row'[t].starred]_libVars
-----------------------------------------------------------------------------
\* The inductive invariant behind all four.  First what holds of every
\* request: where its locals come from and what it holds against the others.

\* A request is at a label of its own operation, and knows its thread.
InPlace(q) ==
    /\ pc[q] = "idle" => loc[q] = NoLocal
    /\ pc[q] \in {"graph", "answer", "title", "cleanup"} => loc[q].op = "turn"
    /\ pc[q] \in {"begin", "commit", "vector"} => loc[q].op \in {"turn", "command"}
    /\ pc[q] = "next" => loc[q].op = "command"
    /\ pc[q] = "save" => loc[q].op = "patch" /\ loc[q].copy # None
    /\ pc[q] \in {"del_hist", "del_row", "del_index"} => loc[q].op = "delete"
    /\ pc[q] = "bulk" => loc[q].op = "bulk"
    /\ pc[q] \in {"content", "resolve"} => loc[q].op = "search"
    /\ pc[q] = "done" => loc[q].op \in {"none", "command", "search"}
    /\ loc[q].op \in {"turn", "patch", "delete"} => loc[q].t \in Thread
    /\ loc[q].op = "turn" => loc[q].todo = {}
    /\ pc[q] \in {"begin", "commit", "vector"} => loc[q].t \in Thread
Placed == \A q \in Request : InPlace(q)

\* An id that uuid4 has yet to produce has no row, and nobody is about to save one.
UnbornAreNew ==
    \A t \in unborn :
        /\ row[t] = None
        /\ \A q \in Request : loc[q].op = "patch" => loc[q].t # t

\* A turn is alone on its thread, so that what it loaded covers the checkpoint
\* until it writes.
TurnsApart ==
    \A p, q \in Request :
        loc[p].op = "turn" /\ loc[q].op = "turn" /\ loc[p].t = loc[q].t => p = q
LoadedAll ==
    \A q \in Request : pc[q] = "graph" => hist[loc[q].t] \subseteq loc[q].turns

\* Nobody in flight is about to drop a thread that is starred for so long: no
\* turn created it and no cleanup has it on its list.
FirmIsSafe ==
    \A t \in firm :
        /\ row[t] # None /\ row[t].starred
        /\ \A q \in Request :
            /\ loc[q].op = "turn" /\ loc[q].t = t => ~loc[q].new
            /\ loc[q].op = "bulk" => t \notin loc[q].todo

\* Then what an undisturbed request knows of the stores.
TitleHits == {hits \in SUBSET (Thread \X {"title"}) :
                \E chats \in Cut(Renamed \cap SqlThread, TitleLimit),
                   projects \in Cut(Renamed \cap SchemaThread, TitleLimit) :
                  hits = (chats \cup projects) \X {"title"}}
NoRows(t) == \A e \in index : e[1] # t

Indexing(q) ==
    /\ pc[q] \in {"title", "begin", "commit"} => loc[q].turns = hist[loc[q].t]
    /\ pc[q] = "commit" => loc[q].seen = RowsOf(loc[q].t)
Searching(q) ==
    /\ pc[q] \in {"content", "resolve"} => loc[q].hits \in TitleHits
    /\ pc[q] = "resolve" => \E found \in Cut(ready, ContentLimit) :
                              loc[q].ids = {e[1] : e \in found} \ HitBy(loc[q].hits)
    /\ pc[q] = "done" /\ loc[q].op = "search" => Exact(loc[q].hits)
Deleting(q) ==
    LET t == loc[q].t IN
    /\ t \in SqlThread =>
        /\ pc[q] \in {"del_row", "del_index"} => hist[t] = {}
        /\ pc[q] = "del_index" => row[t] = None
    /\ t \notin SqlThread =>
        /\ pc[q] \in {"del_index", "del_hist"} => row[t] = None
        /\ pc[q] = "del_hist" => NoRows(t)
Cleaning(q) ==
    pc[q] = "bulk" =>
        /\ loc[q].ids = Unstarred
        /\ loc[q].failed \/ \A t \in loc[q].ids \ loc[q].todo : hist[t] = {}
Knows(q) == Indexing(q) /\ Searching(q) /\ Deleting(q) /\ Cleaning(q)

LibIInv ==
    /\ LibTypeOK /\ Placed /\ UnbornAreNew /\ TurnsApart /\ LoadedAll /\ FirmIsSafe
    /\ \A q \in alone : Knows(q)
=============================================================================
