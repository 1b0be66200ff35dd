---------------------------- MODULE SchemaStudio ----------------------------
(***************************************************************************)
(* One schema project under the hybrid schema agent                        *)
(* (core/schema_agent_hybrid.py and core/services/schema_graph_hybrid.py)  *)
(* and the requests of the project page (core/schema_views.py), which all  *)
(* write the same SchemaProject row.                                       *)
(*                                                                         *)
(* The artifacts live twice: in the agent's checkpoint, which only the     *)
(* agent writes, and in the row, which the agent overwrites at the end of  *)
(* a turn and the user edits.  A save() writes every column of the object  *)
(* that was read before, whatever has happened to the row since.           *)
(*                                                                         *)
(* A schema, and the primary key of a row, is named by the run that made   *)
(* it.  A SQL text, of the tables or of the seed data, is named by its     *)
(* author and by the schema it was made from; None is no text or an empty  *)
(* one, which the code treats alike.                                       *)
(***************************************************************************)
EXTENDS Naturals

CONSTANTS Slug,      \* the project's slug, the thread id of its runs
          Run,       \* turns of the agent
          Request,   \* requests of the project page: PATCH and dialect switch
          Legacy,    \* the agent that made the project before this one did
          Faults,    \* what the environment may do
          None

Author == Run \cup {Legacy}
(* What the agent writes is made from a schema, what the user writes is not. *)
Text == [from : Author, by : Author] \cup [from : {None}, by : Request]
Variant == [sql : Text \cup {None}, seed : Text \cup {None}]
Intents == {"schema", "sql", "explain"}

ASSUME ConstantsAreSane ==
    /\ None \notin Run \cup Request \cup {Slug, Legacy} \cup Text \cup Variant
    /\ Run \cap (Request \cup {Legacy}) = {} /\ Legacy \notin Request
    /\ Faults \subseteq {"interrupt", "delete"}

VARIABLES
    inflight, signalled,   \* the run registry, as RunLock has it
    row,                   \* the SchemaProject row
    cp,                    \* the artifacts in the checkpoint
    deleting,              \* perform_destroy: what it does next
    pc, inst, isNew, seeded,         \* post(): locals of a run
    intent, mem,                     \* the graph's copy of its state
    schemaArt, sqlArt, seedArt, final,   \* stream_generator: the artifacts it saw
    answered, produced, wasCancelled,
    request, copy          \* per request: what it does next, the object it read

registry == <<inflight, signalled>>
shown == <<schemaArt, sqlArt, seedArt>>
artifacts == <<intent, mem, shown, final>>
outcome == <<answered, produced, wasCancelled>>
locals == <<inst, isNew, seeded, artifacts, outcome>>
page == <<request, copy>>
vars == <<registry, row, cp, deleting, pc, locals, page>>

Registry == INSTANCE RunLock WITH Key <- {Slug}

Row == [id : Author \cup {None}, schema : Author \cup {None}, sql : Text \cup {None},
        seed : Text \cup {None}, edited : BOOLEAN, variant : Variant \cup {None}]
Design == [schema : Author \cup {None}, sql : Text \cup {None}, seed : Text \cup {None}]

NoRow == [id |-> None, schema |-> None, sql |-> None, seed |-> None,
          edited |-> FALSE, variant |-> None]
NewRow(r) == [NoRow EXCEPT !.id = r]
MadeBy(r, schema) == [from |-> schema, by |-> r]
LegacyRow == [NewRow(Legacy) EXCEPT !.schema = Legacy, !.sql = MadeBy(Legacy, Legacy),
                                    !.seed = MadeBy(Legacy, Legacy)]
NoDesign == [schema |-> None, sql |-> None, seed |-> None]

Running == {"route", "gen_schema", "gen_sql", "respond"}
Boundary == {"routed", "schema_made", "sql_made", "responded"}
PC == {"start", "create", "started", "final", "done", "persist", "finally",
       "cleanup_row", "cleanup_log", "closed"} \cup Running \cup Boundary

TypeOK ==
    /\ Registry!TypeOK
    /\ row \in Row /\ cp \in Design
    /\ deleting \in {"no", "log", "over"}
    /\ pc \in [Run -> PC]
    /\ inst \in [Run -> Row] /\ isNew \in [Run -> BOOLEAN] /\ seeded \in [Run -> BOOLEAN]
    /\ intent \in [Run -> Intents \cup {None}]
    /\ mem \in [Run -> Design] /\ final \in [Run -> Design]
    /\ schemaArt \in [Run -> Author \cup {None}]
    /\ sqlArt \in [Run -> Text \cup {None}] /\ seedArt \in [Run -> Text \cup {None}]
    /\ answered \in [Run -> BOOLEAN] /\ produced \in [Run -> BOOLEAN]
    /\ wasCancelled \in [Run -> BOOLEAN]
    /\ request \in [Request -> {"start", "edit", "rename", "variant", "closed"}]
    /\ copy \in [Request -> Row]

(* No project yet, or one that another design of the agent made. *)
Init ==
    /\ Registry!Init
    /\ row \in {NoRow, LegacyRow}
    /\ cp = NoDesign
    /\ deleting = "no"
    /\ pc = [r \in Run |-> "start"]
    /\ inst = [r \in Run |-> NoRow]
    /\ isNew = [r \in Run |-> FALSE]
    /\ seeded = [r \in Run |-> FALSE]
    /\ intent = [r \in Run |-> None]
    /\ mem = [r \in Run |-> NoDesign]
    /\ final = [r \in Run |-> NoDesign]
    /\ schemaArt = [r \in Run |-> None]
    /\ sqlArt = [r \in Run |-> None]
    /\ seedArt = [r \in Run |-> None]
    /\ answered = [r \in Run |-> FALSE]
    /\ produced = [r \in Run |-> FALSE]
    /\ wasCancelled = [r \in Run |-> FALSE]
    /\ request = [q \in Request |-> "start"]
    /\ copy = [q \in Request |-> NoRow]

Goto(r, l) == pc' = [pc EXCEPT ![r] = l]
Or(a, b) == IF a # None THEN a ELSE b   \* Python's "a or b"
Made(r, text) == text # None /\ text.by = r

----------------------------------------------------------------------------
(* SchemaAgentHybrid.post *)

(* Mutant: a run told to stop no longer blocks its thread. *)
RegisterOverSignalled(r) ==
    /\ pc[r] = "start"
    /\ \A s \in Run : inflight[s] = Slug => s \in signalled
    /\ inflight' = [inflight EXCEPT ![r] = Slug]
    /\ Goto(r, "create")
    /\ UNCHANGED <<signalled, row, cp, deleting, locals, page>>

(* register() comes before anything is read. *)
Register(r) ==
    /\ pc[r] = "start"
    /\ Registry!Acquire(r, Slug)
    /\ Goto(r, "create")
    /\ UNCHANGED <<row, cp, deleting, locals, page>>

(* 409 *)
Conflict(r) ==
    /\ pc[r] = "start" /\ Registry!Held(Slug)
    /\ Goto(r, "closed")
    /\ UNCHANGED <<registry, row, cp, deleting, locals, page>>

(* get_or_create; the project's artifacts seed the graph when the          *)
(* checkpoint has no schema, or when it could not be read.                 *)
Create(r) ==
    /\ pc[r] = "create"
    /\ row' = IF row # NoRow THEN row ELSE NewRow(r)
    /\ isNew' = [isNew EXCEPT ![r] = row = NoRow]
    /\ inst' = [inst EXCEPT ![r] = row']
    /\ \E known \in {cp.schema # None} \cup {b \in {FALSE} : "interrupt" \in Faults} :
         seeded' = [seeded EXCEPT ![r] = ~ known /\ row'.schema # None]
    /\ Goto(r, "started")
    /\ UNCHANGED <<registry, cp, deleting, artifacts, outcome, page>>

(* Mutant: the 403 of a foreign slug returns without unregister(). *)
DenyAndKeep(r) ==
    /\ pc[r] = "create"
    /\ Goto(r, "closed")
    /\ UNCHANGED <<registry, row, cp, deleting, locals, page>>

(* Somebody else's project (403), or the ORM raises: unregister, no stream. *)
Deny(r) ==
    /\ pc[r] = "create"
    /\ Registry!Release(r)
    /\ Goto(r, "closed")
    /\ UNCHANGED <<row, cp, deleting, locals, page>>

----------------------------------------------------------------------------
(* The graph.  Its messages carry no tool calls and no artifact, and are   *)
(* left out; summarize and recall touch nothing else.  A node's result is  *)
(* merged into the run's copy and the fields it sets into the checkpoint.  *)

Input(r) ==
    /\ pc[r] = "started"
    /\ cp' = IF seeded[r] THEN [schema |-> inst[r].schema, sql |-> inst[r].sql,
                                seed |-> inst[r].seed]
             ELSE cp
    /\ mem' = [mem EXCEPT ![r] = cp']
    /\ seeded' = [seeded EXCEPT ![r] = FALSE]
    /\ Goto(r, "route")
    /\ UNCHANGED <<registry, row, deleting, inst, isNew, intent, shown, final,
                   outcome, page>>

(* One classification; a router that fails says explain. *)
Route(r) ==
    /\ pc[r] = "route"
    /\ \E i \in Intents : intent' = [intent EXCEPT ![r] = i]
    /\ Goto(r, "routed")
    /\ UNCHANGED <<registry, row, cp, deleting, inst, isNew, seeded, mem, shown, final,
                   outcome, page>>

GenSchema(r) ==
    /\ pc[r] = "gen_schema"
    /\ cp' = [cp EXCEPT !.schema = r]
    /\ mem' = [mem EXCEPT ![r].schema = r]
    /\ Goto(r, "schema_made")
    /\ UNCHANGED <<registry, row, deleting, inst, isNew, seeded, intent, shown, final,
                   outcome, page>>

(* Mutant: SQL is made from the project as it was when the turn began. *)
GenSqlFromProject(r) ==
    /\ pc[r] = "gen_sql" /\ mem[r].schema # None
    /\ LET made == [mem[r] EXCEPT !.sql = MadeBy(r, inst[r].schema),
                                 !.seed = MadeBy(r, inst[r].schema)]
       IN  /\ cp' = [made EXCEPT !.schema = cp.schema]
           /\ mem' = [mem EXCEPT ![r] = made]
    /\ Goto(r, "sql_made")
    /\ UNCHANGED <<registry, row, deleting, inst, isNew, seeded, intent, shown, final,
                   outcome, page>>

(* SQL and seed data for the schema in the run's copy; the generator may   *)
(* return an empty text for either, and the second attempt is kept.        *)
(* Without a schema only an issue is noted.                                *)
GenSql(r) ==
    /\ pc[r] = "gen_sql"
    /\ IF mem[r].schema = None THEN UNCHANGED <<cp, mem>>
       ELSE \E sql, seed \in {MadeBy(r, mem[r].schema), None} :
              /\ cp' = [cp EXCEPT !.sql = sql, !.seed = seed]
              /\ mem' = [mem EXCEPT ![r].sql = sql, ![r].seed = seed]
    /\ Goto(r, "sql_made")
    /\ UNCHANGED <<registry, row, deleting, inst, isNew, seeded, intent, shown, final,
                   outcome, page>>

(* The reply has text or has none. *)
Respond(r) ==
    /\ pc[r] = "respond"
    /\ \E b \in BOOLEAN : answered' = [answered EXCEPT ![r] = b]
    /\ Goto(r, "responded")
    /\ UNCHANGED <<registry, row, cp, deleting, inst, isNew, seeded, artifacts, produced,
                   wasCancelled, page>>

----------------------------------------------------------------------------
(* stream_generator: the body of its loop, once per event *)

NextNode(r) ==
    CASE pc[r] = "routed" -> (CASE intent[r] = "schema" -> "gen_schema"
                                [] intent[r] = "sql" -> "gen_sql"
                                [] OTHER -> "respond")
      [] pc[r] = "schema_made" -> "gen_sql"
      [] pc[r] = "sql_made" -> "respond"
      [] OTHER -> "final"

(* The view keeps the artifacts it passes on to the client, SQL and seed   *)
(* data each when there is a text, and the next node starts.               *)
Pass(r) ==
    /\ pc[r] \in Boundary /\ r \notin signalled
    /\ schemaArt' = IF pc[r] = "schema_made" THEN [schemaArt EXCEPT ![r] = mem[r].schema]
                                             ELSE schemaArt
    /\ sqlArt' = IF pc[r] = "sql_made" /\ Made(r, mem[r].sql)
                   THEN [sqlArt EXCEPT ![r] = mem[r].sql] ELSE sqlArt
    /\ seedArt' = IF pc[r] = "sql_made" /\ Made(r, mem[r].seed)
                    THEN [seedArt EXCEPT ![r] = mem[r].seed] ELSE seedArt
    /\ Goto(r, NextNode(r))
    /\ UNCHANGED <<registry, row, cp, deleting, inst, isNew, seeded, intent, mem, final,
                   outcome, page>>

(* handle.cancel_event.is_set(): the event is dropped; what the nodes      *)
(* committed stays in the checkpoint for the next turn.                    *)
Stop(r) ==
    /\ r \in signalled /\ pc[r] \in Running \cup Boundary
    /\ wasCancelled' = [wasCancelled EXCEPT ![r] = TRUE]
    /\ Goto(r, "finally")
    /\ UNCHANGED <<registry, row, cp, deleting, inst, isNew, seeded, artifacts, answered,
                   produced, page>>

(* get_state, then done if there is text. *)
Final(r) ==
    /\ pc[r] = "final"
    /\ final' = [final EXCEPT ![r] = [schema |-> Or(cp.schema, schemaArt[r]),
                                      sql |-> Or(cp.sql, sqlArt[r]),
                                      seed |-> Or(cp.seed, seedArt[r])]]
    /\ produced' = [produced EXCEPT ![r] = answered[r]]
    /\ Goto(r, IF answered[r] THEN "done" ELSE "finally")
    /\ UNCHANGED <<registry, row, cp, deleting, inst, isNew, seeded, intent, mem, shown,
                   answered, wasCancelled, page>>

(* persist_schema_project gets the row by its id; without one it returns.  *)
(* Nothing is persisted without a schema or SQL of this thread (seed data  *)
(* alone do not count), or when the project has no schema either.          *)
PersistRead(r) ==
    /\ pc[r] = "done"
    /\ Goto(r, IF /\ (final[r].schema # None \/ final[r].sql # None)
                  /\ Or(final[r].schema, inst[r].schema) # None
                  /\ row.id = inst[r].id
                 THEN "persist" ELSE "finally")
    /\ UNCHANGED <<registry, row, cp, deleting, locals, page>>

(* What is saved: each artifact falls back to the project post() read.     *)
Saved(r) == [id |-> inst[r].id, schema |-> Or(final[r].schema, inst[r].schema),
             sql |-> Or(final[r].sql, inst[r].sql),
             seed |-> Or(final[r].seed, inst[r].seed), edited |-> FALSE, variant |-> None]

(* Mutant: the badge is left as it is. *)
PersistKeepFlag(r) ==
    /\ pc[r] = "persist"
    /\ row' = [Saved(r) EXCEPT !.edited = row.edited]
    /\ Goto(r, "finally")
    /\ UNCHANGED <<registry, cp, deleting, locals, page>>

(* save(): possibly after a call of the title model.  A row deleted since  *)
(* it was read is inserted again.  Title, search index and memory are best *)
(* effort and touch no artifact.                                           *)
PersistWrite(r) ==
    /\ pc[r] = "persist"
    /\ row' = Saved(r)
    /\ Goto(r, "finally")
    /\ UNCHANGED <<registry, cp, deleting, locals, page>>

(* A node, the checkpointer or the ORM raises, or the client goes away     *)
(* while the generator is suspended.                                       *)
Interrupt(r) ==
    /\ "interrupt" \in Faults
    /\ pc[r] \in {"started", "final", "done", "persist"} \cup Running \cup Boundary
    /\ Goto(r, "finally")
    /\ UNCHANGED <<registry, row, cp, deleting, locals, page>>

(* The locals of a generator die with it. *)
Forget(r) ==
    /\ inst' = [inst EXCEPT ![r] = NoRow]
    /\ isNew' = [isNew EXCEPT ![r] = FALSE]
    /\ seeded' = [seeded EXCEPT ![r] = FALSE]
    /\ intent' = [intent EXCEPT ![r] = None]
    /\ mem' = [mem EXCEPT ![r] = NoDesign]
    /\ final' = [final EXCEPT ![r] = NoDesign]
    /\ schemaArt' = [schemaArt EXCEPT ![r] = None]
    /\ sqlArt' = [sqlArt EXCEPT ![r] = None]
    /\ seedArt' = [seedArt EXCEPT ![r] = None]
    /\ answered' = [answered EXCEPT ![r] = FALSE]
    /\ produced' = [produced EXCEPT ![r] = FALSE]
    /\ wasCancelled' = [wasCancelled EXCEPT ![r] = FALSE]

(* finally: unregister, then drop a new project without an answer. *)
Leave(r) ==
    /\ pc[r] = "finally"
    /\ Registry!Release(r)
    /\ Goto(r, IF isNew[r] /\ ~ produced[r] /\ ~ wasCancelled[r]
                 THEN "cleanup_row" ELSE "closed")
    /\ Forget(r)
    /\ UNCHANGED <<row, cp, deleting, page>>

CleanupRow(r) ==
    /\ pc[r] = "cleanup_row"
    /\ row' = NoRow
    /\ Goto(r, "cleanup_log")
    /\ UNCHANGED <<registry, cp, deleting, locals, page>>

CleanupLog(r) ==
    /\ pc[r] = "cleanup_log"
    /\ cp' = NoDesign
    /\ Goto(r, "closed")
    /\ UNCHANGED <<registry, row, deleting, locals, page>>

----------------------------------------------------------------------------
(* The cancel endpoint *)
Cancel(r) ==
    /\ r \notin signalled
    /\ Registry!Signal(r)
    /\ UNCHANGED <<row, cp, deleting, pc, locals, page>>

(* The project page: a request reads the row (a dialect switch is over     *)
(* when the variant is there, or raises on a text that is missing) ...     *)
Read(q) ==
    /\ request[q] = "start" /\ row # NoRow
    /\ \E what \in {"edit", "rename", "variant"} :
         LET now == IF /\ what = "variant"
                       /\ row.variant # None \/ row.sql = None \/ row.seed = None
                      THEN "closed" ELSE what
         IN  /\ request' = [request EXCEPT ![q] = now]
             /\ copy' = [copy EXCEPT ![q] = IF now = "closed" THEN NoRow ELSE row]
    /\ UNCHANGED <<registry, row, cp, deleting, pc, locals>>

(* save() of an object whose row was deleted inserts it again; when the    *)
(* slug is taken by a new row, that raises.                                *)
Save(q, new) ==
    /\ row' = IF row.id \in {None, copy[q].id} THEN new ELSE row
    /\ request' = [request EXCEPT ![q] = "closed"]
    /\ copy' = [copy EXCEPT ![q] = NoRow]
    /\ UNCHANGED <<registry, cp, deleting, pc, locals>>

(* ... PATCH of sql_table, sql_seed_data or both writes it back with the   *)
(* edit, the flag set and the variants cleared (the texts of a user are    *)
(* not empty here) ...                                                     *)
Edit(q) ==
    /\ request[q] = "edit"
    /\ \E fields \in (SUBSET {"sql", "seed"}) \ {{}} :
         LET text(f) == IF f \in fields THEN MadeBy(q, None) ELSE copy[q][f]
         IN  Save(q, [copy[q] EXCEPT !.sql = text("sql"), !.seed = text("seed"),
                                     !.edited = TRUE, !.variant = None])

(* ... PATCH of name, description or is_starred writes it back whole ...   *)
Rename(q) ==
    /\ request[q] = "rename"
    /\ Save(q, copy[q])

(* ... and a dialect switch transpiles the SQL and the seed data it read   *)
(* and saves only the variants (save_variant), which raises when the row   *)
(* is gone.                                                                *)
SaveVariant(q) ==
    /\ request[q] = "variant"
    /\ Save(q, IF row.id = copy[q].id
                 THEN [row EXCEPT !.variant = [sql |-> copy[q].sql, seed |-> copy[q].seed]]
                 ELSE row)

(* SchemaProjectDetailView.perform_destroy: the row, then the checkpoint. *)
DeleteRow ==
    /\ "delete" \in Faults /\ deleting = "no" /\ row # NoRow
    /\ row' = NoRow
    /\ deleting' = "log"
    /\ UNCHANGED <<registry, cp, pc, locals, page>>

DeleteLog ==
    /\ deleting = "log"
    /\ cp' = NoDesign
    /\ deleting' = "over"
    /\ UNCHANGED <<registry, row, pc, locals, page>>

Quiet ==
    /\ \A r \in Run : pc[r] = "closed"
    /\ \A q \in Request : request[q] = "closed" \/ (request[q] = "start" /\ row = NoRow)
    /\ deleting # "log"
    /\ UNCHANGED vars

----------------------------------------------------------------------------

Step(r) ==
    \/ Create(r) \/ Input(r) \/ Route(r) \/ GenSchema(r) \/ GenSql(r)
    \/ Respond(r) \/ Pass(r) \/ Stop(r) \/ Final(r) \/ PersistRead(r) \/ PersistWrite(r)
    \/ Leave(r) \/ CleanupRow(r) \/ CleanupLog(r)

Next ==
    \/ \E r \in Run : \/ Register(r) \/ Conflict(r) \/ Deny(r) \/ Step(r)
                      \/ Interrupt(r) \/ Cancel(r)
    \/ \E q \in Request : Read(q) \/ Edit(q) \/ Rename(q) \/ SaveVariant(q)
    \/ DeleteRow \/ DeleteLog
    \/ Quiet

Spec == Init /\ [][Next]_vars

(* A registered turn is executed to its end, as in SqlChat; it is enough   *)
(* that the server goes on with one of the turns that can go on.           *)
Fairness == WF_vars(\E r \in Run : Step(r))

----------------------------------------------------------------------------
(* What holds *)

(* A turn that has answered saves every artifact it has shown its client,  *)
(* although they are read back from the checkpoint, by a second query and  *)
(* perhaps after an LLM call, while other turns start and stop, a cleanup  *)
(* empties the checkpoint or the project is deleted (stream_generator      *)
(* lines 230 to 265, tasks.py line 20).  There are two ways to lose them,  *)
(* both of them the work of another request: the project that post() read  *)
(* is gone, or the schema, of an earlier turn, has gone from the           *)
(* checkpoint, and this turn made seed data alone or the project never had *)
(* the schema.                                                             *)
Shows(r) == schemaArt[r] # None \/ sqlArt[r] # None \/ seedArt[r] # None
SchemaGone(r) ==
    /\ schemaArt[r] = None /\ mem[r].schema # None /\ final[r].schema = None
    /\ sqlArt[r] = None \/ inst[r].schema = None
ShownIsPersisted ==
    [][\A r \in Run :
         /\ PersistRead(r) /\ Shows(r) =>
              pc'[r] = "persist" \/ row.id # inst[r].id \/ SchemaGone(r)
         /\ PersistWrite(r) =>
              /\ schemaArt[r] # None => row'.schema = schemaArt[r]
              /\ sqlArt[r] # None => row'.sql = sqlArt[r]
              /\ seedArt[r] # None => row'.seed = seedArt[r]]_vars

(* "A changed schema needs matching SQL": when a turn that made SQL is     *)
(* persisted, SQL and schema of the project match, whichever turn made the *)
(* schema, and so do seed data it made.  (Not once a delete or a cleanup   *)
(* has emptied the checkpoint.)                                            *)
SqlMatchesSchema ==
    [][\A r \in Run : PersistWrite(r) /\ cp.schema # None =>
         /\ sqlArt[r] # None => row'.sql.from = row'.schema
         /\ seedArt[r] # None => row'.seed.from = row'.schema]_vars

(* The badge is never shown beside SQL and seed data that the agent wrote  *)
(* (tasks.py lines 24-32 against serializers.update), whatever stale rows  *)
(* the page writes back.                                                   *)
ByUser(text) == text # None /\ text.by \in Request
EditedIsManual == row.edited => ByUser(row.sql) \/ ByUser(row.seed)

(* No project stays locked: every path out of post() and of the stream     *)
(* unregisters.                                                            *)
EveryRunLeaves == \A r \in Run : inflight[r] # None ~> inflight[r] = None

----------------------------------------------------------------------------
(* The inductive invariant *)

Serving == {"create", "started", "final", "done", "persist", "finally"} \cup Running \cup Boundary
HoldsCopy == {"final", "done", "persist"} \cup Running \cup Boundary
SqlOver == {"respond", "responded", "final", "done", "persist", "finally"}

(* A run that is served holds the slug, alone. *)
HoldsSlug ==
    /\ Registry!Exclusive
    /\ \A r \in Run : pc[r] \in Serving => inflight[r] = Slug

(* Artifacts of the checkpoint are those of the copy, or were deleted.     *)
CopyFits ==
    \A r \in Run : pc[r] \in HoldsCopy =>
        /\ cp.schema \in {mem[r].schema, None}
        /\ cp.sql \in {mem[r].sql, None} /\ cp.seed \in {mem[r].seed, None}

(* What was shown is what the copy has, and a text that was shown is made  *)
(* from the schema beside it.                                              *)
TextFits(r, art, text) ==
    /\ art # None =>
         /\ pc[r] \in SqlOver
         /\ art = text /\ art.by = r /\ art.from = mem[r].schema /\ mem[r].schema # None
    /\ pc[r] = "sql_made" /\ Made(r, text) =>
         text.from = mem[r].schema /\ mem[r].schema # None

ShownFits ==
    \A r \in Run :
        /\ schemaArt[r] # None =>
             pc[r] \in {"gen_sql", "sql_made"} \cup SqlOver /\ schemaArt[r] = mem[r].schema
        /\ TextFits(r, sqlArt[r], mem[r].sql) /\ TextFits(r, seedArt[r], mem[r].seed)

(* Nobody has a text of a run that has not made any. *)
NotBy(r, object) == ~ Made(r, object.sql) /\ ~ Made(r, object.seed)
Unwritten ==
    \A r \in Run : pc[r] \notin {"sql_made", "cleanup_row", "cleanup_log", "closed"} \cup SqlOver =>
        /\ NotBy(r, cp) /\ NotBy(r, row)
        /\ \A s \in Run : /\ NotBy(r, mem[s]) /\ NotBy(r, inst[s]) /\ NotBy(r, final[s])
                          /\ ~ Made(r, sqlArt[s]) /\ ~ Made(r, seedArt[s])
        /\ \A q \in Request : NotBy(r, copy[q])

(* What will be persisted is what was shown. *)
FinalFits ==
    \A r \in Run : pc[r] \in {"done", "persist"} =>
        /\ schemaArt[r] # None => final[r].schema = schemaArt[r]
        /\ sqlArt[r] # None => final[r].sql = sqlArt[r]
        /\ seedArt[r] # None => final[r].seed = seedArt[r]
        /\ cp.schema # None => final[r].schema = mem[r].schema

Manual(object) == object.edited => ByUser(object.sql) \/ ByUser(object.seed)

IInv ==
    /\ TypeOK /\ HoldsSlug /\ CopyFits /\ ShownFits /\ Unwritten /\ FinalFits
    /\ Manual(row) /\ \A q \in Request : Manual(copy[q])

----------------------------------------------------------------------------
(* What the documentation says and the code does not keep *)

(* The router's "explain" is "no artifact change"                          *)
(* (schema_graph_hybrid.py): such a turn leaves the three artifacts alone. *)
ExplainChangesNothing ==
    [][\A r \in Run : PersistWrite(r) /\ intent[r] = "explain" =>
         row'.schema = row.schema /\ row'.sql = row.sql /\ row'.seed = row.seed]_vars

(* tasks.py:28 and serializers.py:294, variants made from earlier SQL are  *)
(* "stale" and "must be cleared": a variant is of the SQL it stands by.    *)
VariantMatchesSql == row.variant # None => row.variant = [sql |-> row.sql, seed |-> row.seed]
=============================================================================
