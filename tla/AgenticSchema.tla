--------------------------- MODULE AgenticSchema ---------------------------
(***************************************************************************)
(* The agentic variant of the schema agent (schema_agent, schema_graph):   *)
(* an LLM with four tools designs the schema, where the hybrid agent of    *)
(* SchemaStudio follows a plan.  Turns of one project, which no registry   *)
(* keeps apart: each reads the project, streams the artifacts its tools    *)
(* return, saves the last of each kind, and cleans up when it created the  *)
(* project and was not answered.                                           *)
(*                                                                         *)
(* An artifact is [by, n]: made in round n of turn by.  Whether it passes  *)
(* validation is the matter of SchemaChecks and decides nothing here: an   *)
(* artifact is shown and kept with its issues.  A message of the LLM calls *)
(* one tool; its text is present or not.                                   *)
(***************************************************************************)
EXTENDS Naturals

CONSTANTS
    AgTurn,    \* turns, each used once
    MaxRounds, \* bound: tool calls of a turn (25 super-steps in LangGraph)
    NoArt,     \* no artifact, no project
    OldArt     \* what the turns before these left

ASSUME AgAssumption == MaxRounds \in Nat

VARIABLES
    project, \* the row of the project, or NoArt
    said,    \* does the thread have a checkpoint?
    gpc,     \* gpc[r]: the next step of turn r
    gloc,    \* gloc[r]: the locals of its generator
    apart    \* turns since whose start no other has taken a step

agVars == <<project, said, gpc, gloc, apart>>

Artifact == [by : AgTurn, n : 1..MaxRounds] \cup {OldArt}
Project == [id : AgTurn \cup {OldArt}, schema : Artifact \cup {NoArt}, sql : Artifact \cup {NoArt}]
NoGLocal == [new |-> FALSE, project |-> NoArt, round |-> 0, text |-> FALSE,
             produced |-> FALSE, schema |-> NoArt, sql |-> NoArt]

GGoto(r, label) == gpc' = [gpc EXCEPT ![r] = label]
OrElse(art, default) == IF art = NoArt THEN default ELSE art

-----------------------------------------------------------------------------
\* SchemaAgent.post: get_or_create by slug, before the stream begins.
GPost(r) ==
    /\ gpc[r] = "idle"
    /\ project' = IF project = NoArt THEN [id |-> r, schema |-> NoArt, sql |-> NoArt] ELSE project
    /\ gloc' = [gloc EXCEPT ![r].new = project = NoArt, ![r].project = project']
    /\ GGoto(r, "summarize")
    /\ UNCHANGED said

\* The question is written to the checkpoint; summarize_conversation may
\* replace earlier turns by a summary, and memories are recalled.
GSummarize(r) ==
    /\ gpc[r] = "summarize"
    /\ said' = TRUE
    /\ GGoto(r, "agent")
    /\ UNCHANGED <<project, gloc>>

\* call_agent: text, a tool call, both, or neither; the text of every message
\* is streamed.  The two validation tools return no artifact.
GAgent(r) ==
    /\ gpc[r] = "agent"
    /\ \E next \in {"agent", "schema", "sql", "final"}, text \in BOOLEAN :
        /\ next # "final" => gloc[r].round < MaxRounds
        /\ gloc' = [gloc EXCEPT ![r].text = @ \/ text,
                                ![r].round = IF next = "final" THEN @ ELSE @ + 1]
        /\ GGoto(r, next)
    /\ said' = TRUE
    /\ UNCHANGED project

Made(r) == [by |-> r, n |-> gloc[r].round]

\* generate_schema: shown and kept, valid or not; arguments that the tool does
\* not take come back to the LLM as a text.
GenerateSchemaTool(r) ==
    /\ gpc[r] = "schema"
    /\ gloc' \in {[gloc EXCEPT ![r].schema = Made(r)], gloc}
    /\ said' = TRUE
    /\ GGoto(r, "agent")
    /\ UNCHANGED project

\* generate_sql: for a schema with issues or ill-formed JSON only issues;
\* otherwise SQL, valid or not, or an empty text, which is not shown.
GenerateSqlTool(r) ==
    /\ gpc[r] = "sql"
    /\ gloc' \in {[gloc EXCEPT ![r].sql = Made(r)], gloc}
    /\ said' = TRUE
    /\ GGoto(r, "agent")
    /\ UNCHANGED project

\* done: with the streamed text, or else the last message of the checkpoint,
\* which may be that of another turn.
GFinal(r) ==
    /\ gpc[r] = "final"
    /\ \E other \in IF r \in apart THEN {FALSE} ELSE BOOLEAN :
        gloc' = [gloc EXCEPT ![r].produced = @ \/ gloc[r].text \/ other]
    /\ GGoto(r, "persist")
    /\ UNCHANGED <<project, said>>

\* The condition before persist_schema_project, and its get().
GPersistGet(r) ==
    LET l == gloc[r]
        save == /\ l.produced /\ (l.schema # NoArt \/ l.sql # NoArt)
                /\ OrElse(l.schema, l.project.schema) # NoArt
                /\ project # NoArt /\ project.id = l.project.id
    IN
    /\ gpc[r] = "persist"
    /\ GGoto(r, IF save THEN "save" ELSE "finally")
    /\ UNCHANGED <<project, said, gloc>>

(* Mutant: no fallback. *)
SavedBare(l) == [id |-> l.project.id, schema |-> OrElse(l.schema, l.project.schema), sql |-> l.sql]

\* What is saved: missing artifacts fall back to the project that post() read.
Saved(l) == [id |-> l.project.id, schema |-> OrElse(l.schema, l.project.schema),
             sql |-> OrElse(l.sql, l.project.sql)]

\* save(): a row that has been deleted is inserted again.  Title, index and
\* memory follow, best effort; they touch no artifact.
GPersistSave(r) ==
    /\ gpc[r] = "save"
    /\ project' = Saved(gloc[r])
    /\ GGoto(r, "finally")
    /\ UNCHANGED <<said, gloc>>

\* A node or a tool raises, or the client goes away.
GInterrupt(r) ==
    /\ gpc[r] \in {"summarize", "agent", "schema", "sql", "final", "persist", "save"}
    /\ GGoto(r, "finally")
    /\ UNCHANGED <<project, said, gloc>>

\* finally: a new project without a response goes, by its slug; then its
\* checkpoint.  That the cleanup itself raises is left out.
GFinally(r) ==
    /\ gpc[r] = "finally"
    /\ IF gloc[r].new /\ ~gloc[r].produced
         THEN project' = NoArt /\ GGoto(r, "thread")
         ELSE UNCHANGED project /\ GGoto(r, "done")
    /\ gloc' = IF gpc'[r] = "done" THEN [gloc EXCEPT ![r] = NoGLocal] ELSE gloc
    /\ UNCHANGED said

GDeleteThread(r) ==
    /\ gpc[r] = "thread"
    /\ said' = FALSE
    /\ gloc' = [gloc EXCEPT ![r] = NoGLocal]
    /\ GGoto(r, "done")
    /\ UNCHANGED project

-----------------------------------------------------------------------------
\* No project, or one that answered turns have left: SQL is saved with a schema.
AgInit ==
    /\ project \in {NoArt} \cup [id : {OldArt}, schema : {NoArt, OldArt}, sql : {NoArt, OldArt}]
    /\ project # NoArt /\ project.schema = NoArt => project.sql = NoArt
    /\ said = (project # NoArt)
    /\ gpc = [r \in AgTurn |-> "idle"]
    /\ gloc = [r \in AgTurn |-> NoGLocal]
    /\ apart = {}

AgStep(r) ==
    \/ GPost(r) \/ GSummarize(r) \/ GAgent(r) \/ GenerateSchemaTool(r) \/ GenerateSqlTool(r)
    \/ GFinal(r) \/ GPersistGet(r) \/ GPersistSave(r) \/ GInterrupt(r)
    \/ GFinally(r) \/ GDeleteThread(r)

AgOver == \A r \in AgTurn : gpc[r] = "done"
AgNext ==
    \/ \E r \in AgTurn :
        AgStep(r) /\ apart' = (apart \cap {r}) \cup (IF gpc[r] = "idle" THEN {r} ELSE {})
    \/ AgOver /\ UNCHANGED agVars

AgSpec == AgInit /\ [][AgNext]_agVars

-----------------------------------------------------------------------------
AgTypeOK ==
    /\ project \in Project \cup {NoArt}
    /\ said \in BOOLEAN
    /\ gpc \in [AgTurn -> {"idle", "summarize", "agent", "schema", "sql", "final", "persist", "save",
                           "finally", "thread", "done"}]
    /\ gloc \in [AgTurn -> [new : BOOLEAN, project : Project \cup {NoArt}, round : 0..MaxRounds, text : BOOLEAN, produced : BOOLEAN,
                            schema : Artifact \cup {NoArt}, sql : Artifact \cup {NoArt}]]
    /\ apart \subseteq AgTurn

\* "A schema-only or SQL-only turn never wipes the other" (schema_agent): a
\* turn that no other met ends with the project as it was or with what it
\* showed in place of that and only of that, and if it was not answered as it
\* was, without project and messages when there was none.
TurnIsAllOrNothing ==
    [][\A r \in apart :
           /\ gpc[r] # "done" /\ gpc'[r] = "done"
           => LET l == gloc[r] IN
              IF l.new /\ ~l.produced THEN project' = NoArt /\ said' = FALSE
              ELSE project' = l.project \/
                   /\ l.produced
                   /\ IF l.schema # NoArt THEN project'.schema = l.schema
                                           ELSE project'.schema = l.project.schema
                   /\ IF l.sql # NoArt THEN project'.sql = l.sql
                                        ELSE project'.sql = l.project.sql]_agVars

-----------------------------------------------------------------------------
\* The inductive invariant behind TurnIsAllOrNothing.

\* An artifact is made in a round, and a turn that saves has a schema to save.
Ready(pc, l) ==
    /\ pc \notin {"idle", "done"} => l.project \in Project
    /\ pc \in {"schema", "sql"} => l.round > 0
    /\ pc = "save" => l.produced /\ Saved(l).schema # NoArt

\* A turn that no other met knows the project, until it saves or cleans up.
Alone(pc, l) ==
    /\ pc \in {"summarize", "agent", "schema", "sql", "final", "persist", "save"} => project = l.project
    /\ pc = "finally" => project = l.project \/ (l.produced /\ project = Saved(l))
    /\ pc = "thread" => project = NoArt /\ l.new /\ ~l.produced

\* SQL is never there without a schema, also when turns overwrite each other.
SqlHasSchema(p) == p # NoArt /\ p.schema = NoArt => p.sql = NoArt

AgIInv ==
    /\ AgTypeOK
    /\ \A r \in AgTurn : Ready(gpc[r], gloc[r])
    /\ \A r \in apart : Alone(gpc[r], gloc[r])
    /\ SqlHasSchema(project)
    /\ \A r \in AgTurn : gpc[r] # "idle" => SqlHasSchema(gloc[r].project)
=============================================================================
