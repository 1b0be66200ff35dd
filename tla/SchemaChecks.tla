---------------------------- MODULE SchemaChecks ----------------------------
(***************************************************************************)
(* Validation of what the schema agent designs: validate_schema_payload,   *)
(* a pass over tables and columns with sets of what it has seen, and the   *)
(* nodes of the hybrid graph that call it, try once more, and report what  *)
(* is still wrong (validation_issues) in the state of the thread.          *)
(*                                                                         *)
(* The SQL that is made from a schema is validated by text alone           *)
(* (validate_sql_payload): a search for unsafe words, a parser, and the    *)
(* first word of what is left after splitting at semicolons.               *)
(*                                                                         *)
(* An issue is a tuple whose first element says what is wrong.  An         *)
(* artifact of the graph is a serial number; 0 is none.                    *)
(***************************************************************************)
EXTENDS Naturals, Sequences, SequencesExt

CONSTANTS
    SchemaTable,  \* the tables that a schema may consist of
    MaxTables,    \* bound: tables of a schema
    MaxStatements,\* bound: statements of a script
    MaxArtifacts  \* bound: artifacts generated in a thread

\* A table as the generator's schema has it; a foreign key is <<column, table, column>>.
ColumnType == [name : STRING, pk : BOOLEAN, nullable : BOOLEAN, typed : BOOLEAN]
TableType == [name : STRING, columns : Seq(ColumnType),
              fks : SUBSET (STRING \X STRING \X STRING), indexed : SUBSET STRING]

\* Room for the artifacts that the project of a thread may bring along.
ASSUME CheckAssumption ==
    /\ SchemaTable \subseteq TableType /\ {MaxTables, MaxStatements} \subseteq Nat
    /\ MaxArtifacts \in Nat /\ MaxArtifacts >= 2

VARIABLES
    design,      \* a schema as the generator returned it: a sequence of tables
    script,      \* SQL as the generator returned it: statements of ddl and seed
    schemaNow,   \* the artifacts in the state of the thread, ...
    sqlNow,
    made,        \* ... the last serial number, ...
    flawed,      \* ... those that failed validation twice, ...
    reported,    \* ... and validation_issues, by artifact
    node         \* the next node of a turn

checkVars == <<schemaNow, sqlNow, made, flawed, reported, node>>

Ident == {"id", "other", "a", "b"}  \* names that match _IDENT_RE; "Bad" does not

-----------------------------------------------------------------------------
\* One column of a table: the issues, the names seen and whether there is a key.
CheckColumn(table, acc, c) ==
    [issues |-> acc.issues
        \cup {<<"name", table.name, n>> : n \in {c.name} \ Ident}
        \cup {<<"duplicate", table.name, n>> : n \in {c.name} \cap acc.seen}
        \cup {<<"nullable key", table.name, n>> : n \in IF c.pk /\ c.nullable THEN {c.name} ELSE {}}
        \cup {<<"type", table.name, n>> : n \in IF c.typed THEN {} ELSE {c.name}},
     seen |-> acc.seen \cup {c.name},
     pk |-> acc.pk \/ c.pk]

NoColumns == [issues |-> {}, seen |-> {}, pk |-> FALSE]
CheckColumns(table) ==
    LET Check(acc, c) == CheckColumn(table, acc, c) IN FoldLeft(Check, NoColumns, table.columns)

\* First loop: names, and the columns of each table under its name.
CheckTable(acc, t) ==
    LET cols == CheckColumns(t) IN
    [issues |-> acc.issues \cup cols.issues
        \cup {<<"table name", n>> : n \in {t.name} \ Ident}
        \cup {<<"duplicate table", n>> : n \in {t.name} \cap DOMAIN acc.columns}
        \cup (IF t.columns = <<>> THEN {<<"no columns", t.name>>}
              ELSE IF ~cols.pk THEN {<<"no key", t.name>>} ELSE {}),
     columns |-> [n \in DOMAIN acc.columns \cup {t.name} |->
                    IF n = t.name THEN cols.seen ELSE acc.columns[n]]]

NoTables == [issues |-> {}, columns |-> [n \in {} |-> {}]]
CheckTables(tables) == FoldLeft(CheckTable, NoTables, tables)

(* Mutant: a foreign key to a table that is not there is passed over. *)
CheckKeysLenient(tables, columns) ==
    UNION {
        {<<"local column", tables[i].name, fk[1]>> :
            fk \in {f \in tables[i].fks : f[1] \notin columns[tables[i].name]}}
        \cup {<<"missing column", tables[i].name, fk[3]>> :
            fk \in {f \in tables[i].fks : f[2] \in DOMAIN columns /\ f[3] \notin columns[f[2]]}}
        \cup {<<"index", tables[i].name, c>> : c \in tables[i].indexed \ columns[tables[i].name]}
        : i \in DOMAIN tables}

\* Second loop: foreign keys <<column, table, column>> and indexed columns.
CheckKeys(tables, columns) ==
    UNION {
        {<<"local column", tables[i].name, fk[1]>> :
            fk \in {f \in tables[i].fks : f[1] \notin columns[tables[i].name]}}
        \cup {<<"missing table", tables[i].name, fk[2]>> :
            fk \in {f \in tables[i].fks : f[2] \notin DOMAIN columns}}
        \cup {<<"missing column", tables[i].name, fk[3]>> :
            fk \in {f \in tables[i].fks : f[2] \in DOMAIN columns /\ f[3] \notin columns[f[2]]}}
        \cup {<<"index", tables[i].name, c>> : c \in tables[i].indexed \ columns[tables[i].name]}
        : i \in DOMAIN tables}

ValidateSchema(tables) ==
    IF tables = <<>> THEN {<<"no tables">>}
    ELSE LET first == CheckTables(tables) IN first.issues \cup CheckKeys(tables, first.columns)

-----------------------------------------------------------------------------
(* A statement is what splitting at semicolons makes of it (the first word *)
(* of each piece), whether an unsafe word occurs in it, and whether it     *)
(* parses.  A semicolon in a literal and a comment in front are plain SQL. *)
Statement(pieces, unsafe, parses) == [pieces |-> pieces, unsafe |-> unsafe, parses |-> parses]
CreateTable == Statement(<<"CREATE">>, FALSE, TRUE)
InsertRow == Statement(<<"INSERT">>, FALSE, TRUE)
SqlStatements == {
    CreateTable, InsertRow,
    Statement(<<"INSERT", "text">>, FALSE, TRUE),  \* VALUES ('a; text')
    Statement(<<"comment">>, FALSE, TRUE),         \* a comment, then CREATE
    Statement(<<"CREATE">>, TRUE, TRUE),           \* a column named after a keyword
    Statement(<<"DROP">>, TRUE, TRUE),
    Statement(<<"CREATE">>, FALSE, FALSE)}         \* not SQL of the dialect

\* _first_sql_keyword of the pieces, one by one: not what the script is for.
Foreign(statements, word) ==
    \E i \in DOMAIN statements : \E j \in DOMAIN statements[i].pieces : statements[i].pieces[j] # word

\* The issues of one script.  sqlglot parses all of it or raises.
ScriptIssues(kind, statements, word) ==
    LET parsed == \A i \in DOMAIN statements : statements[i].parses IN
    {<<what, kind>> : what \in
        (IF \E i \in DOMAIN statements : statements[i].unsafe THEN {"unsafe"} ELSE {})
        \cup (IF parsed THEN {} ELSE {"parse", "no statements"})
        \cup (IF Foreign(statements, word) THEN {"only " \o word} ELSE {})}

\* No DDL is one issue and the end of it; seed data is looked at if there is any.
ValidateSql(ddl, seed) ==
    IF ddl = <<>> THEN {<<"empty">>}
    ELSE ScriptIssues("ddl", ddl, "CREATE")
         \cup (IF seed = <<>> THEN {} ELSE ScriptIssues("seed", seed, "INSERT"))

NoScript == [ddl |-> <<>>, seed |-> <<>>]
\* Whatever the generators return, and their results are asked about.
DesignInit ==
    /\ design \in UNION {[1..n -> SchemaTable] : n \in 0..MaxTables}
    /\ script = NoScript
ScriptInit ==
    LET statements == UNION {[1..n -> SqlStatements] : n \in 0..MaxStatements} IN
    /\ design = <<>>
    /\ script \in [ddl : statements, seed : statements]

-----------------------------------------------------------------------------
(* The nodes.  Each generates, validates, and generates once more when     *)
(* there were issues; the second attempt is kept whatever it is like.      *)

Attempts(ok) == made + (IF ok = "first" THEN 1 ELSE 2)
Outcomes == {"first", "second", "neither"} \* the attempt that was valid

Keep(ok) ==
    /\ made' = Attempts(ok)
    /\ flawed' = IF ok = "neither" THEN flawed \cup {made'} ELSE flawed

\* The router chooses, or fails and means "respond"; a turn may be cancelled
\* between two nodes.
RouteTurn ==
    /\ node = "route"
    /\ node' \in IF made + 4 <= MaxArtifacts THEN {"gen_schema", "gen_sql", "respond"} ELSE {"respond"}
    /\ UNCHANGED <<schemaNow, sqlNow, made, flawed, reported>>

(* Mutant: the issues of the first attempt are kept when the second is valid. *)
GenerateSchemaFirstIssues ==
    /\ node = "gen_schema"
    /\ \E ok \in Outcomes : Keep(ok) /\ reported' = IF ok = "first" THEN {} ELSE {made'}
    /\ schemaNow' = made'
    /\ node' \in {"gen_sql", "route"}
    /\ UNCHANGED sqlNow

\* generate_schema_node starts a new list of issues.
GenerateSchema ==
    /\ node = "gen_schema"
    /\ \E ok \in Outcomes : Keep(ok)
    /\ schemaNow' = made'
    /\ reported' = {made'} \cap flawed'
    /\ node' \in {"gen_sql", "route"}
    /\ UNCHANGED sqlNow

(* Mutant: the list of issues starts anew. *)
GenerateSqlAnew ==
    /\ node = "gen_sql"
    /\ IF schemaNow = 0
         THEN reported' = {0} /\ UNCHANGED <<sqlNow, made, flawed>>
         ELSE /\ \E ok \in Outcomes : Keep(ok)
              /\ sqlNow' = made'
              /\ reported' = {made'} \cap flawed'
    /\ node' \in {"respond", "route"}
    /\ UNCHANGED schemaNow

\* generate_sql_node adds to the list, which is all it does without a schema.
GenerateSql ==
    /\ node = "gen_sql"
    /\ IF schemaNow = 0
         THEN reported' = reported \cup {0} /\ UNCHANGED <<sqlNow, made, flawed>>
         ELSE /\ \E ok \in Outcomes : Keep(ok)
              /\ sqlNow' = made'
              /\ reported' = reported \cup ({made'} \cap flawed')
    /\ node' \in {"respond", "route"}
    /\ UNCHANGED schemaNow

\* respond_node tells the LLM which issues are outstanding; the turn ends.
RespondNode ==
    /\ node = "respond"
    /\ node' = "route"
    /\ UNCHANGED <<schemaNow, sqlNow, made, flawed, reported>>

\* A generator raises, or the turn is cut off at it: nothing is written.
NodeFails ==
    /\ node \in {"gen_schema", "gen_sql"}
    /\ node' = "route"
    /\ UNCHANGED <<schemaNow, sqlNow, made, flawed, reported>>

\* A new thread, or one whose artifacts were seeded from its project.
CheckInit ==
    /\ schemaNow \in 0..1 /\ sqlNow \in {0, 2 * schemaNow}
    /\ made = schemaNow + sqlNow \div 2
    /\ flawed = {} /\ reported = {}
    /\ node = "route"

CheckNext == RouteTurn \/ GenerateSchema \/ GenerateSql \/ RespondNode \/ NodeFails

CheckSpec == CheckInit /\ [][CheckNext]_checkVars

-----------------------------------------------------------------------------
CheckTypeOK ==
    /\ {schemaNow, sqlNow} \subseteq 0..made /\ made \in 0..MaxArtifacts
    /\ flawed \subseteq 1..made /\ reported \subseteq flawed \cup {0}
    /\ node \in {"route", "gen_schema", "gen_sql", "respond"}

\* What "Empty list means valid" (validate_schema_payload) should mean.
Names(seq) == {seq[i].name : i \in DOMAIN seq}
NoRepeats(seq) == \A i, j \in DOMAIN seq : seq[i].name = seq[j].name => i = j
ColumnsOf(tables, name) == UNION {Names(tables[i].columns) : i \in {k \in DOMAIN tables : tables[k].name = name}}
WellFormed(tables) ==
    /\ tables # <<>> /\ NoRepeats(tables) /\ Names(tables) \subseteq Ident
    /\ \A i \in DOMAIN tables :
        LET t == tables[i] IN
        /\ NoRepeats(t.columns) /\ Names(t.columns) \subseteq Ident
        /\ \E c \in DOMAIN t.columns : t.columns[c].pk
        /\ \A c \in DOMAIN t.columns :
            t.columns[c].typed /\ (t.columns[c].pk => ~t.columns[c].nullable)
        /\ t.indexed \subseteq Names(t.columns)
        /\ \A fk \in t.fks : fk[1] \in Names(t.columns) /\ fk[3] \in ColumnsOf(tables, fk[2])

\* Plain CREATE and INSERT statements, nothing before them or between them.
WellWritten(sql) ==
    /\ sql.ddl # <<>>
    /\ ToSet(sql.ddl) \subseteq {CreateTable}
    /\ ToSet(sql.seed) \subseteq {InsertRow}

\* The passes with their sets of seen names find an issue exactly in schemas
\* that are not well-formed, whatever the order of tables and columns; and the
\* tests on SQL text one in every script that is more than plain statements
\* (also a harmless literal or comment: the retry that follows is for nothing).
IssuesMatchReference ==
    /\ (ValidateSchema(design) = {}) = WellFormed(design)
    /\ (ValidateSql(script.ddl, script.seed) = {}) = WellWritten(script)

\* No flaw of what the thread shows is kept from the user: an artifact that
\* failed validation twice is among the reported issues, over any sequence of
\* turns and cancels, as long as the SQL shown belongs to the schema shown.
NoIssueHidden ==
    /\ schemaNow \in flawed => schemaNow \in reported
    /\ sqlNow \in flawed /\ sqlNow > schemaNow => sqlNow \in reported

\* Inductive: there is room for what a node may yet generate, and every flaw
\* of an artifact in the state is reported, or the SQL is older than the schema.
CheckIInv ==
    /\ CheckTypeOK /\ NoIssueHidden
    /\ node = "gen_schema" => made + 4 <= MaxArtifacts
    /\ node = "gen_sql" => made + 2 <= MaxArtifacts
=============================================================================
