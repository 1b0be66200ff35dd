------------------------- MODULE ConnectionCatalog -------------------------
(***************************************************************************)
(* The database connections of a user: what services/connection.py stores  *)
(* when a connection is created, imported, updated, refreshed, restored or *)
(* deleted, and which tables the agent is offered when it opens one.       *)
(*                                                                         *)
(* A database object is a pair <<schema, name>>; some are views.  A schema *)
(* may be there without any object.  Options say which schemas and objects *)
(* the user has enabled, for those that existed when the database was last *)
(* read.                                                                   *)
(***************************************************************************)
EXTENDS Naturals, FiniteSets

CONSTANTS
    Object,         \* the objects that the database may contain
    View,           \* those that are views
    DefaultSchema,  \* the schema an engine looks at when told none
    ConnId,         \* ids for Connection rows
    ConnRequest,    \* requests of the connections page, each used once
    NoConn

\* Objects are pairs, and there is an end to the requests.
ASSUME CatAssumption == (\A o \in Object : o = <<o[1], o[2]>>) /\ IsFiniteSet(ConnRequest)

LocalDsn == "localhost"   \* a DSN as typed
Docker == "docker"     \* what the fallback makes of it: host.docker.internal
Sample == "sample"     \* a SQLite file of settings.SAMPLE_DBS
Upload == "upload"     \* a SQLite file made from an upload
Dsn == {LocalDsn, Docker, Sample, Upload}

VARIABLES
    namespaces, \* the schemas of the database
    objects,    \* and the objects in them
    conn,    \* conn[k]: a Connection row, or NoConn
    files,   \* number of SQLite files in DATA_DIR
    cpc,     \* cpc[q]: the next step of request q
    cloc,    \* cloc[q]: its locals
    calm     \* requests since whose read nobody else wrote to conn

catVars == <<namespaces, objects, conn, files, cpc, cloc, calm>>

SchemasOf(objs) == {o[1] : o \in objs}
\* What a database may be, and one of them.
Database == {d \in [namespaces : SUBSET SchemasOf(Object), objects : SUBSET Object] :
                SchemasOf(d.objects) \subseteq d.namespaces}
\* Options: the schemas and objects that were seen, and which of them are enabled.
OptionsOf(listed, seen, schemas, objs) == [listed |-> listed, seen |-> seen, schemas |-> schemas, objs |-> objs]
OptionsRow == [listed : SUBSET SchemasOf(Object), seen : SUBSET Object,
               schemas : SUBSET SchemasOf(Object), objs : SUBSET Object]
NoOptions == OptionsOf({}, {}, {}, {})
NewConn(dsn, sample, options) == [dsn |-> dsn, sample |-> sample, options |-> options, name |-> "given"]
ConnRow == [dsn : Dsn, sample : BOOLEAN, name : {"given", "renamed"}, options : OptionsRow]
Existing == {k \in ConnId : conn[k] # NoConn}
Taken(dsn, except) == \E k \in Existing \ except : conn[k].dsn = dsn

\* introspect_schema: everything that is there is enabled.
Introspect == OptionsOf(namespaces, objects, namespaces, objects)

(* Mutant: what is new is enabled. *)
MergeEnablesNew(old) ==
    IF old.listed = {} THEN Introspect
    ELSE OptionsOf(namespaces, objects, old.schemas \cap namespaces,
                   (old.objs \cap objects) \cup (objects \ old.seen))

\* merge_options: without options, or when they list no schema, everything is
\* enabled.  Otherwise choices are kept, what is new is disabled (also in a schema
\* that was listed without a table), and what is gone is dropped.
Merge(old) ==
    IF old.listed = {} THEN Introspect
    ELSE OptionsOf(namespaces, objects, old.schemas \cap namespaces, old.objs \cap objects)

\* validate_and_connect: the DSN that answers, or a ConnectionError.
Reached(dsn) == IF dsn = LocalDsn THEN {LocalDsn, Docker} ELSE {dsn}

\* get_sql_database: one enabled schema scopes the engine, otherwise the
\* default schema is looked at; the names passed are those of all enabled
\* objects.  LangChain offers tables (not views) and raises for a name it
\* does not find among them; no names at all means every table.
Enabled(options) == {o \in options.objs : o[1] \in options.schemas}
ObjectNames(objs) == {o[2] : o \in objs}
(* Mutant: the tables of a schema that is disabled are included. *)
IncludeAll(options) == ObjectNames(options.objs)

Include(options) == ObjectNames(Enabled(options))
Scope(options) == IF Cardinality(options.schemas) = 1 THEN CHOOSE s \in options.schemas : TRUE
                                                      ELSE DefaultSchema
TablesOf(schema) == {o \in objects \ View : o[1] = schema}
Opens(options) == Include(options) \subseteq ObjectNames(TablesOf(Scope(options)))
Offered(options) == {o \in TablesOf(Scope(options)) : Include(options) = {} \/ o[2] \in Include(options)}

-----------------------------------------------------------------------------
CLocal == [op : {"none", "create", "upload", "update", "refresh", "options", "delete", "restore", "migrate"},
           k : ConnId \cup {NoConn}, dsn : Dsn, row : {NoConn} \cup ConnRow]
NoCLocal == [op |-> "none", k |-> NoConn, dsn |-> LocalDsn, row |-> NoConn]
Begin(q, op, k, dsn, r) ==
    cloc' = [cloc EXCEPT ![q] = [op |-> op, k |-> k, dsn |-> dsn, row |-> r]]
Then(q, label) == cpc' = [cpc EXCEPT ![q] = label]

\* ConnectView: the DSN answers, or the request is refused; then look for a
\* duplicate and read the schemas.
Create(q) ==
    /\ cpc[q] = "idle"
    /\ \E k \in ConnId \ Existing : \E dsn \in UNION {Reached(d) : d \in Dsn \ {Upload, Sample}} :
        Begin(q, "create", k, dsn, NoConn)
    /\ Then(q, "check") \/ Then(q, "refused")
    /\ UNCHANGED <<namespaces, objects, conn, files>>

\* Reading an upload.  A CSV file is decoded by one encoding or another, so
\* all that is left is a parser error, a 500; every error of an Excel file is
\* made a ConnectionError, a 400.
ReadCsv == {"read", "failed"}
ReadExcel == {"read", "refused"}

\* Converting it: the next step, and the SQLite files left behind.  Once the
\* file is written it stays, also when a table cannot be (a 500) or when
\* create_connection refuses.
Connects == {<<"check", 1>>, <<"refused", 1>>}
Unread(read) == {<<label, 0>> : label \in read \ {"read"}}
ConvertSqlite == Connects
ConvertCsv == Unread(ReadCsv) \cup {<<"failed", 1>>} \cup Connects
ConvertExcel == Unread(ReadExcel) \cup {<<"failed", 1>>} \cup Connects
ConvertSas == {<<"failed", 1>>} \cup Connects  \* the file is opened before the upload is read

\* FileConnectView: a wrong extension or header is refused, or it is converted.
Import(q) ==
    /\ cpc[q] = "idle"
    /\ \E k \in ConnId \ Existing : Begin(q, "upload", k, Upload, NoConn)
    /\ \E result \in {<<"refused", 0>>} \cup ConvertSqlite \cup ConvertCsv \cup ConvertExcel \cup ConvertSas :
        Then(q, result[1]) /\ files' = files + result[2]
    /\ UNCHANGED <<namespaces, objects, conn>>

\* An upload has a path of its own (uuid4).
CreateCheck(q) ==
    /\ cpc[q] = "check"
    /\ Then(q, IF cloc[q].op = "create" /\ Taken(cloc[q].dsn, {}) THEN "refused" ELSE "insert")
    /\ cloc' = [cloc EXCEPT ![q].row = NewConn(cloc[q].dsn, FALSE, Introspect)]
    /\ UNCHANGED <<namespaces, objects, conn, files>>

\* unique_together: the insert of a duplicate raises IntegrityError, a 500.
CreateInsert(q) ==
    LET k == cloc[q].k IN
    /\ cpc[q] = "insert"
    /\ IF k \in Existing \/ (cloc[q].op = "create" /\ Taken(cloc[q].dsn, {}))
         THEN Then(q, "failed") /\ UNCHANGED conn
         ELSE Then(q, "done") /\ conn' = [conn EXCEPT ![k] = cloc[q].row]
    /\ UNCHANGED <<namespaces, objects, files, cloc>>

\* ConnectionDetailView.patch, ConnectionRefreshView: the row is read, ...
ReadConn(q, op) ==
    /\ cpc[q] = "idle" /\ op \in {"update", "refresh", "options"}
    /\ \E k \in Existing :
        \E dsn \in IF op = "update" THEN {LocalDsn, Docker} ELSE {conn[k].dsn} : Begin(q, op, k, dsn, conn[k])
    /\ Then(q, "apply")
    /\ UNCHANGED <<namespaces, objects, conn, files>>

\* ... changed: a new DSN that no other row has as typed, with merged options; ...
ApplyDsn(q) ==
    LET r == cloc[q].row IN
    /\ cpc[q] = "apply" /\ cloc[q].op = "update"
    /\ \/ /\ ~Taken(cloc[q].dsn, {cloc[q].k})
          /\ \E dsn \in Reached(cloc[q].dsn), name \in {r.name, "renamed"} :
                cloc' = [cloc EXCEPT ![q].row = [r EXCEPT !.dsn = dsn, !.name = name,
                                                          !.options = Merge(r.options)]]
          /\ Then(q, "save")
       \/ Then(q, "refused") /\ UNCHANGED cloc
    /\ UNCHANGED <<namespaces, objects, conn, files>>

\* ... the same DSN read again; ...
ApplyRefresh(q) ==
    /\ cpc[q] = "apply" /\ cloc[q].op = "refresh"
    /\ \/ /\ cloc' = [cloc EXCEPT ![q].row.options = Merge(@)]
          /\ Then(q, "save")
       \/ Then(q, "refused") /\ UNCHANGED cloc
    /\ UNCHANGED <<namespaces, objects, conn, files>>

\* ... or what the user ticked, and a name ...
Ticked(old) == {OptionsOf(old.listed, old.seen, schemas, objs) :
                    schemas \in SUBSET old.listed, objs \in SUBSET old.seen}
ApplyOptions(q) ==
    LET r == cloc[q].row IN
    /\ cpc[q] = "apply" /\ cloc[q].op = "options"
    /\ \E options \in Ticked(r.options) \cup {r.options}, name \in {r.name, "renamed"} :
        cloc' = [cloc EXCEPT ![q].row = [r EXCEPT !.options = options, !.name = name]]
    /\ Then(q, "save")
    /\ UNCHANGED <<namespaces, objects, conn, files>>

\* ... and saved as a whole: inserted again if it was deleted, a 500 if another row has the DSN.
SaveConn(q) ==
    LET k == cloc[q].k IN
    /\ cpc[q] = "save"
    /\ IF cloc[q].row.dsn # Upload /\ Taken(cloc[q].row.dsn, {k})
         THEN Then(q, "failed") /\ UNCHANGED conn
         ELSE Then(q, "done") /\ conn' = [conn EXCEPT ![k] = cloc[q].row]
    /\ UNCHANGED <<namespaces, objects, files, cloc>>

\* ConnectionDetailView.delete: the row only; the file of an upload stays.
DeleteConn(q) ==
    /\ cpc[q] = "idle"
    /\ \E k \in Existing :
        /\ Begin(q, "delete", k, conn[k].dsn, NoConn)
        /\ conn' = [conn EXCEPT ![k] = NoConn]
    /\ Then(q, "done")
    /\ UNCHANGED <<namespaces, objects, files>>

\* provision_sample_connections: get_or_create in one transaction.
Restore(q) ==
    /\ cpc[q] = "idle"
    /\ IF Taken(Sample, {})
         THEN UNCHANGED conn
         ELSE \E k \in ConnId \ Existing : conn' = [conn EXCEPT ![k] = NewConn(Sample, TRUE, NoOptions)]
    /\ Begin(q, "restore", NoConn, Sample, NoConn)
    /\ Then(q, "done")
    /\ UNCHANGED <<namespaces, objects, files>>

\* Not the server: somebody changes the schemas and tables of the database.
Migrate(q) ==
    /\ cpc[q] = "idle"
    /\ \E d \in Database : namespaces' = d.namespaces /\ objects' = d.objects
    /\ <<namespaces, objects>>' # <<namespaces, objects>>
    /\ Begin(q, "migrate", NoConn, LocalDsn, NoConn)
    /\ Then(q, "done")
    /\ UNCHANGED <<conn, files>>

-----------------------------------------------------------------------------
CatInit ==
    /\ \E d \in Database : namespaces = d.namespaces /\ objects = d.objects
    /\ \E k \in ConnId : conn \in
        {[c \in ConnId |-> NoConn],
         [c \in ConnId |-> IF c = k THEN NewConn(Docker, FALSE, Introspect) ELSE NoConn]}
    /\ files = 0
    /\ cpc = [q \in ConnRequest |-> "idle"]
    /\ cloc = [q \in ConnRequest |-> NoCLocal]
    /\ calm = {}

CatStep(q) ==
    \/ Create(q) \/ Import(q)
    \/ CreateCheck(q) \/ CreateInsert(q)
    \/ \E op \in {"update", "refresh", "options"} : ReadConn(q, op)
    \/ ApplyDsn(q) \/ ApplyRefresh(q) \/ ApplyOptions(q) \/ SaveConn(q)
    \/ DeleteConn(q) \/ Restore(q) \/ Migrate(q)

CatObserve(q) == calm' = (IF conn' = conn THEN calm ELSE calm \cap {q})
                           \cup (IF cpc[q] = "idle" THEN {q} ELSE {})

CatOver == \A q \in ConnRequest : cpc[q] \in {"done", "refused", "failed"}
CatNext == (\E q \in ConnRequest : CatStep(q) /\ CatObserve(q)) \/ (CatOver /\ UNCHANGED catVars)

CatSpec == CatInit /\ [][CatNext]_catVars

-----------------------------------------------------------------------------
CatTypeOK ==
    /\ objects \subseteq Object /\ SchemasOf(objects) \subseteq namespaces
    /\ namespaces \subseteq SchemasOf(Object)
    /\ conn \in [ConnId -> {NoConn} \cup ConnRow]
    /\ files \in 0..Cardinality(ConnRequest)
    /\ cpc \in [ConnRequest -> {"idle", "check", "insert", "apply", "save", "done", "refused", "failed"}]
    /\ cloc \in [ConnRequest -> CLocal]
    /\ calm \subseteq ConnRequest

\* What a refresh or a new DSN saves, when nobody wrote meanwhile, keeps the
\* user's choices: nothing is enabled that was not, nothing that still exists
\* is forgotten, and only options that list no schema at all (never read, or
\* read while the database had none) start again with everything enabled.
KeepsChoices(old, new) ==
    IF old.listed = {} THEN new.objs = new.seen /\ new.schemas = new.listed
    ELSE new.objs = old.objs \cap new.seen /\ new.schemas = old.schemas \cap new.listed
MergeKeepsChoices ==
    [][\A q \in calm :
        SaveConn(q) /\ cloc[q].op \in {"refresh", "update"} /\ conn'[cloc[q].k] # conn[cloc[q].k] =>
            KeepsChoices(conn[cloc[q].k].options, conn'[cloc[q].k].options)]_catVars

\* An agent is offered a table that the user has disabled in one of two
\* cases only: nothing is enabled, or another schema has an enabled table of
\* the same name.
OfferedIsEnabled ==
    \A k \in Existing :
        LET enabled == Enabled(conn[k].options) IN
        Opens(conn[k].options) /\ enabled # {} =>
            \A o \in Offered(conn[k].options) :
                o \in enabled \/ \E p \in enabled : p[2] = o[2] /\ p[1] # o[1]

\* "respecting the user's enabled/disabled schema and table preferences"
\* (get_sql_database): a connection that was just read can be opened, and
\* offers what is enabled.
OpenRespectsOptions ==
    \A k \in Existing :
        LET options == conn[k].options IN
        options.listed = namespaces /\ options.seen = objects /\ options.schemas # {} =>
            Opens(options) /\ Offered(options) = Enabled(options)

-----------------------------------------------------------------------------
\* The inductive invariant behind MergeKeepsChoices.

\* What a request has in hand at each of its steps.
HasInHand(pc, l) ==
    /\ pc \in {"check", "insert", "apply", "save"} => l.k \in ConnId
    /\ pc \in {"insert", "apply", "save"} => l.row \in ConnRow
    /\ pc = "check" => l.op \in {"create", "upload"}
    /\ pc = "apply" => l.op \in {"update", "refresh", "options"}

\* The row that a calm request has read is the one in the table, and what it
\* is about to save keeps the choices in that; the database itself may have
\* changed since.
IsCurrent(pc, l, rows) ==
    /\ pc = "apply" => rows[l.k] = l.row
    /\ pc = "save" /\ l.op \in {"refresh", "update"} => KeepsChoices(rows[l.k].options, l.row.options)

CatIInv ==
    /\ CatTypeOK
    /\ files <= Cardinality({q \in ConnRequest : cpc[q] # "idle"})
    /\ \A q \in ConnRequest : HasInHand(cpc[q], cloc[q])
    /\ \A q \in calm : IsCurrent(cpc[q], cloc[q], conn)
=============================================================================
