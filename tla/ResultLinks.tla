---------------------------- MODULE ResultLinks ----------------------------
(***************************************************************************)
(* The Result rows of a thread: the SQL strings, run results and charts    *)
(* that turns of an SQL agent store while their tools run, the link from a *)
(* chart to a run result, and the requests that edit and refresh them.     *)
(*                                                                         *)
(* A tool call is named <<who, message, position>>, and so are the SQL it  *)
(* carries and the rows that SQL returns.  A Result row is identified by   *)
(* its place in the table; 0 is no row.  The rows of one message are       *)
(* inserted in one step, all of them or those up to where the stream broke.*)
(***************************************************************************)
EXTENDS Naturals, Sequences, FiniteSets

CONSTANTS
    ResTurn,     \* turns of the streaming endpoint (sql_agent)
    SyncTurn,    \* turns of SQLQueryView (sql_graph)
    ResRequest,  \* requests on stored results, each used once
    MaxToolCalls,\* bound: tool calls of all turns together
    Empty,       \* a chart without data
    ToolError,   \* what a tool returns that failed: text that starts with ERROR
    Refused      \* what ToolNode returns for ill-formed arguments: "Error invoking tool"

AnyTurn == ResTurn \cup SyncTurn

\* Ids are not reused, and rows are neither an empty chart nor a message.
ASSUME ResAssumption ==
    /\ ResTurn \cap SyncTurn = {} /\ AnyTurn \cap ResRequest = {}
    /\ MaxToolCalls \in Nat
    /\ {Empty, ToolError, Refused} \cap (AnyTurn \X Nat \X Nat) = {}
SqlString == "SQL_QUERY_STRING"
RunResult == "SQL_QUERY_RUN_RESULT"
Chart == "CHART_GENERATION_RESULT"

\* What a call asks for: a query, one for a chart, none (query missing), a chart.
HasSql(kind) == kind \in {"query", "chart query"}
IsRun(kind) == HasSql(kind) \/ kind = "no query"

VARIABLES
    results, \* the Result table
    asked,   \* number of tool calls so far; it names the message they came in
    rpc,     \* next step of a turn or request
    rloc,    \* locals of a turn: its context and its stream loop
    outcome, \* outcome[p]: what request p did to a stored result
    regular  \* turns with well-formed calls, one at a time, whose queries are all for charts

resVars == <<results, asked, rpc, rloc, outcome, regular>>

NoRLocal == [n |-> 0, calls |-> <<>>, outs |-> <<>>,
             cached |-> Empty,  \* UserContext.last_chart_data
             lastRun |-> 0]     \* last_run_result_id
ResultRow(q, type, data, link) == [turn |-> q, type |-> type, data |-> data, link |-> link]
RGoto(q, label) == rpc' = [rpc EXCEPT ![q] = label]

-----------------------------------------------------------------------------
\* The LLM asks for one or two tools (others than these have no effect).
AskTools(q) ==
    /\ rpc[q] = "llm"
    /\ \E n \in 1..2 : \E calls \in [1..n -> {"query", "chart query", "chart"}] \cup {<<"no query">>} :
        /\ asked' = asked + Len(calls) /\ asked' <= MaxToolCalls
        /\ rloc' = [rloc EXCEPT ![q].n = asked', ![q].calls = calls]
        /\ regular' = IF Len(calls) = 1 /\ calls[1] # "query" THEN regular ELSE regular \ {q}
    /\ RGoto(q, "agent")
    /\ UNCHANGED <<results, outcome>>

\* Or the turn ends: an answer, a cancel, an error, a client that went away.
EndTurn(q) ==
    /\ rpc[q] \in {"llm", "tools", "store"}
    /\ RGoto(q, "done")
    /\ rloc' = [rloc EXCEPT ![q] = NoRLocal]
    /\ UNCHANGED <<results, asked, outcome, regular>>

(* Mutant: only the first query of a message is stored. *)
StoreSqlFirst(q) ==
    LET l == rloc[q]
        queries == {j \in DOMAIN l.calls : HasSql(l.calls[j])} IN
    /\ rpc[q] = "agent"
    /\ results' = results \o
         (IF queries = {} THEN <<>>
          ELSE <<ResultRow(q, SqlString, <<q, l.n, CHOOSE j \in queries : \A h \in queries : j <= h>>, 0)>>)
    /\ RGoto(q, "tools")
    /\ UNCHANGED <<asked, rloc, outcome, regular>>

\* The SQL of the query calls among the first m, in their order.
SqlRows(q, m) ==
    LET queries(j) == {h \in 1..j : HasSql(rloc[q].calls[h])} IN
    [i \in 1..Cardinality(queries(m)) |->
        LET call == CHOOSE j \in queries(m) : Cardinality(queries(j)) = i
        IN ResultRow(q, SqlString, <<q, rloc[q].n, call>>, 0)]

\* Loop body for the agent node: these rows are inserted, all or some of them.
StoreSql(q) ==
    LET n == Len(rloc[q].calls) IN
    /\ rpc[q] = "agent"
    /\ \E m \in 0..n :
        /\ results' = results \o SqlRows(q, m)
        /\ RGoto(q, IF m = n THEN "tools" ELSE "done")
        /\ rloc' = IF m = n THEN rloc ELSE [rloc EXCEPT ![q] = NoRLocal]
    /\ UNCHANGED <<asked, outcome, regular>>

\* execute_sql_query: the rows, or an error of the check for SELECT, of the
\* database or of the check for two columns, which run_sql_query returns as text.
ExecuteSql(q, i) == {<<q, rloc[q].n, i>>, ToolError}

\* generate_chart: an error for an unknown type, else the configuration, filled
\* with the rows of the context, or a skeleton if filling it fails.
FillChart(cached) == {cached, Empty}
GenerateChart(cached) == {ToolError} \cup FillChart(cached)

\* The tools of sql_toolkit have no context: run_sql_query keeps nothing and
\* generate_chart fills nothing.
ToolkitChart == {ToolError, Empty}
HasContext(q) == q \in ResTurn

\* What call i may return when the context holds cached.
Returns(q, i, cached) ==
    CASE rloc[q].calls[i] = "chart"     -> IF HasContext(q) THEN GenerateChart(cached) ELSE ToolkitChart
      [] rloc[q].calls[i] = "no query"  -> {ToolError, Refused}
      [] OTHER                          -> ExecuteSql(q, i) \cup {Refused}

IsRows(out) == out \notin {ToolError, Refused, Empty}

\* A chart query that returned rows leaves them in the context of the turn.
Caches(q, i, out) == rloc[q].calls[i] = "chart query" /\ IsRows(out) /\ HasContext(q)

\* ToolNode runs the calls of a message concurrently: here in either order.
Execute(q) ==
    LET l == rloc[q]
        n == Len(l.calls) IN
    /\ rpc[q] = "tools"
    /\ \E first \in 1..n :
        \E out1 \in Returns(q, first, l.cached) :
            LET cached1 == IF Caches(q, first, out1) THEN out1 ELSE l.cached
                second == n + 1 - first IN
            IF n = 1
              THEN /\ rloc' = [rloc EXCEPT ![q].outs = <<out1>>, ![q].cached = cached1]
                   /\ regular' = IF out1 = Refused THEN regular \ {q} ELSE regular
              ELSE \E out2 \in Returns(q, second, cached1) :
                   /\ rloc' = [rloc EXCEPT
                        ![q].outs = [i \in 1..2 |-> IF i = first THEN out1 ELSE out2],
                        ![q].cached = IF Caches(q, second, out2) THEN out2 ELSE cached1]
                   /\ UNCHANGED regular
    /\ RGoto(q, "store")
    /\ UNCHANGED <<results, asked, outcome>>

\* Loop body for the tools node: what does not start with ERROR is stored, in
\* the order of the calls.  The streaming endpoint links a chart to the last
\* run result of the turn; SQLQueryView links nothing.
Kept(q, m) == {i \in 1..m : rloc[q].outs[i] # ToolError}
Place(kept, i) == Len(results) + Cardinality({j \in kept : j <= i})
(* Mutant: last_run_result_id is forgotten between two messages. *)
LastRunOfMessage(q, kept, i) ==
    LET runs == {j \in kept : j < i /\ IsRun(rloc[q].calls[j])} IN
    IF runs = {} THEN 0 ELSE Place(kept, CHOOSE j \in runs : \A k \in runs : k <= j)

LastRun(q, kept, i) ==
    LET runs == {j \in kept : j < i /\ IsRun(rloc[q].calls[j])} IN
    IF runs = {} THEN rloc[q].lastRun
                 ELSE Place(kept, CHOOSE j \in runs : \A k \in runs : k <= j)

SyncRow(q, i) ==
    ResultRow(q, IF IsRun(rloc[q].calls[i]) THEN RunResult ELSE Chart, rloc[q].outs[i], 0)
OutputRow(q, kept, i) ==
    IF q \in SyncTurn \/ IsRun(rloc[q].calls[i])
      THEN SyncRow(q, i)
      ELSE ResultRow(q, Chart, rloc[q].outs[i], LastRun(q, kept, i))

StoreOutput(q) ==
    LET l == rloc[q]
        n == Len(l.calls) IN
    /\ rpc[q] = "store"
    /\ \E m \in 0..n :
        LET kept == Kept(q, m) IN
        /\ results' = results \o
             [p \in 1..Cardinality(kept) |->
                OutputRow(q, kept, CHOOSE i \in kept : Place(kept, i) = Len(results) + p)]
        /\ RGoto(q, IF m = n THEN "llm" ELSE "done")
        /\ rloc' = [rloc EXCEPT ![q] =
             IF m = n THEN [@ EXCEPT !.lastRun = LastRun(q, kept, n + 1), !.calls = <<>>, !.outs = <<>>]
                      ELSE NoRLocal]
    /\ UNCHANGED <<asked, outcome, regular>>

-----------------------------------------------------------------------------
\* Result.objects.filter(type=..., linked_id=k).first(): one of them, if any.
Linked(k, type) ==
    LET found == {j \in DOMAIN results : results[j].type = type /\ results[j].link = k} IN
    IF found = {} THEN {{}} ELSE {{j} : j \in found}

\* SQLResultUpdateView with for_chart: save the SQL, then look for a run
\* result linked to it and a chart linked to that, and fill it again.
EditSql(p) ==
    /\ rpc[p] = "idle"
    /\ \E k \in DOMAIN results :
        /\ results[k].type = SqlString
        /\ \E runs \in Linked(k, RunResult) :
            \E charts \in UNION {Linked(j, Chart) : j \in runs} \cup {{}} :
                /\ charts = {} => \A j \in runs : Linked(j, Chart) = {{}}
                /\ results' = [j \in DOMAIN results |->
                     IF j \in {k} \cup charts THEN [results[j] EXCEPT !.data = <<p, 0, 0>>] ELSE results[j]]
                /\ outcome' = [outcome EXCEPT ![p] = IF charts = {} THEN "saved" ELSE "refreshed"]
    /\ RGoto(p, "done")
    /\ UNCHANGED <<asked, rloc, regular>>

\* ChartRefreshView: follow linked_id to a SQL string, run it again, fill the
\* chart; a query that fails leaves the chart as it was.
RefreshChart(p) ==
    /\ rpc[p] = "idle"
    /\ \E k \in DOMAIN results, ok \in BOOLEAN :
        LET link == results[k].link
            found == link # 0 /\ results[link].type = SqlString IN
        /\ results[k].type = Chart
        /\ results' = IF found /\ ok THEN [results EXCEPT ![k].data = results[link].data] ELSE results
        /\ outcome' = [outcome EXCEPT ![p] = IF link = 0 THEN "no link" ELSE IF ~found THEN "not found"
                                             ELSE IF ok THEN "refreshed" ELSE "failed"]
    /\ RGoto(p, "done")
    /\ UNCHANGED <<asked, rloc, regular>>

\* ExportCSVView runs a stored query again and RunSQLView one that is sent to
\* it; the answer is rows or an error, and neither stores anything, whatever
\* linked_id the latter is given.
AnswerRows(p) ==
    /\ rpc[p] = "idle"
    /\ RGoto(p, "done")
    /\ UNCHANGED <<results, asked, rloc, outcome, regular>>
ExportCsv(p) == AnswerRows(p) /\ \E k \in DOMAIN results : results[k].type = SqlString
RunSql(p) == AnswerRows(p)

-----------------------------------------------------------------------------
ResInit ==
    /\ results = <<>>
    /\ asked = 0
    /\ rpc = [q \in AnyTurn \cup ResRequest |-> IF q \in AnyTurn THEN "llm" ELSE "idle"]
    /\ rloc = [q \in AnyTurn |-> NoRLocal]
    /\ outcome = [p \in ResRequest |-> "none"]
    /\ regular = AnyTurn

ResOver == \A q \in AnyTurn : rpc[q] = "done"

ResNext ==
    \/ \E q \in AnyTurn :
        AskTools(q) \/ EndTurn(q) \/ StoreSql(q) \/ Execute(q) \/ StoreOutput(q)
    \/ \E p \in ResRequest : EditSql(p) \/ RefreshChart(p) \/ ExportCsv(p) \/ RunSql(p)
    \/ ResOver /\ UNCHANGED resVars

ResSpec == ResInit /\ [][ResNext]_resVars

-----------------------------------------------------------------------------
RowName == (AnyTurn \cup ResRequest) \X (0..MaxToolCalls) \X (0..2)
RowData == RowName \cup {Empty, Refused}
TableRow == [turn : AnyTurn, type : {SqlString, RunResult, Chart}, data : RowData, link : Nat]
RLocal == [n : Nat, calls : Seq({"query", "chart query", "no query", "chart"}),
           outs : Seq(RowData \cup {ToolError}), cached : RowData, lastRun : Nat]
ResTypeOK ==
    /\ results \in Seq(TableRow)
    /\ \A k \in DOMAIN results : results[k].link < k
    /\ asked \in 0..MaxToolCalls
    /\ rpc \in [AnyTurn \cup ResRequest -> {"llm", "agent", "tools", "store", "idle", "done"}]
    /\ rloc \in [AnyTurn -> RLocal]
    /\ \A q \in AnyTurn : rloc[q].n \in 0..asked /\ rloc[q].lastRun \in 0..Len(results)
    /\ outcome \in [ResRequest -> {"none", "saved", "no link", "not found", "refreshed", "failed"}]
    /\ regular \subseteq AnyTurn

\* The SQL of a call, or what an edit made of it, is in table up to row k.
SqlOf(table, q, data, k) ==
    \E j \in 1..k : /\ table[j].type = SqlString /\ table[j].turn = q
                    /\ table[j].data = data \/ table[j].data[1] \in ResRequest

\* Rows of a query are stored after the SQL that returned them and by the same
\* turn, wherever the stream broke and whatever other turns stored in between.
RunHasItsSql ==
    \A k \in DOMAIN results :
        /\ results[k].type = RunResult /\ results[k].data # Refused
        => SqlOf(results, results[k].turn, results[k].data, k - 1)

\* The two ways in which a chart is tied to a query agree: last_chart_data of
\* the tools and last_run_result_id of the loop.  In a regular turn a chart
\* shows no rows but those of the run result it is linked to, also after
\* queries that failed.
ChartShowsLinkedRun ==
    \A k \in DOMAIN results :
        /\ results[k].type = Chart /\ results[k].turn \in regular \cap ResTurn
        /\ results[k].data # Empty
        => results[k].link # 0 /\ results[results[k].link].data = results[k].data

-----------------------------------------------------------------------------
\* The inductive invariant behind both, part by part.

\* A turn has one or two calls in hand, and as many outputs once they have run.
InHand ==
    /\ \A p \in AnyTurn \cup ResRequest : rpc[p] = "idle" => p \in ResRequest
    /\ \A q \in AnyTurn :
        /\ rpc[q] \in {"agent", "tools", "store"} => Len(rloc[q].calls) \in {1, 2}
        /\ rpc[q] = "store" => Len(rloc[q].outs) = Len(rloc[q].calls)

\* Only charts are linked, and to run results: what an edit looks for, a run
\* result linked to the SQL, and a refresh, a chart linked to SQL, is nowhere.
LinksAreToRuns ==
    /\ \A k \in DOMAIN results :
        results[k].link = 0 \/ (results[k].type = Chart /\ results[results[k].link].type = RunResult)
    /\ \A q \in AnyTurn : rloc[q].lastRun = 0 \/ results[rloc[q].lastRun].type = RunResult

\* Every query that runs has its SQL in the table, and returns its own rows.
SqlComesFirst ==
    \A q \in AnyTurn : \A i \in DOMAIN rloc[q].calls :
        /\ rpc[q] \in {"tools", "store"} /\ HasSql(rloc[q].calls[i]) =>
             SqlOf(results, q, <<q, rloc[q].n, i>>, Len(results))
        /\ rpc[q] = "store" /\ IsRun(rloc[q].calls[i]) /\ rloc[q].outs[i] \notin {ToolError, Refused} =>
             HasSql(rloc[q].calls[i]) /\ rloc[q].outs[i] = <<q, rloc[q].n, i>>

\* last_chart_data holds the data of the row that last_run_result_id names.
Tied(l, table) == l.cached = Empty \/ (l.lastRun # 0 /\ table[l.lastRun].data = l.cached)

\* In a regular turn it always does, but for rows that are yet to be stored.
CacheIsLinked ==
    \A q \in regular \cap ResTurn :
        LET l == rloc[q] IN
        /\ rpc[q] \in {"agent", "tools", "store"} => Len(l.calls) = 1 /\ l.calls[1] # "query"
        /\ Tied(l, results) \/ (rpc[q] = "store" /\ l.calls[1] = "chart query")
        /\ rpc[q] = "store" =>
             CASE l.calls[1] = "chart query" -> \/ l.outs[1] = l.cached /\ l.outs[1] # ToolError
                                                \/ l.outs[1] = ToolError /\ Tied(l, results)
               [] l.calls[1] = "chart"       -> l.outs[1] \in {ToolError, Empty, l.cached}
               [] OTHER                      -> l.outs[1] = ToolError

ResIInv == /\ ResTypeOK /\ InHand /\ LinksAreToRuns /\ SqlComesFirst /\ CacheIsLinked
           /\ RunHasItsSql /\ ChartShowsLinkedRun

\* "Re-runs the SQL behind a saved chart result" (ChartRefreshView): for a
\* chart that is linked to something, that SQL is found.
ChartCanBeRefreshed == \A p \in ResRequest : outcome[p] # "not found"
=============================================================================
