---------------------------- MODULE MCWorkspace ----------------------------
(***************************************************************************)
(* Small instances, for TLC, of the parts around the agents.  They share   *)
(* no state that matters to their properties, so instead of interleaving   *)
(* them a behaviour is one of one part, chosen at the start; the variables *)
(* of the others keep one initial value.                                   *)
(***************************************************************************)
EXTENDS ChatLibrary, ConnectionCatalog, MemoryStore, ResultLinks, Accounts,
        HistoryFormat, SchemaChecks, AgenticSchema, ErrorClasses, TLC

CONSTANT SecondChat \* a chat of the library that two requests meet, not three

VARIABLE part \* the part that runs

\* Two schemas: two tables, and a view that has the name of one of them.
Objects == {<<"s1", "a">>, <<"s1", "b">>, <<"s2", "a">>}
Views == {<<"s2", "a">>}

\* One preference in two wordings, another one, and a key.
Facts == {<<"dialect", 1>>, <<"dialect", 2>>, <<"role", 1>>, <<"key", 1>>}
Secrets == {<<"key", 1>>}

\* Every kind of message that the readers tell apart.
Msg(type, text, reasoning, calls, usage) ==
    [type |-> type, text |-> text, reasoning |-> reasoning, calls |-> calls, usage |-> usage]
Messages == {
    Msg("human", TRUE, FALSE, 0, FALSE), Msg("human", FALSE, FALSE, 0, FALSE),
    Msg("ai", FALSE, TRUE, 1, TRUE), Msg("ai", TRUE, FALSE, 0, TRUE), Msg("ai", TRUE, TRUE, 0, FALSE),
    Msg("ai", FALSE, FALSE, 0, TRUE), Msg("ai", TRUE, FALSE, 2, FALSE),
    Msg("tool", TRUE, FALSE, 0, FALSE), Msg("system", TRUE, FALSE, 0, FALSE)}

\* Tables of up to two columns, well formed and not, that may refer to each other.
Column(name, pk, nullable, typed) == [name |-> name, pk |-> pk, nullable |-> nullable, typed |-> typed]
Columns == {Column("id", TRUE, FALSE, TRUE), Column("other", FALSE, TRUE, TRUE),
            Column("other", FALSE, FALSE, FALSE), Column("Bad", TRUE, TRUE, TRUE)}
Tables == [name : {"a", "b"}, columns : UNION {[1..n -> Columns] : n \in 0..2},
           fks : {{}, {<<"other", "a", "id">>}, {<<"id", "b", "other">>}}, indexed : {{}, {"id"}}]
          \cup {[name |-> "Bad", columns |-> <<Column("id", TRUE, FALSE, TRUE)>>, fks |-> {}, indexed |-> {}]}

\* Requests are interchangeable: those of the library are symmetric, and of the
\* others it is enough to see them begin in the order of their numbers.
Symmetry == Permutations(Request)
InOrder(pcNow, pcNext) ==
    \A q \in DOMAIN pcNow :
        pcNow[q] = "idle" /\ pcNext[q] # "idle" => \A p \in 1..(q - 1) : pcNow[p] # "idle"

\* Three requests meet one chat and one project, both unnamed at the start; two
\* requests meet one chat more, both renamed.
ChatNames == {row[t].title : t \in Live}
LibStart == IF SecondChat \in unborn THEN ChatNames \subseteq {"New Chat"}
                                     ELSE ChatNames = {"renamed"}
LibBound == \/ SecondChat \in unborn'
            \/ SecondChat \notin unborn /\ \E q \in Request : pc'[q] = "idle"

\* So are keys of memories: a new one is the least that is free.
LeastKey == \A k \in Fresh : memory'[k] # NoMemory => \A j \in Fresh : k <= j

\* Bounds: memories that are there at the start; tool calls of a turn of
\* SQLQueryView, whose rows nothing links.
MaxEarlier == 1
MaxSyncCalls == 1
SyncBound == \A q \in SyncTurn : rpc[q] = "llm" /\ rpc'[q] = "agent" =>
                rloc[q].n = 0 /\ Len(rloc'[q].calls) <= MaxSyncCalls

-----------------------------------------------------------------------------
Pure == {"history", "designs", "scripts", "errors"}
Parts == {"library", "catalog", "memory", "results", "accounts", "nodes", "agentic"} \cup Pure

\* The initial values of a part that does not run.
LibRest == unborn = SqlThread /\ index = {} /\ LibStart
CatRest == objects = Object /\ namespaces = SchemasOf(Object) /\ \A k \in ConnId : conn[k] = NoConn
MemRest == Keys = {}
AccRest == user = NoUser
NodesRest == schemaNow = 0
AgRest == project = NoArt
ErrorRest == error = [class |-> "APIError", text |-> "other", header |-> "none"]

WorkInit ==
    /\ part \in Parts
    /\ LibInit /\ (IF part = "library" THEN LibStart ELSE LibRest)
    /\ CatInit /\ (part # "catalog" => CatRest)
    /\ MemInit /\ (part # "memory" => MemRest) /\ Keys \subseteq 1..MaxEarlier
    /\ ResInit
    /\ AccInit /\ (part # "accounts" => AccRest)
    /\ CheckInit /\ (part # "nodes" => NodesRest)
    /\ AgInit /\ (part # "agentic" => AgRest)
    /\ IF part = "history" THEN HistInit ELSE history = <<>>
    /\ CASE part = "designs" -> DesignInit
         [] part = "scripts" -> ScriptInit
         [] OTHER            -> design = <<>> /\ script = NoScript
    /\ IF part = "errors" THEN ErrorInit ELSE ErrorRest

LibraryNext == part = "library" /\ LibNext /\ LibBound
    /\ UNCHANGED <<catVars, memVars, resVars, accVars, checkVars, agVars, history, design, script, error, part>>
CatalogNext == part = "catalog" /\ CatNext /\ InOrder(cpc, cpc')
    /\ UNCHANGED <<libVars, memVars, resVars, accVars, checkVars, agVars, history, design, script, error, part>>
MemoryNext == part = "memory" /\ MemNext /\ InOrder(mpc, mpc') /\ LeastKey
    /\ UNCHANGED <<libVars, catVars, resVars, accVars, checkVars, agVars, history, design, script, error, part>>
ResultsNext == part = "results" /\ ResNext /\ SyncBound
    /\ UNCHANGED <<libVars, catVars, memVars, accVars, checkVars, agVars, history, design, script, error, part>>
AccountsNext == part = "accounts" /\ AccNext /\ InOrder(apc, apc')
    /\ UNCHANGED <<libVars, catVars, memVars, resVars, checkVars, agVars, history, design, script, error, part>>
NodesNext == part = "nodes" /\ CheckNext
    /\ UNCHANGED <<libVars, catVars, memVars, resVars, accVars, agVars, history, design, script, error, part>>
AgenticNext == part = "agentic" /\ AgNext /\ InOrder(gpc, gpc')
    /\ UNCHANGED <<libVars, catVars, memVars, resVars, accVars, checkVars, history, design, script, error, part>>

\* A pure part has one state for each input.
workVars == <<libVars, catVars, memVars, resVars, accVars, checkVars, agVars, history, design, script, error, part>>
PureNext == part \in Pure /\ UNCHANGED workVars

WorkNext ==
    \/ LibraryNext \/ CatalogNext \/ MemoryNext \/ ResultsNext \/ AccountsNext \/ NodesNext
    \/ AgenticNext \/ PureNext

WorkSpec == WorkInit /\ [][WorkNext]_workVars

-----------------------------------------------------------------------------
\* The state of the part that runs is as the inductive invariant of its proofs
\* says; the other parts do not move.
PartsIInv ==
    CASE part = "library"  -> LibIInv
      [] part = "catalog"  -> CatIInv
      [] part = "memory"   -> MemIInv
      [] part = "results"  -> ResIInv
      [] part = "accounts" -> AccIInv
      [] part = "nodes"    -> CheckIInv
      [] part = "agentic"  -> AgIInv
      [] part \in Pure     -> LibIInv /\ CatIInv /\ MemIInv /\ ResIInv /\ AccIInv /\ CheckIInv /\ AgIInv
=============================================================================
