-------------------------- MODULE ChatLibraryProofs --------------------------
(***************************************************************************)
(* What the sidebar promises, for any number of chats, projects and        *)
(* requests and under every fault of ChatLibrary.  The stores alone say    *)
(* little, since races may leave anything in them; the invariant is about  *)
(* what the requests in flight hold: a turn has loaded what it will write  *)
(* over, and whoever nobody disturbed knows the stores.                    *)
(***************************************************************************)
EXTENDS ChatLibrary, TLAPS

-----------------------------------------------------------------------------
(* What the actions that change several locals leave in them.                *)

LEMMA RowsTyped ==
    /\ RowOf("New Chat", FALSE) \in [title : Titles, starred : BOOLEAN]
    /\ RowOf("New Chat", FALSE) # None
    /\ \A c \in [title : Titles, starred : BOOLEAN] :
          /\ [c EXCEPT !.title = "generated"] \in [title : Titles, starred : BOOLEAN]
          /\ [c EXCEPT !.title = "generated"] # None
<1>1. RowOf("New Chat", FALSE) \in [title : Titles, starred : BOOLEAN]
  BY DEF RowOf, Titles
<1>2. ASSUME NEW c \in [title : Titles, starred : BOOLEAN]
      PROVE  [c EXCEPT !.title = "generated"] \in [title : Titles, starred : BOOLEAN]
  BY DEF Titles
<1>3. \A c \in [title : Titles, starred : BOOLEAN] : c # None
  BY LibAssumption
<1> QED
  BY <1>1, <1>2, <1>3

LEMMA NothingNoted == NoLocal \in Local
BY DEF NoLocal, Local

LEMMA TurnStartNotes ==
    ASSUME LibTypeOK, NEW q \in Request, TurnStart(q)
    PROVE  \E t \in SqlThread :
               /\ \A p \in Request : loc[p].op = "turn" /\ loc[p].t = t => pc[p] = "done"
               /\ loc'[q] \in Local /\ loc'[q].op = "turn" /\ loc'[q].t = t
               /\ (loc'[q].new => t \in unborn) /\ loc'[q].turns = hist[t] /\ loc'[q].todo = {}
               /\ row' = IF t \in unborn THEN [row EXCEPT ![t] = RowOf("New Chat", FALSE)] ELSE row
<1>1. PICK t \in SqlThread :
          /\ \A p \in Request : loc[p].op = "turn" /\ loc[p].t = t => pc[p] = "done"
          /\ loc' = [loc EXCEPT ![q] = [NoLocal EXCEPT !.op = "turn", !.t = t,
                                                       !.new = t \in unborn, !.turns = hist[t]]]
          /\ row' = IF t \in unborn THEN [row EXCEPT ![t] = RowOf("New Chat", FALSE)] ELSE row
  BY DEF TurnStart, Note
<1> DEFINE old == hist[t]
           isNew == t \in unborn
           new == [NoLocal EXCEPT !.op = "turn", !.t = t, !.new = isNew, !.turns = old]
<1>2. old \in SUBSET Turn /\ t \in Thread /\ isNew \in BOOLEAN
  BY DEF LibTypeOK, Thread
<1> HIDE DEF old, isNew
<1>3. new \in Local /\ new.op = "turn" /\ new.t = t /\ new.turns = old /\ new.todo = {}
  BY <1>2 DEF NoLocal, Local
<1>4. new.new = isNew
  BY DEF NoLocal
<1> HIDE DEF new
<1>5. loc'[q] = new
  BY <1>1 DEF LibTypeOK, new, old, isNew
<1> QED
  BY <1>1, <1>3, <1>4, <1>5 DEF old, isNew

LEMMA CommandNextNotes ==
    ASSUME LibTypeOK, NEW q \in Request, CommandNext(q)
    PROVE  \E t \in loc[q].todo :
               /\ t \in Thread /\ loc'[q] \in Local /\ loc'[q].op = loc[q].op /\ loc'[q].t = t
               /\ loc'[q].turns = hist[t]
<1>1. loc[q] \in Local
  BY DEF LibTypeOK
<1>2. PICK t \in loc[q].todo :
          loc' = [loc EXCEPT ![q] = [loc[q] EXCEPT !.t = t, !.turns = hist[t], !.todo = @ \ {t}]]
  BY DEF CommandNext, Note
<1> DEFINE new == [loc[q] EXCEPT !.t = t, !.turns = hist[t], !.todo = @ \ {t}]
<1>3. t \in Thread
  BY <1>1 DEF Local
<1>4. hist[t] \in SUBSET Turn
  BY <1>3 DEF LibTypeOK
<1>5. new \in Local /\ new.op = loc[q].op /\ new.t = t /\ new.turns = hist[t]
  BY <1>1, <1>3, <1>4 DEF Local
<1> HIDE DEF new
<1>6. loc'[q] = new
  BY <1>2 DEF LibTypeOK, new
<1> QED
  BY <1>3, <1>5, <1>6

LEMMA PatchReadNotes ==
    ASSUME LibTypeOK, NEW q \in Request, PatchRead(q)
    PROVE  \E t \in SqlThread \cap Live :
               /\ loc'[q] \in Local /\ loc'[q].op = "patch" /\ loc'[q].t = t
               /\ loc'[q].copy \in [title : Titles, starred : BOOLEAN]
<1>0. PICK t \in SqlThread \cap Live :
          \E title \in {row[t].title, "renamed"}, starred \in BOOLEAN :
              Note(q, [NoLocal EXCEPT !.op = "patch", !.t = t, !.copy = RowOf(title, starred)])
  BY DEF PatchRead
<1>1. PICK title \in {row[t].title, "renamed"}, starred \in BOOLEAN :
          loc' = [loc EXCEPT ![q] = [NoLocal EXCEPT !.op = "patch", !.t = t,
                                                    !.copy = RowOf(title, starred)]]
  BY <1>0 DEF Note
<1> DEFINE copy == RowOf(title, starred)
           new  == [NoLocal EXCEPT !.op = "patch", !.t = t, !.copy = copy]
<1>2. t \in Thread /\ row[t] # None
  BY <1>0 DEF Live
<1>3. copy \in [title : Titles, starred : BOOLEAN]
  BY <1>2 DEF LibTypeOK, RowOf, Titles
<1> HIDE DEF copy
<1>4. new \in Local /\ new.op = "patch" /\ new.t = t /\ new.copy = copy
  BY <1>2, <1>3 DEF NoLocal, Local
<1> HIDE DEF new
<1>5. loc'[q] = new
  BY <1>1 DEF LibTypeOK, new, copy
<1> QED
  BY <1>0, <1>3, <1>4, <1>5

LEMMA BulkSnapshotNotes ==
    ASSUME LibTypeOK, NEW q \in Request, BulkSnapshot(q)
    PROVE  /\ loc'[q] \in Local /\ loc'[q].op = "bulk"
           /\ loc'[q].ids = Unstarred /\ loc'[q].todo = Unstarred
<1> DEFINE new == [NoLocal EXCEPT !.op = "bulk", !.ids = Unstarred, !.todo = Unstarred]
<1>1. Unstarred \subseteq Thread
  BY DEF Unstarred, Live
<1>2. new \in Local /\ new.op = "bulk" /\ new.ids = Unstarred /\ new.todo = Unstarred
  BY <1>1 DEF NoLocal, Local
<1> HIDE DEF new
<1>3. loc'[q] = new
  BY DEF LibTypeOK, BulkSnapshot, Note, new
<1> QED
  BY <1>2, <1>3

LEMMA BulkHistNotes ==
    ASSUME LibTypeOK, NEW q \in Request, BulkHist(q)
    PROVE  \E t \in loc[q].todo :
               /\ t \in Thread /\ loc'[q] \in Local /\ loc'[q].op = loc[q].op
               /\ loc'[q].ids = loc[q].ids /\ loc'[q].todo = loc[q].todo \ {t}
               /\ \/ hist' = [hist EXCEPT ![t] = {}] /\ loc'[q].failed = loc[q].failed
                  \/ hist' = hist /\ loc'[q].failed = TRUE
<1>1. loc[q] \in Local
  BY DEF LibTypeOK
<1>2. PICK t \in loc[q].todo :
          \/ /\ hist' = [hist EXCEPT ![t] = {}]
             /\ loc' = [loc EXCEPT ![q] = [loc[q] EXCEPT !.todo = @ \ {t}]]
          \/ /\ loc' = [loc EXCEPT ![q] = [loc[q] EXCEPT !.todo = @ \ {t}, !.failed = TRUE]]
             /\ UNCHANGED hist
  BY DEF BulkHist, Note
<1> DEFINE new(l) == /\ l \in Local /\ l.op = loc[q].op /\ l.ids = loc[q].ids
                     /\ l.todo = loc[q].todo \ {t}
<1>3. t \in Thread
  BY <1>1 DEF Local
<1>4. CASE /\ hist' = [hist EXCEPT ![t] = {}]
           /\ loc' = [loc EXCEPT ![q] = [loc[q] EXCEPT !.todo = @ \ {t}]]
  <2>1. loc'[q] = [loc[q] EXCEPT !.todo = @ \ {t}]
    BY <1>4 DEF LibTypeOK
  <2>2. new(loc'[q]) /\ loc'[q].failed = loc[q].failed
    BY <1>1, <2>1 DEF Local
  <2> QED
    BY <1>3, <1>4, <2>2
<1>5. CASE /\ loc' = [loc EXCEPT ![q] = [loc[q] EXCEPT !.todo = @ \ {t}, !.failed = TRUE]]
           /\ UNCHANGED hist
  <2>1. loc'[q] = [loc[q] EXCEPT !.todo = @ \ {t}, !.failed = TRUE]
    BY <1>5 DEF LibTypeOK
  <2>2. new(loc'[q]) /\ loc'[q].failed = TRUE
    BY <1>1, <2>1 DEF Local
  <2> QED
    BY <1>3, <1>5, <2>2
<1> QED
  BY <1>2, <1>4, <1>5

LEMMA TitleHitsAre ==
    ASSUME NEW hits \in TitleHits
    PROVE  /\ hits \in SUBSET (Thread \X {"title", "text"})
           /\ \A h \in hits : h = <<h[1], "title">> /\ h[1] \in Renamed
           /\ \A kind \in {SqlThread, SchemaThread} :
                Cardinality(Renamed \cap kind) <= TitleLimit => (Renamed \cap kind) \X {"title"} \subseteq hits
<1>1. PICK chats \in Cut(Renamed \cap SqlThread, TitleLimit),
           projects \in Cut(Renamed \cap SchemaThread, TitleLimit) :
        hits = (chats \cup projects) \X {"title"}
  BY DEF TitleHits
<1>2. chats \subseteq Renamed \cap SqlThread /\ projects \subseteq Renamed \cap SchemaThread
  BY DEF Cut
<1>3. Renamed \subseteq Thread
  BY DEF Renamed, Live
<1>4. /\ Cardinality(Renamed \cap SqlThread) <= TitleLimit => chats = Renamed \cap SqlThread
      /\ Cardinality(Renamed \cap SchemaThread) <= TitleLimit => projects = Renamed \cap SchemaThread
  BY DEF Cut
<1> QED
  BY <1>1, <1>2, <1>3, <1>4

LEMMA TitlesNoted ==
    ASSUME LibTypeOK, NEW q \in Request, SearchTitles(q)
    PROVE  \E hits \in TitleHits :
              loc'[q] \in Local /\ loc'[q].op = "search" /\ loc'[q].hits = hits
<1>1. PICK chats \in Cut(Renamed \cap SqlThread, TitleLimit),
           projects \in Cut(Renamed \cap SchemaThread, TitleLimit) :
        loc' = [loc EXCEPT ![q] = [NoLocal EXCEPT !.op = "search",
                                                  !.hits = (chats \cup projects) \X {"title"}]]
  BY DEF SearchTitles, Note
<1> DEFINE hits == (chats \cup projects) \X {"title"}
           new == [NoLocal EXCEPT !.op = "search", !.hits = hits]
<1>2. chats \cup projects \subseteq Thread
  BY DEF Cut, Renamed, Live
<1>3. hits \in TitleHits
  BY <1>2 DEF TitleHits
<1>4. hits \in SUBSET (Thread \X {"title", "text"})
  BY <1>2
<1>5. loc' = [loc EXCEPT ![q] = new]
  BY <1>1
<1> HIDE DEF hits
<1>6. new \in Local /\ new.op = "search" /\ new.hits = hits
  BY <1>4, NothingNoted DEF Local
<1> HIDE DEF new
<1>7. loc'[q] = new
  BY <1>5 DEF LibTypeOK
<1> QED
  BY <1>3, <1>6, <1>7

LEMMA ContentNoted ==
    ASSUME LibTypeOK, NEW q \in Request, SearchContent(q)
    PROVE  \E ids \in SUBSET Thread :
              /\ loc'[q] = [loc[q] EXCEPT !.ids = ids]
              /\ \E found \in Cut(ready, ContentLimit) :
                    ids = {e[1] : e \in found} \ HitBy(loc[q].hits)
<1>1. PICK found \in Cut(ready, ContentLimit) :
        loc' = [loc EXCEPT ![q] = [loc[q] EXCEPT !.ids = {e[1] : e \in found} \ HitBy(loc[q].hits)]]
  BY DEF SearchContent, Note
<1>2. found \subseteq Thread \X Turn \X Turn
  BY DEF Cut, LibTypeOK
<1>3. {e[1] : e \in found} \ HitBy(loc[q].hits) \in SUBSET Thread
  BY <1>2
<1>4. loc'[q] = [loc[q] EXCEPT !.ids = {e[1] : e \in found} \ HitBy(loc[q].hits)]
  BY <1>1 DEF LibTypeOK
<1> QED
  BY <1>3, <1>4

LEMMA SearchResolveNotes ==
    ASSUME LibTypeOK, NEW q \in Request, SearchResolve(q)
    PROVE  /\ loc'[q] \in Local /\ loc'[q].op = loc[q].op
           /\ loc'[q].hits = loc[q].hits \cup ((loc[q].ids \cap Live) \X {"text"})
<1> DEFINE new == [loc[q] EXCEPT !.hits = @ \cup ((loc[q].ids \cap Live) \X {"text"}), !.ids = {}]
<1>1. loc[q] \in Local
  BY DEF LibTypeOK
<1>2. new \in Local /\ new.op = loc[q].op
      /\ new.hits = loc[q].hits \cup ((loc[q].ids \cap Live) \X {"text"})
  BY <1>1 DEF Local
<1> HIDE DEF new
<1>3. loc'[q] = new
  BY DEF LibTypeOK, SearchResolve, Note, new
<1> QED
  BY <1>2, <1>3

LEMMA ReindexCommitNotes ==
    ASSUME LibTypeOK, NEW q \in Request, ReindexCommit(q)
    PROVE  /\ loc'[q] \in Local /\ loc'[q].op = loc[q].op /\ loc'[q].t = loc[q].t
           /\ loc'[q].new = loc[q].new /\ loc'[q].todo = loc[q].todo /\ loc'[q].copy = loc[q].copy
<1> DEFINE new == [loc[q] EXCEPT !.seen = {}, !.turns = {}]
<1>1. loc[q] \in Local
  BY DEF LibTypeOK
<1>2. new \in Local /\ new.op = loc[q].op /\ new.t = loc[q].t
      /\ new.new = loc[q].new /\ new.todo = loc[q].todo /\ new.copy = loc[q].copy
  BY <1>1 DEF Local
<1> HIDE DEF new
<1>3. loc'[q] = new
  BY DEF LibTypeOK, ReindexCommit, Note, new
<1> QED
  BY <1>2, <1>3

(* A step is of one request: the others stay where they are and keep their   *)
(* locals.                                                                   *)
LEMMA OthersWait ==
    ASSUME LibTypeOK, NEW q \in Request, Step(q)
    PROVE  \A p \in Request \ {q} : pc'[p] = pc[p] /\ loc'[p] = loc[p]
BY DEF LibTypeOK, At, Goto, Move, Note, Step, TurnStart, TurnGraph, TurnAnswer,
   TurnTitle, TurnCleanup, ReindexBegin, ReindexCommit, ReindexVector, ReindexFail,
   CommandStart, CommandNext, PatchRead, PatchSave, DeleteGet, DeleteHist, DeleteRow,
   DeleteIndex, BulkSnapshot, BulkHist, BulkRows, SearchTitles, SearchContent,
   SearchResolve, CreateChat, Thread, RowOf, RowsOf, After, FirstDelete, Unstarred

(* The locals of the request that steps stay of their type, and at the label *)
(* of its operation.                                                         *)
LEMMA LocalStep ==
    ASSUME LibTypeOK, Placed, NEW q \in Request, Step(q)
    PROVE  loc'[q] \in Local
<1> USE DEF LibTypeOK, At, Goto, Move, Note
<1>1. CASE TurnTitle(q) \/ TurnCleanup(q) \/ PatchSave(q) \/ DeleteIndex(q) \/
            BulkRows(q) \/ TurnGraph(q) \/ DeleteRow(q) \/ CreateChat(q)
  BY <1>1, NothingNoted DEF TurnTitle, TurnCleanup, PatchSave, DeleteIndex, BulkRows,
     TurnGraph, DeleteRow, CreateChat
<1>2. CASE ReindexVector(q) \/ ReindexFail(q)
  BY <1>2, NothingNoted DEF ReindexVector, ReindexFail, After
<1>3. CASE TurnStart(q)
  BY <1>3, TurnStartNotes
<1>4. CASE TurnAnswer(q)
  <2>1. loc[q] \in Local 
        /\ loc'[q] = [loc[q] EXCEPT !.turns = hist[loc[q].t]]
    BY <1>4 DEF TurnAnswer
  <2>2. hist[loc[q].t] \in SUBSET Turn
    BY <2>1, <1>4 DEF TurnAnswer, Placed, InPlace
  <2> QED
    BY <2>1, <2>2 DEF Local
<1>5. CASE ReindexBegin(q)
  <2>1. loc[q] \in Local 
        /\ loc'[q] = [loc[q] EXCEPT !.seen = RowsOf(loc[q].t)]
    BY <1>5 DEF ReindexBegin
  <2>2. RowsOf(loc[q].t) \in SUBSET (Thread \X Turn \X Turn)
    BY <2>1 DEF RowsOf
  <2> QED
    BY <2>1, <2>2 DEF Local
<1>6. CASE ReindexCommit(q)
  BY <1>6, ReindexCommitNotes
<1>7. CASE CommandStart(q)
  <2>1. loc[q] \in Local 
        /\ loc'[q] = [NoLocal EXCEPT !.op = "command", !.todo = Live]
    BY <1>7 DEF CommandStart
  <2>2. Live \in SUBSET Thread
    BY <2>1 DEF Live
  <2> QED
    BY <2>1, <2>2 DEF Local, NoLocal
<1>8. CASE CommandNext(q)
  BY <1>8, CommandNextNotes
<1>9. CASE PatchRead(q)
  BY <1>9, PatchReadNotes
<1>10. CASE DeleteGet(q)
  <2>1. PICK t \in Live : loc'[q] = [NoLocal EXCEPT !.op = "delete", !.t = t]
    BY <1>10 DEF DeleteGet
  <2>2. t \in Thread
    BY DEF Live
  <2> QED
    BY <2>1, <2>2 DEF NoLocal, Local
<1>11. CASE DeleteHist(q)
  <2>1. [NoLocal EXCEPT !.failed = TRUE] \in Local
    BY DEF NoLocal, Local
  <2> QED
    BY <1>11, <2>1, NothingNoted DEF DeleteHist
<1>12. CASE BulkSnapshot(q)
  BY <1>12, BulkSnapshotNotes
<1>13. CASE BulkHist(q)
  BY <1>13, BulkHistNotes
<1>14. CASE SearchTitles(q)
  BY <1>14, TitlesNoted
<1>15. CASE SearchContent(q)
  <2>1. loc[q] \in Local
    OBVIOUS
  <2>2. PICK ids \in SUBSET Thread : loc'[q] = [loc[q] EXCEPT !.ids = ids]
    BY <1>15, ContentNoted
  <2> QED
    BY <2>1, <2>2 DEF Local
<1>16. CASE SearchResolve(q)
  BY <1>16, SearchResolveNotes
<1> QED
  BY <1>1, <1>2, <1>3, <1>4, <1>5, <1>6, <1>7, <1>8, <1>9, <1>10, <1>11, <1>12, <1>13,
     <1>14, <1>15, <1>16 DEF Step

LEMMA PlacedStep ==
    ASSUME LibTypeOK, Placed, NEW q \in Request, Step(q)
    PROVE  InPlace(q)'
<1> USE LibAssumption DEF LibTypeOK, Placed, InPlace, At, Goto, Move, Note
<1>1. CASE TurnGraph(q)
  BY <1>1 DEF TurnGraph, NoLocal
<1>2. CASE TurnAnswer(q)
  BY <1>2 DEF TurnAnswer, NoLocal
<1>3. CASE TurnTitle(q) \/ TurnCleanup(q)
  BY <1>3 DEF TurnTitle, TurnCleanup, NoLocal
<1>4. CASE ReindexBegin(q)
  BY <1>4 DEF ReindexBegin, RowsOf, NoLocal
<1>5. CASE ReindexVector(q)
  BY <1>5 DEF ReindexVector, After, NoLocal
<1>6. CASE ReindexFail(q)
  BY <1>6 DEF ReindexFail, After, NoLocal
<1>7. CASE CommandStart(q)
  BY <1>7 DEF CommandStart, NoLocal
<1>8. CASE PatchSave(q) \/ DeleteHist(q) \/ DeleteRow(q)
  BY <1>8 DEF PatchSave, DeleteHist, DeleteRow, NoLocal
<1>9. CASE DeleteIndex(q) \/ BulkRows(q)
  BY <1>9 DEF DeleteIndex, BulkRows, RowsOf, NoLocal, Unstarred
<1>10. CASE SearchTitles(q)
  BY <1>10, TitlesNoted DEF SearchTitles
<1>11. CASE SearchContent(q)
  BY <1>11, ContentNoted DEF SearchContent, Local
<1>12. CASE TurnStart(q)
  <2>1. pc'[q] = "graph"
    BY <1>12 DEF TurnStart
  <2>2. PICK t \in SqlThread : loc'[q].op = "turn" /\ loc'[q].t = t /\ loc'[q].todo = {}
    BY <1>12, TurnStartNotes
  <2> QED
    BY <2>1, <2>2 DEF Thread
<1>13. CASE ReindexCommit(q)
  <2>1. pc'[q] = "vector" /\ pc[q] = "commit"
    BY <1>13 DEF ReindexCommit
  <2> QED
    BY <1>13, <2>1, ReindexCommitNotes
<1>14. CASE CommandNext(q)
  <2>1. pc'[q] = "begin" /\ pc[q] = "next"
    BY <1>14 DEF CommandNext
  <2> QED
    BY <1>14, <2>1, CommandNextNotes
<1>15. CASE PatchRead(q)
  <2>1. pc'[q] = "save"
    BY <1>15 DEF PatchRead
  <2> QED
    BY <1>15, <2>1, PatchReadNotes DEF Thread
<1>16. CASE DeleteGet(q)
  <2>1. PICK t \in Live :
            pc'[q] = FirstDelete(t) /\ loc'[q] = [NoLocal EXCEPT !.op = "delete", !.t = t]
    BY <1>16 DEF DeleteGet
  <2>2. t \in Thread /\ FirstDelete(t) \in {"del_hist", "del_row"}
    BY DEF Live, FirstDelete
  <2> QED
    BY <1>16, <2>1, <2>2 DEF NoLocal
<1>17. CASE BulkSnapshot(q)
  <2>1. pc'[q] = "bulk"
    BY <1>17 DEF BulkSnapshot
  <2> QED
    BY <1>17, <2>1, BulkSnapshotNotes
<1>18. CASE BulkHist(q)
  <2>1. pc'[q] = "bulk" /\ pc[q] = "bulk"
    BY <1>18 DEF BulkHist
  <2> QED
    BY <1>18, <2>1, BulkHistNotes
<1>19. CASE SearchResolve(q)
  <2>1. pc'[q] = "done" /\ pc[q] = "resolve"
    BY <1>19 DEF SearchResolve
  <2> QED
    BY <1>19, <2>1, SearchResolveNotes
<1>20. CASE CreateChat(q)
  <2>1. pc'[q] = "done" /\ loc'[q] = NoLocal
    BY <1>20 DEF CreateChat
  <2> QED
    BY <1>20, <2>1 DEF NoLocal
<1> QED
  BY <1>1, <1>2, <1>3, <1>4, <1>5, <1>6, <1>7, <1>8, <1>9, <1>10, <1>11, <1>12, <1>13,
     <1>14, <1>15, <1>16, <1>17, <1>18, <1>19, <1>20 DEF Step

(* The three stores keep their types.                                        *)
LEMMA TypeStep ==
    ASSUME LibTypeOK, Placed, NEW q \in Request, Step(q)
    PROVE  /\ row' \in [Thread -> {None} \cup [title : Titles, starred : BOOLEAN]]
           /\ hist' \in [Thread -> SUBSET Turn] /\ index' \subseteq Thread \X Turn \X Turn
           /\ ready' \subseteq index' /\ unborn' \subseteq SqlThread
<1> USE DEF LibTypeOK, Placed, InPlace, At, Goto, Move, Turn, Thread
<1>1. CASE TurnGraph(q) \/ TurnAnswer(q) \/ TurnCleanup(q) \/ ReindexBegin(q) \/
            ReindexCommit(q) \/ ReindexVector(q) \/ ReindexFail(q) \/ CommandStart(q)
  BY <1>1 DEF TurnGraph, TurnAnswer, TurnCleanup, ReindexBegin, ReindexCommit,
     ReindexVector, ReindexFail, CommandStart, Local, RowsOf, After
<1>2. CASE CommandNext(q) \/ PatchRead(q) \/ DeleteGet(q) \/ DeleteHist(q) \/
            DeleteRow(q) \/ DeleteIndex(q) \/ BulkSnapshot(q) \/ BulkHist(q)
  BY <1>2 DEF CommandNext, PatchRead, DeleteGet, DeleteHist, DeleteRow, DeleteIndex,
     BulkSnapshot, BulkHist, RowOf, FirstDelete, RowsOf, Unstarred
<1>3. CASE BulkRows(q) \/ SearchTitles(q) \/ SearchContent(q) \/
            SearchResolve(q)
  BY <1>3 DEF BulkRows, SearchTitles, SearchContent, SearchResolve, Unstarred
<1>4. CASE TurnStart(q)
  <2>1. PICK t \in SqlThread : row' \in {row, [row EXCEPT ![t] = RowOf("New Chat", FALSE)]}
    BY <1>4, TurnStartNotes
  <2>2. RowOf("New Chat", FALSE) \in [title : Titles, starred : BOOLEAN]
    BY RowsTyped
  <2>3. row' \in [Thread -> {None} \cup [title : Titles, starred : BOOLEAN]]
    BY <2>1, <2>2
  <2> QED
    BY <1>4, <2>3 DEF TurnStart
<1>5. CASE TurnTitle(q)
  <2>1. CASE row[loc[q].t] = None
    BY <1>5, <2>1 DEF TurnTitle
  <2>2. CASE row[loc[q].t] # None
    <3>1. loc[q].t \in Thread
      BY <1>5 DEF TurnTitle
    <3>2. row[loc[q].t] \in [title : Titles, starred : BOOLEAN]
      BY <2>2, <3>1
    <3>3. [row[loc[q].t] EXCEPT !.title = "generated"] \in [title : Titles, starred : BOOLEAN]
      BY <3>2, RowsTyped
    <3>4. row' \in [Thread -> {None} \cup [title : Titles, starred : BOOLEAN]]
      BY <1>5, <2>2, <3>1, <3>3 DEF TurnTitle
    <3> QED
      BY <1>5, <2>2, <3>4 DEF TurnTitle
  <2> QED
    BY <2>1, <2>2
<1>6. CASE PatchSave(q)
  <2>1. loc[q].copy \in {None} \cup [title : Titles, starred : BOOLEAN]
    BY DEF Local
  <2> QED
    BY <1>6, <2>1 DEF PatchSave
<1>7. CASE CreateChat(q)
  <2>1. RowOf("New Chat", FALSE) \in [title : Titles, starred : BOOLEAN]
    BY RowsTyped
  <2>2. PICK t \in SqlThread : row' = [row EXCEPT ![t] = RowOf("New Chat", FALSE)]
    BY <1>7 DEF CreateChat
  <2>3. row' \in [Thread -> {None} \cup [title : Titles, starred : BOOLEAN]]
    BY <2>1, <2>2
  <2> QED
    BY <1>7, <2>3 DEF CreateChat
<1> QED
  BY <1>1, <1>2, <1>3, <1>4, <1>5, <1>6, <1>7 DEF Step



LEMMA LocFunction ==
    ASSUME LibTypeOK, NEW q \in Request, Step(q)
    PROVE  loc' = [p \in Request |-> loc'[p]]
BY DEF LibTypeOK, Move, Note, Step, TurnStart, TurnGraph, TurnAnswer, TurnTitle,
   TurnCleanup, ReindexBegin, ReindexCommit, ReindexVector, ReindexFail, CommandStart,
   CommandNext, PatchRead, PatchSave, DeleteGet, DeleteHist, DeleteRow, DeleteIndex,
   BulkSnapshot, BulkHist, BulkRows, SearchTitles, SearchContent, SearchResolve, CreateChat,
   Thread, RowOf, RowsOf, After, FirstDelete, Unstarred

(* The thread of a turn or of a PATCH, and whether the turn created it, are *)
(* fixed when the request begins; the list of a cleanup only shrinks.        *)
Continues(q) ==
    \/ loc'[q].op \notin {"turn", "patch", "bulk"}
    \/ /\ loc[q].op \in {"turn", "patch"} /\ loc'[q].op = loc[q].op
       /\ loc'[q].t = loc[q].t /\ loc'[q].new = loc[q].new
    \/ loc[q].op = "bulk" /\ loc'[q].op = "bulk" /\ loc'[q].todo \subseteq loc[q].todo

LEMMA NotesContinue ==
    ASSUME LibTypeOK, Placed, NEW q \in Request, Step(q)
    PROVE  TurnStart(q) \/ PatchRead(q) \/ BulkSnapshot(q) \/ Continues(q)
<1> USE DEF LibTypeOK, Placed, InPlace, Continues, At, Goto, Move, Note
<1>1. CASE TurnGraph(q) \/ TurnAnswer(q) \/ TurnTitle(q) \/ TurnCleanup(q)
  BY <1>1 DEF TurnGraph, TurnAnswer, TurnTitle, TurnCleanup, NoLocal, Local
<1>2. CASE ReindexBegin(q) \/ ReindexVector(q)
  BY <1>2 DEF ReindexBegin, ReindexVector, RowsOf, Local, After, NoLocal
<1>3. CASE ReindexFail(q)
  BY <1>3 DEF ReindexFail, After, NoLocal
<1>4. CASE CommandStart(q)
  BY <1>4 DEF CommandStart, NoLocal
<1>5. CASE PatchSave(q)
  BY <1>5 DEF PatchSave, NoLocal
<1>6. CASE DeleteGet(q)
  BY <1>6 DEF DeleteGet, FirstDelete, NoLocal
<1>7. CASE DeleteHist(q) \/ DeleteRow(q)
  BY <1>7 DEF DeleteHist, DeleteRow, NoLocal
<1>8. CASE DeleteIndex(q) \/ BulkRows(q)
  BY <1>8 DEF DeleteIndex, BulkRows, RowsOf, NoLocal, Unstarred
<1>9. CASE SearchTitles(q)
  BY <1>9, TitlesNoted DEF SearchTitles
<1>10. CASE SearchContent(q)
  BY <1>10, ContentNoted DEF SearchContent, Local
<1>11. CASE CreateChat(q)
  BY <1>11 DEF CreateChat, RowOf, NoLocal
<1>12. CASE TurnStart(q)
  BY <1>12
<1>13. CASE ReindexCommit(q)
  BY <1>13, ReindexCommitNotes DEF ReindexCommit
<1>14. CASE CommandNext(q)
  BY <1>14, CommandNextNotes DEF CommandNext
<1>15. CASE PatchRead(q)
  BY <1>15
<1>16. CASE BulkSnapshot(q)
  BY <1>16
<1>17. CASE BulkHist(q)
  BY <1>17, BulkHistNotes DEF BulkHist
<1>18. CASE SearchResolve(q)
  BY <1>18, SearchResolveNotes DEF SearchResolve
<1> QED
  BY <1>1, <1>2, <1>3, <1>4, <1>5, <1>6, <1>7, <1>8, <1>9, <1>10, <1>11, <1>12, <1>13,
     <1>14, <1>15, <1>16, <1>17, <1>18 DEF Step

(* No step writes to a thread whose id has not been produced.                *)
LEMMA UnbornStay ==
    ASSUME LibTypeOK, Placed, UnbornAreNew, NEW t \in unborn', NEW q \in Request, Step(q)
    PROVE  t \in unborn /\ row'[t] = row[t]
<1> USE DEF LibTypeOK, Placed, InPlace, UnbornAreNew, Thread, At, Goto, Move
<1>1. CASE TurnStart(q) \/ TurnGraph(q) \/ TurnAnswer(q) \/ TurnCleanup(q) \/
            ReindexBegin(q) \/ ReindexCommit(q) \/ ReindexVector(q) \/ ReindexFail(q)
  BY <1>1 DEF TurnStart, TurnGraph, TurnAnswer, TurnCleanup, ReindexBegin, ReindexCommit,
     ReindexVector, ReindexFail, RowOf, RowsOf, After
<1>2. CASE CommandStart(q) \/ CommandNext(q)
  BY <1>2 DEF CommandStart, CommandNext
<1>3. CASE PatchRead(q)
  BY <1>3 DEF PatchRead, RowOf, Live
<1>4. CASE PatchSave(q)
  BY <1>4 DEF PatchSave
<1>5. CASE DeleteGet(q) \/ DeleteHist(q) \/ DeleteRow(q) \/ DeleteIndex(q)
  BY <1>5 DEF DeleteGet, DeleteHist, DeleteRow, DeleteIndex, FirstDelete, RowsOf
<1>6. CASE BulkSnapshot(q) \/ BulkHist(q) \/ SearchTitles(q) \/ SearchContent(q)
            \/ SearchResolve(q) \/ CreateChat(q)
  BY <1>6 DEF BulkSnapshot, BulkHist, SearchTitles, SearchContent, SearchResolve,
     CreateChat, Unstarred, Live
<1>7. CASE TurnTitle(q)
  <2>1. t # loc[q].t \/ row[loc[q].t] = None
    BY <1>7 DEF TurnTitle
  <2>2. CASE row[loc[q].t] = None
    BY <1>7, <2>2 DEF TurnTitle
  <2>3. CASE t # loc[q].t
    BY <1>7, <2>3 DEF TurnTitle
  <2> QED
    BY <2>1, <2>2, <2>3
<1>8. CASE BulkRows(q)
  BY <1>8 DEF BulkRows, Unstarred, Live, Thread
<1> QED
  BY <1>1, <1>2, <1>3, <1>4, <1>5, <1>6, <1>7, <1>8 DEF Step

(* Only a turn adds to a checkpoint, and it keeps what it has loaded.        *)
LEMMA HistStep ==
    ASSUME LibTypeOK, Placed, NEW t \in Thread, NEW q \in Request, Step(q)
    PROVE  \/ hist'[t] \subseteq hist[t]
           \/ pc[q] = "graph" /\ loc[q].t = t /\ hist'[t] = loc[q].turns \cup {q}
<1> USE DEF LibTypeOK, Placed, InPlace, At, Goto, Move
<1>1. CASE TurnStart(q) \/ TurnGraph(q) \/ TurnAnswer(q) \/ TurnTitle(q) \/
            TurnCleanup(q) \/ ReindexBegin(q) \/ ReindexCommit(q) \/ ReindexVector(q) \/
            ReindexFail(q) \/ CommandStart(q) \/ CommandNext(q) \/ PatchRead(q) \/
            PatchSave(q) \/ DeleteGet(q) \/ DeleteHist(q) \/ DeleteRow(q) \/ DeleteIndex(q)
            \/ BulkSnapshot(q) \/ BulkRows(q) \/ SearchTitles(q) \/ SearchContent(q) \/
            SearchResolve(q) \/ CreateChat(q)
  BY <1>1 DEF TurnStart, TurnGraph, TurnAnswer, TurnTitle, TurnCleanup, ReindexBegin,
     ReindexCommit, ReindexVector, ReindexFail, CommandStart, CommandNext, PatchRead,
     PatchSave, DeleteGet, DeleteHist, DeleteRow, DeleteIndex, BulkSnapshot, BulkRows,
     SearchTitles, SearchContent, SearchResolve, CreateChat, Thread, RowOf, RowsOf, After,
     FirstDelete, Unstarred
<1>2. CASE BulkHist(q)
  BY <1>2, BulkHistNotes DEF BulkHist
<1> QED
  BY <1>1, <1>2 DEF Step

LEMMA UnbornStep ==
    ASSUME LibTypeOK, Placed, UnbornAreNew, NEW q \in Request, Step(q)
    PROVE  UnbornAreNew'
<1>2. ASSUME NEW t \in unborn', NEW p \in Request, loc'[p].op = "patch" PROVE loc'[p].t # t
  <2>1. t \in unborn
    BY UnbornStay
  <2>2. CASE p # q
    BY <1>2, <2>1, <2>2, OthersWait DEF UnbornAreNew
  <2>3. CASE p = q
    <3>1. CASE TurnStart(q)
      BY <1>2, <2>3, <3>1, TurnStartNotes
    <3>2. CASE BulkSnapshot(q)
      BY <1>2, <2>3, <3>2, BulkSnapshotNotes
    <3>3. CASE PatchRead(q)
      BY <1>2, <2>1, <2>3, <3>3, PatchReadNotes DEF UnbornAreNew, Live
    <3>4. CASE Continues(q)
      BY <1>2, <2>1, <2>3, <3>4 DEF Continues, UnbornAreNew
    <3> QED
      BY <3>1, <3>2, <3>3, <3>4, NotesContinue
  <2> QED
    BY <2>2, <2>3
<1> QED
  BY <1>2, UnbornStay DEF UnbornAreNew

LEMMA ApartStep ==
    ASSUME LibTypeOK, Placed, TurnsApart, NEW q \in Request, Step(q)
    PROVE  TurnsApart'
<1> SUFFICES ASSUME NEW p \in Request, p # q, loc'[p].op = "turn", loc'[q].op = "turn",
                    loc'[p].t = loc'[q].t
             PROVE  FALSE
  BY OthersWait DEF TurnsApart
<1>1. loc'[p] = loc[p]
  BY OthersWait
<1>2. pc[p] # "done"
  BY <1>1 DEF Placed, InPlace
<1>3. CASE TurnStart(q)
  BY <1>1, <1>2, <1>3, TurnStartNotes
<1>4. CASE PatchRead(q)
  BY <1>4, PatchReadNotes
<1>5. CASE BulkSnapshot(q)
  BY <1>5, BulkSnapshotNotes
<1>6. CASE Continues(q)
  BY <1>1, <1>6 DEF Continues, TurnsApart
<1> QED
  BY <1>3, <1>4, <1>5, <1>6, NotesContinue

LEMMA LoadedStep ==
    ASSUME LibTypeOK, Placed, TurnsApart, LoadedAll, NEW q \in Request, Step(q)
    PROVE  LoadedAll'
<1> SUFFICES ASSUME NEW p \in Request, pc'[p] = "graph"
             PROVE  hist'[loc'[p].t] \subseteq loc'[p].turns
  BY DEF LoadedAll
<1>1. CASE p # q
  <2>1. pc[p] = "graph" /\ loc'[p] = loc[p]
    BY <1>1, OthersWait
  <2>2. loc[p].t \in Thread /\ loc[p].op = "turn"
    BY <2>1 DEF Placed, InPlace
  <2>3. ~(pc[q] = "graph" /\ loc[q].t = loc[p].t)
    BY <1>1, <2>2 DEF TurnsApart, Placed, InPlace
  <2> QED
    BY <2>1, <2>2, <2>3, HistStep DEF LoadedAll
<1>2. CASE p = q
  <2>1. TurnStart(q)
    BY <1>2 DEF TurnStart, TurnGraph, TurnAnswer, TurnTitle, TurnCleanup,
       ReindexBegin, ReindexCommit, ReindexVector, ReindexFail, CommandStart, CommandNext,
       PatchRead, PatchSave, DeleteGet, DeleteHist, DeleteRow, DeleteIndex, BulkSnapshot,
       BulkHist, BulkRows, SearchTitles, SearchContent, SearchResolve, CreateChat, Step, At,
       Goto, Move, LibTypeOK, After, FirstDelete
  <2> QED
    BY <1>2, <2>1, TurnStartNotes DEF TurnStart
<1> QED
  BY <1>1, <1>2

LEMMA FirmStep ==
    ASSUME LibTypeOK, Placed, Placed', UnbornAreNew, FirmIsSafe,
           NEW q \in Request, Step(q), Observe(q)
    PROVE  FirmIsSafe'
<1> SUFFICES ASSUME NEW t \in firm'
             PROVE  /\ row'[t] # None /\ row'[t].starred
                    /\ \A p \in Request :
                        /\ loc'[p].op = "turn" /\ loc'[p].t = t => ~loc'[p].new
                        /\ loc'[p].op = "bulk" => t \notin loc'[p].todo
  BY DEF FirmIsSafe
<1>1. row'[t] # None /\ row'[t].starred /\ (t \in firm \/ Quiet')
  BY DEF Observe
<1>2. ASSUME NEW p \in Request, Quiet' PROVE loc'[p].op \notin {"turn", "bulk"}
  BY <1>2 DEF Quiet, Placed, InPlace, NoLocal
<1>3. ASSUME NEW p \in Request, t \in firm
      PROVE  /\ loc'[p].op = "turn" /\ loc'[p].t = t => ~loc'[p].new
             /\ loc'[p].op = "bulk" => t \notin loc'[p].todo
  <2>1. CASE p # q
    BY <1>3, <2>1, OthersWait DEF FirmIsSafe
  <2>2. CASE p = q
    <3>1. CASE TurnStart(q)
      <4>1. t \notin unborn
        BY <1>3 DEF FirmIsSafe, UnbornAreNew
      <4>2. PICK s \in SqlThread :
                loc'[q].op = "turn" /\ loc'[q].t = s /\ (loc'[q].new => s \in unborn)
        BY <3>1, TurnStartNotes
      <4> QED
        BY <2>2, <4>1, <4>2
    <3>2. CASE PatchRead(q)
      BY <2>2, <3>2, PatchReadNotes
    <3>3. CASE BulkSnapshot(q)
      BY <1>3, <2>2, <3>3, BulkSnapshotNotes DEF FirmIsSafe, Unstarred
    <3>4. CASE Continues(q)
      BY <1>3, <2>2, <3>4 DEF Continues, FirmIsSafe
    <3> QED
      BY <3>1, <3>2, <3>3, <3>4, NotesContinue
  <2> QED
    BY <2>1, <2>2
<1> QED
  BY <1>1, <1>2, <1>3

(* What is found and what is exact depend on the stores alone.               *)
LEMMA SearchSeesStores ==
    ASSUME UNCHANGED <<row, index, ready>>
    PROVE  /\ Live' = Live /\ Renamed' = Renamed /\ TitleHits' = TitleHits
           /\ \A t : RowsOf(t)' = RowsOf(t)
           /\ Cut(ready, ContentLimit)' = Cut(ready, ContentLimit)
           /\ \A hits : Exact(hits)' <=> Exact(hits)
<1>1. Live' = Live /\ \A t : RowsOf(t)' = RowsOf(t)
  BY DEF Live, RowsOf
<1>2. Renamed' = Renamed
  BY <1>1 DEF Renamed
<1>3. TitleHits' = TitleHits /\ Cut(ready, ContentLimit)' = Cut(ready, ContentLimit)
  BY <1>2 DEF TitleHits, Cut
<1>4. ASSUME NEW hits PROVE Exact(hits)' <=> Exact(hits)
  BY <1>1, <1>2 DEF Exact, HitBy
<1> QED
  BY <1>1, <1>2, <1>3, <1>4

LEMMA UndisturbedStep ==
    ASSUME LibTypeOK, NEW q \in Request, Step(q), Observe(q),
           NEW p \in alone', p # q, p \in alone => Knows(p)
    PROVE  Knows(p)'
<1>1. p \in alone /\ UNCHANGED store
  BY DEF Observe
<1>2. pc'[p] = pc[p] /\ loc'[p] = loc[p]
  BY OthersWait DEF Observe
<1>3. Live' = Live /\ Unstarred' = Unstarred /\ Renamed' = Renamed
  BY <1>1 DEF store, Live, Unstarred, Renamed
<1>4. \A t : RowsOf(t)' = RowsOf(t) /\ (NoRows(t)' <=> NoRows(t))
  BY <1>1 DEF store, RowsOf, NoRows
<1>5. /\ TitleHits' = TitleHits /\ Cut(ready, ContentLimit)' = Cut(ready, ContentLimit)
      /\ \A hits : Exact(hits)' <=> Exact(hits)
  BY <1>1, SearchSeesStores DEF store
<1>6. Indexing(p)'
  BY <1>1, <1>2, <1>4 DEF Knows, Indexing, store
<1>7. Searching(p)'
  <2>1. Searching(p)
    BY <1>1 DEF Knows
  <2> QED
    BY <1>1, <1>2, <1>3, <1>4, <1>5, <2>1 DEF Searching, Exact, HitBy, store
<1>8. Deleting(p)'
  BY <1>1, <1>2, <1>4 DEF Knows, Deleting, store
<1>9. Cleaning(p)'
  BY <1>1, <1>2, <1>3 DEF Knows, Cleaning, store
<1> QED
  BY <1>6, <1>7, <1>8, <1>9 DEF Knows

(* What the request that steps knows of the stores, one kind at a time.      *)
LEMMA IndexingStep ==
    ASSUME LibTypeOK, Placed, NEW q \in Request, Step(q)
    PROVE  (q \in alone \/ pc[q] \in ReadsAt) /\ (q \in alone => Indexing(q)) => Indexing(q)'
<1> USE DEF LibTypeOK, Placed, InPlace, Indexing, ReadsAt, At, Goto, Move, Note
<1>1. CASE TurnStart(q) \/ TurnGraph(q)
  BY <1>1 DEF TurnStart, TurnGraph
<1>2. CASE TurnAnswer(q) \/ TurnTitle(q)
  BY <1>2 DEF TurnAnswer, TurnTitle, Local
<1>3. CASE TurnCleanup(q) \/ ReindexBegin(q) \/ ReindexCommit(q) \/
            ReindexVector(q)
  BY <1>3 DEF TurnCleanup, ReindexBegin, ReindexCommit, ReindexVector, RowsOf, Local,
     After
<1>4. CASE ReindexFail(q) \/ CommandStart(q) \/ PatchRead(q) \/ PatchSave(q) \/
            DeleteGet(q) \/ DeleteHist(q) \/ DeleteRow(q) \/ DeleteIndex(q)
  BY <1>4 DEF ReindexFail, CommandStart, PatchRead, PatchSave, DeleteGet, DeleteHist,
     DeleteRow, DeleteIndex, After, FirstDelete, RowsOf
<1>5. CASE BulkSnapshot(q) \/ BulkHist(q) \/ BulkRows(q) \/ SearchTitles(q) \/
            SearchContent(q) \/ SearchResolve(q) \/ CreateChat(q)
  BY <1>5 DEF BulkSnapshot, BulkHist, BulkRows, SearchTitles, SearchContent,
     SearchResolve, CreateChat, Unstarred, RowOf
<1>6. CASE CommandNext(q)
  BY <1>6, CommandNextNotes DEF CommandNext
<1> QED
  BY <1>1, <1>2, <1>3, <1>4, <1>5, <1>6 DEF Step

LEMMA DeletingStep ==
    ASSUME LibTypeOK, Placed, NEW q \in Request, Step(q)
    PROVE  (q \in alone \/ pc[q] \in ReadsAt) /\ (q \in alone => Deleting(q)) => Deleting(q)'
<1> USE DEF LibTypeOK, Placed, InPlace, Deleting, ReadsAt, At, Goto, Move, Note,
        NoRows
<1>1. CASE TurnStart(q) \/ TurnGraph(q) \/ TurnAnswer(q) \/ TurnTitle(q) \/
            TurnCleanup(q) \/ ReindexBegin(q) \/ ReindexCommit(q) \/ ReindexVector(q)
  BY <1>1 DEF TurnStart, TurnGraph, TurnAnswer, TurnTitle, TurnCleanup, ReindexBegin,
     ReindexCommit, ReindexVector, RowsOf, After
<1>2. CASE ReindexFail(q) \/ CommandStart(q) \/ CommandNext(q) \/ PatchRead(q)
  BY <1>2 DEF ReindexFail, CommandStart, CommandNext, PatchRead, After
<1>3. CASE PatchSave(q)
  BY <1>3 DEF PatchSave
<1>4. CASE DeleteGet(q)
  BY <1>4 DEF DeleteGet, FirstDelete, NoLocal
<1>5. CASE DeleteHist(q) \/ DeleteRow(q)
  BY <1>5 DEF DeleteHist, DeleteRow
<1>6. CASE DeleteIndex(q) \/ BulkSnapshot(q) \/ BulkHist(q) \/ BulkRows(q) \/
            SearchTitles(q) \/ SearchContent(q) \/ SearchResolve(q) \/ CreateChat(q)
  BY <1>6 DEF DeleteIndex, BulkSnapshot, BulkHist, BulkRows, SearchTitles, SearchContent,
     SearchResolve, CreateChat, RowsOf, Unstarred, RowOf
<1> QED
  BY <1>1, <1>2, <1>3, <1>4, <1>5, <1>6 DEF Step

LEMMA CleaningStep ==
    ASSUME LibTypeOK, Placed, NEW q \in Request, Step(q)
    PROVE  (q \in alone \/ pc[q] \in ReadsAt) /\ (q \in alone => Cleaning(q)) => Cleaning(q)'
<1> USE DEF LibTypeOK, Placed, InPlace, Cleaning, ReadsAt, At, Goto, Move, Note
<1>1. CASE TurnStart(q) \/ TurnGraph(q) \/ TurnAnswer(q) \/ TurnTitle(q) \/
            TurnCleanup(q) \/ ReindexBegin(q) \/ ReindexCommit(q) \/ ReindexVector(q) \/
            ReindexFail(q) \/ CommandStart(q) \/ CommandNext(q) \/ PatchRead(q) \/
            PatchSave(q) \/ DeleteGet(q) \/ DeleteHist(q) \/ DeleteRow(q) \/ DeleteIndex(q)
            \/ BulkRows(q) \/ SearchTitles(q) \/ SearchContent(q) \/ SearchResolve(q) \/
            CreateChat(q)
  BY <1>1 DEF TurnStart, TurnGraph, TurnAnswer, TurnTitle, TurnCleanup, ReindexBegin,
     ReindexCommit, ReindexVector, ReindexFail, CommandStart, CommandNext, PatchRead,
     PatchSave, DeleteGet, DeleteHist, DeleteRow, DeleteIndex, BulkRows, SearchTitles,
     SearchContent, SearchResolve, CreateChat, RowsOf, After, FirstDelete, Unstarred, RowOf
<1>2. CASE BulkSnapshot(q)
  BY <1>2, BulkSnapshotNotes DEF BulkSnapshot, Unstarred, Live
<1>3. CASE BulkHist(q)
  BY <1>3, BulkHistNotes DEF BulkHist, Unstarred, Live
<1> QED
  BY <1>1, <1>2, <1>3 DEF Step

(* Rows that were read, or cut away, and looked up among the threads that    *)
(* are there.                                                                *)
LEMMA AnswerIsExact ==
    ASSUME LibTypeOK, NEW hits \in TitleHits, NEW found \in Cut(ready, ContentLimit), NEW ids,
           ids = {e[1] : e \in found} \ HitBy(hits)
    PROVE  Exact(hits \cup ((ids \cap Live) \X {"text"}))
<1> DEFINE all == hits \cup ((ids \cap Live) \X {"text"})
<1>1. found \subseteq ready /\ (Cardinality(ready) <= ContentLimit => found = ready)
  BY DEF Cut
<1>2. \A s : RowsOf(s) \cap ready # {} <=> \E e \in ready : e[1] = s
  BY DEF RowsOf, LibTypeOK
<1>3. ASSUME NEW h \in all
      PROVE  /\ h[1] \in Live
             /\ h[2] = "title" => row[h[1]].title = "renamed"
             /\ h[2] = "text" => RowsOf(h[1]) \cap ready # {} /\ <<h[1], "title">> \notin all
  <2>1. CASE h \in hits
    <3>1. h = <<h[1], "title">> /\ h[1] \in Renamed
      BY <2>1, TitleHitsAre
    <3> QED
      BY <3>1 DEF Renamed
  <2>2. CASE h \in (ids \cap Live) \X {"text"}
    <3>1. PICK t \in ids \cap Live : h = <<t, "text">>
      BY <2>2
    <3>2. RowsOf(t) \cap ready # {}
      BY <1>1, <1>2, <3>1
    <3>3. <<t, "title">> \notin hits
      <4>1. t \notin HitBy(hits)
        BY <3>1
      <4> QED
        BY <4>1 DEF HitBy
    <3> QED
      BY <3>1, <3>2, <3>3
  <2> QED
    BY <1>3, <2>1, <2>2
<1>4. \A kind \in {SqlThread, SchemaThread} :
        Cardinality(Renamed \cap kind) <= TitleLimit => (Renamed \cap kind) \X {"title"} \subseteq all
  BY TitleHitsAre
<1>5. ASSUME Cardinality(ready) <= ContentLimit, NEW t \in Live, RowsOf(t) \cap ready # {}
      PROVE  t \in HitBy(all)
  <2>1. t \in {e[1] : e \in found}
    BY <1>1, <1>2, <1>5
  <2>2. CASE t \in HitBy(hits)
    BY <2>2 DEF HitBy
  <2>3. CASE t \notin HitBy(hits)
    <3>1. <<t, "text">> \in all
      BY <2>1, <2>3
    <3>2. <<t, "text">>[1] = t
      OBVIOUS
    <3> HIDE DEF all
    <3> QED
      BY <3>1, <3>2 DEF HitBy
  <2> QED
    BY <2>2, <2>3
<1> HIDE DEF all
<1>6. Exact(all)
  BY <1>3, <1>4, <1>5 DEF Exact
<1> QED
  BY <1>6 DEF all

LEMMA SearchingStep ==
    ASSUME LibTypeOK, Placed, NEW q \in Request, Step(q)
    PROVE  (q \in alone \/ pc[q] \in ReadsAt) /\ (q \in alone => Searching(q)) => Searching(q)'
<1> USE DEF LibTypeOK, Placed, InPlace, Searching, ReadsAt, At, Goto, Move, Note
<1>1. CASE TurnStart(q) \/ TurnGraph(q)
  BY <1>1 DEF TurnStart, TurnGraph, NoLocal
<1>2. CASE TurnAnswer(q) \/ TurnTitle(q)
  BY <1>2 DEF TurnAnswer, TurnTitle, NoLocal
<1>3. CASE TurnCleanup(q) \/ ReindexBegin(q) \/ ReindexCommit(q) \/
            ReindexVector(q)
  BY <1>3 DEF TurnCleanup, ReindexBegin, ReindexCommit, ReindexVector, NoLocal, RowsOf,
     After
<1>4. CASE ReindexFail(q)
  BY <1>4 DEF ReindexFail, After, NoLocal
<1>5. CASE CommandStart(q)
  BY <1>5 DEF CommandStart, NoLocal
<1>6. CASE CommandNext(q) \/ PatchRead(q)
  BY <1>6 DEF CommandNext, PatchRead
<1>7. CASE PatchSave(q)
  BY <1>7 DEF PatchSave, NoLocal
<1>8. CASE DeleteGet(q)
  BY <1>8 DEF DeleteGet, FirstDelete, NoLocal
<1>9. CASE DeleteHist(q) \/ DeleteRow(q)
  BY <1>9 DEF DeleteHist, DeleteRow, NoLocal
<1>10. CASE DeleteIndex(q) \/ BulkSnapshot(q)
  BY <1>10 DEF DeleteIndex, BulkSnapshot, RowsOf, NoLocal
<1>11. CASE BulkHist(q)
  BY <1>11 DEF BulkHist
<1>12. CASE BulkRows(q)
  BY <1>12 DEF BulkRows, Unstarred, NoLocal
<1>13. CASE SearchTitles(q)
  <2>1. PICK hits \in TitleHits : loc'[q].hits = hits
    BY <1>13, TitlesNoted
  <2>2. pc'[q] = "content" /\ TitleHits' = TitleHits
    BY <1>13, SearchSeesStores DEF SearchTitles
  <2> QED
    BY <2>1, <2>2
<1>14. CASE SearchContent(q)
  <2>1. pc[q] = "content" /\ pc'[q] = "resolve" /\ UNCHANGED <<row, index, ready>>
    BY <1>14 DEF SearchContent
  <2>2. PICK ids \in SUBSET Thread : /\ loc'[q] = [loc[q] EXCEPT !.ids = ids]
                                     /\ \E found \in Cut(ready, ContentLimit) :
                                          ids = {e[1] : e \in found} \ HitBy(loc[q].hits)
    BY <1>14, ContentNoted
  <2>3. loc'[q].ids = ids /\ loc'[q].hits = loc[q].hits
    BY <2>2 DEF Local
  <2>4. TitleHits' = TitleHits /\ Cut(ready, ContentLimit)' = Cut(ready, ContentLimit)
    BY <2>1, SearchSeesStores
  <2> QED
    BY <2>1, <2>2, <2>3, <2>4 DEF HitBy
<1>15. CASE SearchResolve(q)
  <2>1. pc[q] = "resolve" /\ pc'[q] = "done" /\ UNCHANGED <<row, index, ready>>
    BY <1>15 DEF SearchResolve
  <2>2. SUFFICES ASSUME loc[q].hits \in TitleHits, NEW found \in Cut(ready, ContentLimit),
                        loc[q].ids = {e[1] : e \in found} \ HitBy(loc[q].hits)
                 PROVE  Exact(loc[q].hits)'
    BY <2>1
  <2>3. loc'[q].hits = loc[q].hits \cup ((loc[q].ids \cap Live) \X {"text"})
    BY <1>15, SearchResolveNotes
  <2> DEFINE ids == loc[q].ids
  <2>4. Exact(loc[q].hits \cup ((ids \cap Live) \X {"text"}))
    BY <2>2, AnswerIsExact
  <2>5. Exact(loc'[q].hits)
    BY <2>3, <2>4
  <2> QED
    BY <2>1, <2>5, SearchSeesStores DEF Exact, HitBy
<1>16. CASE CreateChat(q)
  <2>1. pc'[q] = "done" /\ loc'[q] = NoLocal
    BY <1>16 DEF CreateChat
  <2> QED
    BY <2>1 DEF NoLocal
<1> QED
  BY <1>1, <1>2, <1>3, <1>4, <1>5, <1>6, <1>7, <1>8, <1>9, <1>10, <1>11, <1>12, <1>13,
     <1>14, <1>15, <1>16 DEF Step

LEMMA InitInvariant == LibInit => LibIInv
<1> SUFFICES ASSUME LibInit PROVE LibIInv
  OBVIOUS
<1> USE DEF LibInit
<1>1. \A title \in Titles : RowOf(title, FALSE) \in [title : Titles, starred : BOOLEAN]
  BY DEF RowOf
<1>2. row \in [Thread -> {None} \cup [title : Titles, starred : BOOLEAN]]
  BY <1>1
<1>3. hist \in [Thread -> SUBSET Turn] /\ index \subseteq Thread \X Turn \X Turn
  BY DEF Turn
<1>4. LibTypeOK
  BY <1>2, <1>3, NothingNoted DEF LibTypeOK, Label
<1>5. NoLocal.op = "none" /\ Placed
  BY DEF NoLocal, Placed, InPlace
<1> QED
  BY <1>4, <1>5 DEF LibIInv, UnbornAreNew, TurnsApart, LoadedAll, FirmIsSafe, Thread

(* Nobody but its own delete takes the row of a firm thread, ...             *)
LEMMA RowStep ==
    ASSUME LibIInv, NEW t \in firm, NEW q \in Request, Step(q)
    PROVE  (loc[q].op = "delete" /\ loc[q].t = t) \/ row'[t] # None
<1> USE LibAssumption DEF LibIInv, LibTypeOK, Placed, InPlace, FirmIsSafe, At, Goto,
        Move, Live
<1>1. CASE TurnGraph(q) \/ TurnAnswer(q) \/ TurnCleanup(q) \/ ReindexBegin(q) \/
            ReindexCommit(q) \/ ReindexVector(q) \/ ReindexFail(q) \/ CommandStart(q) \/
            CommandNext(q) \/ PatchRead(q) \/ PatchSave(q) \/ DeleteGet(q) \/ DeleteHist(q)
            \/ DeleteRow(q) \/ DeleteIndex(q) \/ BulkSnapshot(q) \/ BulkHist(q) \/
            BulkRows(q) \/ SearchTitles(q) \/ SearchContent(q) \/ SearchResolve(q)
  BY <1>1 DEF TurnGraph, TurnAnswer, TurnCleanup, ReindexBegin, ReindexCommit,
     ReindexVector, ReindexFail, CommandStart, CommandNext, PatchRead, PatchSave, DeleteGet,
     DeleteHist, DeleteRow, DeleteIndex, BulkSnapshot, BulkHist, BulkRows, SearchTitles,
     SearchContent, SearchResolve, RowsOf, After, RowOf, FirstDelete, Unstarred
<1>2. CASE TurnStart(q)
  <2>1. RowOf("New Chat", FALSE) # None
    BY RowsTyped
  <2>2. PICK s \in SqlThread : row' \in {row, [row EXCEPT ![s] = RowOf("New Chat", FALSE)]}
    BY <1>2, TurnStartNotes
  <2> QED
    BY <2>1, <2>2
<1>3. CASE TurnTitle(q)
  <2>1. CASE row[loc[q].t] = None
    BY <1>3, <2>1 DEF TurnTitle
  <2>2. CASE row[loc[q].t] # None
    <3>1. row[loc[q].t] \in [title : Titles, starred : BOOLEAN]
      BY <1>3, <2>2 DEF TurnTitle
    <3>2. row' = [row EXCEPT ![loc[q].t] = [row[loc[q].t] EXCEPT !.title = "generated"]]
      BY <1>3, <2>2 DEF TurnTitle
    <3> QED
      BY <3>1, <3>2, RowsTyped
  <2> QED
    BY <2>1, <2>2
<1>4. CASE CreateChat(q)
  <2>1. RowOf("New Chat", FALSE) # None
    BY RowsTyped
  <2>2. PICK s \in SqlThread : row' \in {row, [row EXCEPT ![s] = RowOf("New Chat", FALSE)]}
    BY <1>4 DEF CreateChat
  <2> QED
    BY <2>1, <2>2
<1> QED
  BY <1>1, <1>2, <1>3, <1>4 DEF Step

(* ... or a turn of its history.                                             *)
LEMMA HistKept ==
    ASSUME LibIInv, NEW t \in firm, NEW q \in Request, Step(q)
    PROVE  (loc[q].op = "delete" /\ loc[q].t = t) \/ hist[t] \subseteq hist'[t]
<1> USE DEF LibIInv, LibTypeOK, Placed, InPlace, LoadedAll, FirmIsSafe, At, Goto, Move,
        Live
<1>1. CASE TurnStart(q)
  BY <1>1 DEF TurnStart, Thread, RowOf
<1>2. CASE TurnGraph(q)
  BY <1>2 DEF TurnGraph
<1>3. CASE TurnAnswer(q) \/ TurnTitle(q)
  BY <1>3 DEF TurnAnswer, TurnTitle
<1>4. CASE TurnCleanup(q) \/ ReindexBegin(q) \/ ReindexCommit(q) \/
            ReindexVector(q)
  BY <1>4 DEF TurnCleanup, ReindexBegin, ReindexCommit, ReindexVector, RowsOf, After
<1>5. CASE ReindexFail(q) \/ CommandStart(q) \/ CommandNext(q) \/ PatchRead(q)
            \/ PatchSave(q) \/ DeleteGet(q) \/ DeleteHist(q) \/ DeleteRow(q)
  BY <1>5 DEF ReindexFail, CommandStart, CommandNext, PatchRead, PatchSave, DeleteGet,
     DeleteHist, DeleteRow, After, RowOf, FirstDelete
<1>6. CASE DeleteIndex(q) \/ BulkSnapshot(q) \/ BulkHist(q) \/ BulkRows(q) \/
            SearchTitles(q) \/ SearchContent(q) \/ SearchResolve(q) \/ CreateChat(q)
  BY <1>6 DEF DeleteIndex, BulkSnapshot, BulkHist, BulkRows, SearchTitles, SearchContent,
     SearchResolve, CreateChat, RowsOf, Unstarred, RowOf
<1> QED
  BY <1>1, <1>2, <1>3, <1>4, <1>5, <1>6 DEF Step

(* The last step of a delete or a cleanup completes it.                      *)
LEMMA WholeStep ==
    ASSUME LibTypeOK, Placed, NEW q \in Request, Step(q)
    PROVE  /\ Deleting(q) /\ Cleaning(q)
           /\ pc[q] # "done" /\ pc'[q] = "done" /\ ~loc[q].failed /\ ~loc'[q].failed
           =>
               /\ loc[q].op = "delete" =>
                    row'[loc[q].t] = None /\ hist'[loc[q].t] = {}
                    /\ ~ \E e \in index' : e[1] = loc[q].t
               /\ loc[q].op = "bulk" =>
                    \A t \in loc[q].ids : row'[t] = None /\ hist'[t] = {}
                                         /\ ~ \E e \in index' : e[1] = t
               /\ loc[q].op = "bulk" => \A t \in Thread : row'[t] # None => row'[t].starred
<1> USE DEF LibTypeOK, Placed, InPlace, Deleting, Cleaning, At, Goto, Move, Note
<1>1. CASE TurnStart(q) \/ TurnGraph(q) \/ TurnAnswer(q) \/ TurnTitle(q) \/
            TurnCleanup(q) \/ ReindexBegin(q) \/ ReindexCommit(q) \/ ReindexVector(q) \/
            ReindexFail(q) \/ CommandNext(q) \/ PatchRead(q) \/ PatchSave(q) \/ DeleteGet(q)
            \/ DeleteRow(q) \/ DeleteIndex(q) \/ BulkSnapshot(q) \/ BulkHist(q) \/
            SearchTitles(q) \/ SearchContent(q) \/ SearchResolve(q)
  BY <1>1 DEF TurnStart, TurnGraph, TurnAnswer, TurnTitle, TurnCleanup, ReindexBegin,
     ReindexCommit, ReindexVector, ReindexFail, CommandNext, PatchRead, PatchSave,
     DeleteGet, DeleteRow, DeleteIndex, BulkSnapshot, BulkHist, SearchTitles, SearchContent,
     SearchResolve, Thread, RowOf, RowsOf, After, FirstDelete, Unstarred
<1>2. CASE CommandStart(q)
  <2>1. loc[q] = NoLocal
    BY <1>2 DEF CommandStart
  <2> QED
    BY <2>1 DEF NoLocal
<1>3. CASE DeleteHist(q)
  <2>1. pc[q] = "del_hist" /\ loc[q].op = "delete" /\ UNCHANGED <<row, index>>
    BY <1>3 DEF DeleteHist
  <2>2. CASE /\ hist' = [hist EXCEPT ![loc[q].t] = {}]
             /\ pc'[q] = IF loc[q].t \in SqlThread THEN "del_row" ELSE "done"
    BY <2>1, <2>2 DEF NoRows
  <2>3. CASE loc'[q] = [NoLocal EXCEPT !.failed = TRUE]
    BY <2>3 DEF NoLocal
  <2> QED
    BY <1>3, <2>2, <2>3 DEF DeleteHist
<1>4. CASE BulkRows(q)
  <2>1. /\ pc[q] = "bulk" /\ loc[q].op = "bulk" /\ loc[q].todo = {}
        /\ row' = [t \in Thread |-> IF t \in Unstarred THEN None ELSE row[t]]
        /\ index' = {e \in index : e[1] \notin loc[q].ids} /\ hist' = hist
    BY <1>4 DEF BulkRows
  <2>2. SUFFICES ASSUME loc[q].ids = Unstarred, \A t \in loc[q].ids : hist[t] = {}
                 PROVE  /\ \A t \in loc[q].ids : row'[t] = None /\ hist'[t] = {}
                                                  /\ ~ \E e \in index' : e[1] = t
                        /\ \A t \in Thread : row'[t] # None => row'[t].starred
    BY <2>1
  <2> QED
    BY <2>1, <2>2 DEF Unstarred, Live
<1>5. CASE CreateChat(q)
  <2>1. loc[q] = NoLocal
    BY <1>5 DEF CreateChat
  <2> QED
    BY <2>1 DEF NoLocal
<1> QED
  BY <1>1, <1>2, <1>3, <1>4, <1>5 DEF Step

LEMMA LabelStep ==
    ASSUME LibTypeOK, NEW q \in Request, Step(q)
    PROVE  pc' \in [Request -> Label]
BY DEF LibTypeOK, At, Goto, Move, Label, Step, TurnStart, TurnGraph, TurnAnswer,
   TurnTitle, TurnCleanup, ReindexBegin, ReindexCommit, ReindexVector, ReindexFail,
   CommandStart, CommandNext, PatchRead, PatchSave, DeleteGet, DeleteHist, DeleteRow,
   DeleteIndex, BulkSnapshot, BulkHist, BulkRows, SearchTitles, SearchContent,
   SearchResolve, CreateChat, Thread, RowOf, RowsOf, After, FirstDelete, Unstarred

LEMMA StepInvariant ==
    ASSUME LibIInv, NEW q \in Request, Step(q), Observe(q)
    PROVE  LibIInv'
<1> USE DEF LibIInv
<1>1. pc' \in [Request -> Label] /\ loc' \in [Request -> Local] /\ Placed'
  <2>1. pc' \in [Request -> Label]
    BY LabelStep
  <2>2. \A p \in Request : loc'[p] \in Local /\ InPlace(p)'
    <3>1. loc'[q] \in Local /\ InPlace(q)'
      BY LocalStep, PlacedStep
    <3>2. ASSUME NEW p \in Request, p # q PROVE loc'[p] \in Local /\ InPlace(p)'
      BY <3>2, OthersWait DEF LibTypeOK, Placed, InPlace
    <3> QED
      BY <3>1, <3>2
  <2>3. loc' = [p \in Request |-> loc'[p]]
    BY LocFunction
  <2> QED
    BY <2>1, <2>2, <2>3 DEF Placed
<1>2. alone' \subseteq Request /\ firm' \subseteq Live'
  BY DEF Observe, Live
<1>3. LibTypeOK'
  BY <1>1, <1>2, TypeStep DEF LibTypeOK
<1>4. UnbornAreNew' /\ TurnsApart' /\ LoadedAll'
  BY UnbornStep, ApartStep, LoadedStep
<1>5. FirmIsSafe'
  BY <1>1, FirmStep
<1>6. ASSUME NEW p \in alone' PROVE Knows(p)'
  <2>1. CASE p # q
    BY <2>1, UndisturbedStep
  <2>2. CASE p = q
    <3>1. q \in alone \/ pc[q] \in ReadsAt
      BY <2>2 DEF Observe
    <3> QED
      BY <2>2, <3>1, IndexingStep, SearchingStep, DeletingStep, CleaningStep DEF Knows
  <2> QED
    BY <2>1, <2>2
<1> QED
  BY <1>1, <1>3, <1>4, <1>5, <1>6

LEMMA NextInvariant == LibIInv /\ [LibNext]_libVars => LibIInv'
<1> SUFFICES ASSUME LibIInv, [LibNext]_libVars PROVE LibIInv'
  OBVIOUS
<1>1. CASE \E q \in Request : Step(q) /\ Observe(q)
  BY <1>1, StepInvariant
<1>2. CASE UNCHANGED libVars
  <2>1. Live' = Live /\ Unstarred' = Unstarred /\ Renamed' = Renamed
    BY <1>2 DEF libVars, Live, Unstarred, Renamed
  <2>2. \A t : RowsOf(t)' = RowsOf(t) /\ (NoRows(t)' <=> NoRows(t))
    BY <1>2 DEF libVars, RowsOf, NoRows
  <2>3. /\ TitleHits' = TitleHits /\ Cut(ready, ContentLimit)' = Cut(ready, ContentLimit)
        /\ \A hits : Exact(hits)' <=> Exact(hits)
    BY <1>2, SearchSeesStores DEF libVars
  <2>4. ASSUME NEW p \in alone' PROVE Knows(p)'
    <3>1. Indexing(p)' /\ Deleting(p)' /\ Cleaning(p)'
      BY <1>2, <2>1, <2>2, <2>4 DEF LibIInv, Knows, Indexing, Deleting, Cleaning, libVars
    <3>2. Searching(p)'
      BY <1>2, <2>3, <2>4 DEF LibIInv, Knows, Searching, HitBy, libVars
    <3> QED
      BY <3>1, <3>2 DEF Knows
  <2>5. LibTypeOK' /\ Placed' /\ UnbornAreNew'
    BY <1>2, <2>1 DEF LibIInv, LibTypeOK, Placed, InPlace, UnbornAreNew, libVars
  <2>6. TurnsApart' /\ LoadedAll' /\ FirmIsSafe'
    BY <1>2 DEF LibIInv, TurnsApart, LoadedAll, FirmIsSafe, libVars
  <2> QED
    BY <2>4, <2>5, <2>6 DEF LibIInv
<1> QED
  BY <1>1, <1>2 DEF LibNext

(* The invariant of the three stores and of every request on them.           *)
THEOREM Invariant == LibSpec => []LibIInv
<1>1. LibInit => LibIInv
  BY InitInvariant
<1> QED
  BY <1>1, NextInvariant, PTL DEF LibSpec

(* SearchIsExact: a search that nobody disturbed answers with threads that   *)
(* exist and match, each once, and leaves one out only past TITLE_LIMIT or   *)
(* CONTENT_LIMIT, the latter counted in index rows, whosever they are        *)
(* (ChatSearchView).                                                         *)
THEOREM SearchesAreExact == LibSpec => []SearchIsExact
<1>1. LibIInv => SearchIsExact
  BY DEF LibIInv, Knows, Searching, SearchIsExact
<1> QED
  BY <1>1, Invariant, PTL

(* ReindexRepairs: a reindexing that nobody disturbed leaves one row for     *)
(* each turn of the checkpoint, whatever rows races had left (reindex_thread).*)
THEOREM ReindexingRepairs == LibSpec => ReindexRepairs
<1>1. ASSUME LibIInv, [LibNext]_libVars, NEW q \in Request, ReindexCommit(q), q \in alone
      PROVE  {e \in index' : e[1] = loc[q].t} = {loc[q].t} \X {q} \X hist[loc[q].t]
  <2>1. loc[q].turns = hist[loc[q].t] /\ loc[q].seen = RowsOf(loc[q].t)
    BY <1>1 DEF LibIInv, Knows, Indexing, ReindexCommit, At
  <2>2. index' = (index \ RowsOf(loc[q].t)) \cup ({loc[q].t} \X {q} \X hist[loc[q].t])
    BY <1>1, <2>1 DEF ReindexCommit
  <2> QED
    BY <2>2 DEF RowsOf
<1>2. LibIInv /\ [LibNext]_libVars
      => [\A q \in Request :
            /\ ReindexCommit(q) /\ q \in alone
            => LET t == loc[q].t IN
               {e \in index' : e[1] = t} = {t} \X {q} \X hist[t]]_libVars
  BY <1>1
<1> QED
  BY <1>2, Invariant, PTL DEF LibSpec, ReindexRepairs

(* StarredIsKept: a chat starred since before the requests in flight began   *)
(* loses its row or a turn of its history to nothing but its own delete.     *)
THEOREM StarsProtect == LibSpec => StarredIsKept
<1>1. ASSUME LibIInv, LibNext, NEW t \in firm
      PROVE  \/ \E q \in Request : loc[q].op = "delete" /\ loc[q].t = t
             \/ row'[t] # None /\ hist[t] \subseteq hist'[t]
  <2>1. ASSUME NEW q \in Request, Step(q)
        PROVE  \/ \E p \in Request : loc[p].op = "delete" /\ loc[p].t = t
               \/ row'[t] # None /\ hist[t] \subseteq hist'[t]
    BY <1>1, <2>1, RowStep, HistKept
  <2>2. CASE UNCHANGED libVars
    BY <1>1, <2>2 DEF LibIInv, FirmIsSafe, libVars
  <2> QED
    BY <1>1, <2>1, <2>2 DEF LibNext
<1>2. LibIInv /\ [LibNext]_libVars
      => [\A t \in firm :
            \/ \E q \in Request : loc[q].op = "delete" /\ loc[q].t = t
            \/ row'[t] # None /\ hist[t] \subseteq hist'[t]]_libVars
  BY <1>1
<1> QED
  BY <1>2, Invariant, PTL DEF LibSpec, StarredIsKept

(* DeleteIsWhole: a delete or a cleanup that nobody disturbed leaves nothing *)
(* in any of the three stores of what it removed (the delete views).         *)
THEOREM DeletesAreWhole == LibSpec => DeleteIsWhole
<1>1. ASSUME LibIInv, LibNext, NEW q \in alone, pc[q] # "done", pc'[q] = "done",
             ~loc[q].failed, ~loc'[q].failed
      PROVE  /\ loc[q].op = "delete" =>
                   row'[loc[q].t] = None /\ hist'[loc[q].t] = {}
                   /\ ~ \E e \in index' : e[1] = loc[q].t
             /\ loc[q].op = "bulk" =>
                   \A t \in loc[q].ids :
                       row'[t] = None /\ hist'[t] = {} /\ ~ \E e \in index' : e[1] = t
             /\ loc[q].op = "bulk" => \A t \in Thread : row'[t] # None => row'[t].starred
  <2>1. q \in Request /\ Deleting(q) /\ Cleaning(q)
    BY <1>1 DEF LibIInv, LibTypeOK, Knows
  <2>2. PICK p \in Request : Step(p)
    BY <1>1 DEF LibNext, libVars
  <2>3. p = q
    BY <1>1, <2>1, <2>2, OthersWait DEF LibIInv
  <2> QED
    BY <1>1, <2>1, <2>2, <2>3, WholeStep DEF LibIInv
<1>2. LibIInv /\ [LibNext]_libVars
      => [\A q \in alone :
            /\ pc[q] # "done" /\ pc'[q] = "done"
            /\ ~loc[q].failed /\ ~loc'[q].failed
            => /\ loc[q].op = "delete" =>
                    row'[loc[q].t] = None /\ hist'[loc[q].t] = {}
                   /\ ~ \E e \in index' : e[1] = loc[q].t
               /\ loc[q].op = "bulk" =>
                    \A t \in loc[q].ids :
                        row'[t] = None /\ hist'[t] = {} /\ ~ \E e \in index' : e[1] = t
               /\ loc[q].op = "bulk" => \A t \in Thread : row'[t] # None => row'[t].starred]_libVars
  BY <1>1
<1> QED
  BY <1>2, Invariant, PTL DEF LibSpec, DeleteIsWhole
==============================================================================
