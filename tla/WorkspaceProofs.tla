---------------------------- MODULE WorkspaceProofs ----------------------------
(***************************************************************************)
(* Five parts around the agents, for any number of requests and turns: the *)
(* choices of ConnectionCatalog, the long-term memory of MemoryStore, the  *)
(* turns of AgenticSchema that no other meets, the issues that the nodes   *)
(* of SchemaChecks report, and the sessions of Accounts.                   *)
(* They share nothing; each has an invariant of its own.                   *)
(***************************************************************************)
EXTENDS ConnectionCatalog, MemoryStore, AgenticSchema, SchemaChecks, Accounts, FiniteSetTheorems, TLAPS

-----------------------------------------------------------------------------
(* ConnectionCatalog *)

CatLabel == {"idle", "check", "insert", "apply", "save", "done", "refused", "failed"}

\* Objects are in schemas that are there.
DatabaseOK ==
    /\ objects \subseteq Object /\ SchemasOf(objects) \subseteq namespaces
    /\ namespaces \subseteq SchemasOf(Object)

LEMMA OptionsAre ==
    ASSUME DatabaseOK
    PROVE  /\ Introspect \in OptionsRow /\ NoOptions \in OptionsRow
           /\ \A old \in OptionsRow : Merge(old) \in OptionsRow /\ KeepsChoices(old, Merge(old))
<1>2. Introspect \in OptionsRow  BY DEF Introspect, OptionsOf, OptionsRow, DatabaseOK
<1>3. NoOptions \in OptionsRow  BY DEF NoOptions, OptionsOf, OptionsRow
<1>4. ASSUME NEW old \in OptionsRow
      PROVE  Merge(old) \in OptionsRow /\ KeepsChoices(old, Merge(old))
  <2>1. CASE old.listed = {}
    BY <1>2, <2>1 DEF Merge, KeepsChoices, Introspect, OptionsOf
  <2>2. CASE old.listed # {}
    <3>1. Merge(old) = OptionsOf(namespaces, objects, old.schemas \cap namespaces, old.objs \cap objects)
      BY <2>2 DEF Merge
    <3> QED  BY <2>2, <3>1 DEF KeepsChoices, OptionsOf, OptionsRow, DatabaseOK
  <2> QED  BY <2>1, <2>2
<1> QED  BY <1>2, <1>3, <1>4

(* A request that steps: what it has in hand is all there is to look at.   *)
LEMMA CatMove ==
    ASSUME CatIInv, NEW q \in ConnRequest, NEW p \in CatLabel \ {"idle"}, NEW l \in CLocal,
           cpc' = [cpc EXCEPT ![q] = p], cloc' = [cloc EXCEPT ![q] = l],
           DatabaseOK', conn' \in [ConnId -> {NoConn} \cup ConnRow],
           files' = files \/ (cpc[q] = "idle" /\ files' \in {files, files + 1}),
           CatObserve(q), HasInHand(p, l), q \in calm' => IsCurrent(p, l, conn')
    PROVE  CatIInv'
<1> DEFINE B == {h \in ConnRequest : cpc[h] # "idle"}
<1>1. /\ cpc \in [ConnRequest -> CatLabel] /\ cloc \in [ConnRequest -> CLocal]
      /\ calm \subseteq ConnRequest
  BY DEF CatIInv, CatTypeOK, CatLabel
<1>2. /\ cpc' \in [ConnRequest -> CatLabel] /\ cloc' \in [ConnRequest -> CLocal]
      /\ cpc'[q] = p /\ cloc'[q] = l
      /\ \A h \in ConnRequest \ {q} : cpc'[h] = cpc[h] /\ cloc'[h] = cloc[h]
  BY <1>1
<1>3. calm' \subseteq ConnRequest /\ (\A h \in calm' \ {q} : h \in calm /\ conn' = conn)
  BY <1>1 DEF CatObserve
<1>4. {h \in ConnRequest : cpc'[h] # "idle"} = B \cup {q}  BY <1>2
<1>5. IsFiniteSet(B) /\ Cardinality(B) \in Nat
  <2>1. IsFiniteSet(ConnRequest) /\ B \subseteq ConnRequest  BY CatAssumption
  <2>2. IsFiniteSet(B)  BY <2>1, FS_Subset
  <2> QED  BY <2>2, FS_CardinalityType
<1>6. files \in Nat /\ files <= Cardinality(B)
  <2>1. files \in 0..Cardinality(ConnRequest)  BY DEF CatIInv, CatTypeOK
  <2> QED  BY <2>1 DEF CatIInv
<1> HIDE DEF B
<1>7. files' \in Nat /\ files' <= Cardinality(B \cup {q})
  <2>1. Cardinality(B \cup {q}) = IF q \in B THEN Cardinality(B) ELSE Cardinality(B) + 1
    BY <1>5, FS_AddElement
  <2>2. CASE files' = files  BY <1>5, <1>6, <2>1, <2>2
  <2>3. CASE cpc[q] = "idle" /\ files' \in {files, files + 1}
    <3>1. q \notin B  BY <2>3 DEF B
    <3> QED  BY <1>5, <1>6, <2>1, <2>3, <3>1
  <2> QED  BY <2>2, <2>3
<1>8. files' \in 0..Cardinality(ConnRequest)
  <2>1. B \cup {q} \subseteq ConnRequest /\ IsFiniteSet(ConnRequest)  BY CatAssumption DEF B
  <2>2. Cardinality(B \cup {q}) <= Cardinality(ConnRequest) /\ Cardinality(ConnRequest) \in Nat
        /\ Cardinality(B \cup {q}) \in Nat
    <3>1. IsFiniteSet(B \cup {q})  BY <2>1, FS_Subset
    <3> QED  BY <2>1, <3>1, FS_Subset, FS_CardinalityType
  <2> QED  BY <1>7, <2>2
<1>9. CatTypeOK'  BY <1>2, <1>3, <1>8 DEF CatTypeOK, CatLabel, DatabaseOK
<1>10. ASSUME NEW h \in ConnRequest PROVE HasInHand(cpc'[h], cloc'[h])
  BY <1>2 DEF CatIInv
<1>11. ASSUME NEW h \in calm' PROVE IsCurrent(cpc'[h], cloc'[h], conn')
  <2>1. CASE h = q  BY <1>2, <1>11, <2>1
  <2>2. CASE h # q
    <3>1. h \in calm /\ conn' = conn /\ h \in ConnRequest \ {q}  BY <1>3, <2>2
    <3> QED  BY <1>2, <3>1 DEF CatIInv
  <2> QED  BY <2>1, <2>2
<1> QED  BY <1>4, <1>7, <1>9, <1>10, <1>11 DEF CatIInv

LEMMA CatKnown ==
    ASSUME CatIInv, NEW q \in ConnRequest
    PROVE  /\ DatabaseOK /\ conn \in [ConnId -> {NoConn} \cup ConnRow]
           /\ cpc[q] \in CatLabel /\ cloc[q] \in CLocal /\ cloc \in [ConnRequest -> CLocal]
           /\ HasInHand(cpc[q], cloc[q]) /\ \A k \in Existing : k \in ConnId /\ conn[k] \in ConnRow
           /\ cloc[q].dsn \in Dsn
<1>1. /\ DatabaseOK /\ conn \in [ConnId -> {NoConn} \cup ConnRow]
      /\ cpc[q] \in CatLabel /\ cloc[q] \in CLocal /\ cloc \in [ConnRequest -> CLocal]
      /\ HasInHand(cpc[q], cloc[q])
  BY DEF CatIInv, CatTypeOK, CatLabel, DatabaseOK
<1>2. \A k \in Existing : k \in ConnId /\ conn[k] \in ConnRow  BY <1>1 DEF Existing
<1>3. cloc[q].dsn \in Dsn  BY <1>1 DEF CLocal
<1> QED  BY <1>1, <1>2, <1>3

(* The steps of a new connection.                                          *)
LEMMA CreateStep == ASSUME CatIInv, NEW q \in ConnRequest, Create(q), CatObserve(q) PROVE CatIInv'
<1>1. PICK k \in ConnId, dsn \in Dsn : Begin(q, "create", k, dsn, NoConn)
  <2>1. \A d \in Dsn : Reached(d) \subseteq Dsn  BY DEF Reached, Dsn
  <2>2. PICK k \in ConnId \ Existing : \E dsn \in UNION {Reached(d) : d \in Dsn \ {Upload, Sample}} :
          Begin(q, "create", k, dsn, NoConn)
    BY DEF Create
  <2>3. UNION {Reached(d) : d \in Dsn \ {Upload, Sample}} \subseteq Dsn  BY <2>1
  <2> QED  BY <2>2, <2>3
<1>2. PICK p \in {"check", "refused"} : cpc' = [cpc EXCEPT ![q] = p]  BY DEF Create, Then
<1> DEFINE l == [op |-> "create", k |-> k, dsn |-> dsn, row |-> NoConn]
<1>3. l \in CLocal /\ HasInHand(p, l)  BY <1>2 DEF CLocal, HasInHand
<1>4. cloc' = [cloc EXCEPT ![q] = l]  BY <1>1 DEF Begin
<1>5. IsCurrent(p, l, conn')  BY <1>2 DEF IsCurrent
<1> HIDE DEF l
<1>6. UNCHANGED <<namespaces, objects, conn, files>>  BY DEF Create
<1> QED  BY <1>2, <1>3, <1>4, <1>5, <1>6, CatKnown, CatMove DEF CatLabel, DatabaseOK

(* What reading an upload and converting it comes to.                      *)
Conversions ==
    {<<"refused", 0>>} \cup ConvertSqlite \cup ConvertCsv \cup ConvertExcel \cup ConvertSas
LEMMA ConversionsAre ==
    Conversions \subseteq {"check", "refused", "failed"} \X {0, 1}
<1>1. \A read \in {ReadCsv, ReadExcel} : Unread(read) \subseteq {"check", "refused", "failed"} \X {0, 1}
  BY DEF Unread, ReadCsv, ReadExcel
<1>2. Connects \subseteq {"check", "refused", "failed"} \X {0, 1}  BY DEF Connects
<1>3. /\ <<"refused", 0>> \in {"check", "refused", "failed"} \X {0, 1}
      /\ <<"failed", 1>> \in {"check", "refused", "failed"} \X {0, 1}
  OBVIOUS
<1> QED  BY <1>1, <1>2, <1>3, Zenon DEF Conversions, ConvertSqlite, ConvertCsv, ConvertExcel, ConvertSas

LEMMA ImportStep == ASSUME CatIInv, NEW q \in ConnRequest, Import(q), CatObserve(q) PROVE CatIInv'
<1>1. PICK k \in ConnId : Begin(q, "upload", k, Upload, NoConn)  BY DEF Import
<1>2. PICK result \in Conversions : Then(q, result[1]) /\ files' = files + result[2]
  BY DEF Import, Conversions
<1>3. result[1] \in {"check", "refused", "failed"} /\ result[2] \in {0, 1}  BY ConversionsAre
<1>4. PICK p \in {"check", "refused", "failed"} : p = result[1]  BY <1>3
<1> DEFINE l == [op |-> "upload", k |-> k, dsn |-> Upload, row |-> NoConn]
<1>5. l \in CLocal /\ HasInHand(p, l)  BY <1>4 DEF CLocal, HasInHand, Dsn
<1>6. cloc' = [cloc EXCEPT ![q] = l]  BY <1>1 DEF Begin
<1>7. IsCurrent(p, l, conn')  BY <1>4 DEF IsCurrent
<1> HIDE DEF l
<1>8. cpc' = [cpc EXCEPT ![q] = p]  BY <1>2, <1>4 DEF Then
<1>9. files' \in {files, files + 1} /\ cpc[q] = "idle" /\ UNCHANGED <<namespaces, objects, conn>>
  <2>1. files \in 0..Cardinality(ConnRequest)  BY DEF CatIInv, CatTypeOK
  <2>2. result[2] = 0 \/ result[2] = 1  BY <1>3
  <2> QED  BY <1>2, <2>1, <2>2 DEF Import
<1> QED  BY <1>4, <1>5, <1>6, <1>7, <1>8, <1>9, CatKnown, CatMove DEF CatLabel, DatabaseOK

LEMMA CreateCheckStep == ASSUME CatIInv, NEW q \in ConnRequest, CreateCheck(q), CatObserve(q) PROVE CatIInv'
<1> DEFINE r == NewConn(cloc[q].dsn, FALSE, Introspect)
           l == [cloc[q] EXCEPT !.row = r]
<1>1. cloc[q] \in CLocal /\ cloc \in [ConnRequest -> CLocal] /\ DatabaseOK
      /\ cpc[q] = "check" /\ cloc[q].k \in ConnId /\ cloc[q].dsn \in Dsn
  BY CatKnown DEF CreateCheck, HasInHand
<1>2. PICK p \in {"refused", "insert"} : cpc' = [cpc EXCEPT ![q] = p]  BY DEF CreateCheck, Then
<1>3. r \in ConnRow  BY <1>1, OptionsAre DEF ConnRow, NewConn, OptionsRow
<1>4. cloc' = [cloc EXCEPT ![q] = l]  BY <1>1 DEF CreateCheck
<1> HIDE DEF r
<1>5. l \in CLocal /\ l.k = cloc[q].k /\ l.row = r  BY <1>1, <1>3 DEF CLocal
<1>6. HasInHand(p, l) /\ IsCurrent(p, l, conn')  BY <1>1, <1>2, <1>3, <1>5 DEF HasInHand, IsCurrent
<1> HIDE DEF l
<1>7. UNCHANGED <<namespaces, objects, conn, files>>  BY DEF CreateCheck
<1> QED  BY <1>2, <1>4, <1>5, <1>6, <1>7, CatKnown, CatMove DEF CatLabel, DatabaseOK

(* The two steps that save a row: at the end of their requests.            *)
LEMMA Saves ==
    ASSUME CatIInv, NEW q \in ConnRequest, cpc[q] \in {"insert", "save"}, CatObserve(q),
           UNCHANGED <<namespaces, objects, files, cloc>>,
           \/ Then(q, "failed") /\ UNCHANGED conn
           \/ Then(q, "done") /\ conn' = [conn EXCEPT ![cloc[q].k] = cloc[q].row]
    PROVE  CatIInv'
<1>1. /\ DatabaseOK /\ conn \in [ConnId -> {NoConn} \cup ConnRow]
      /\ cloc[q] \in CLocal /\ cloc \in [ConnRequest -> CLocal]
      /\ cloc[q].row \in ConnRow
  BY CatKnown DEF HasInHand
<1>2. conn' \in [ConnId -> {NoConn} \cup ConnRow]  BY <1>1
<1>3. PICK p \in {"failed", "done"} : cpc' = [cpc EXCEPT ![q] = p]  BY DEF Then
<1>4. cloc' = [cloc EXCEPT ![q] = cloc[q]]  BY <1>1
<1>5. HasInHand(p, cloc[q]) /\ IsCurrent(p, cloc[q], conn')  BY <1>3 DEF HasInHand, IsCurrent
<1> QED  BY <1>1, <1>2, <1>3, <1>4, <1>5, CatMove DEF CatLabel, DatabaseOK

LEMMA ReadConnStep ==
    ASSUME CatIInv, NEW q \in ConnRequest, NEW op \in {"update", "refresh", "options"}, ReadConn(q, op),
           CatObserve(q)
    PROVE  CatIInv'
<1>1. PICK k \in Existing : \E dsn \in IF op = "update" THEN {LocalDsn, Docker} ELSE {conn[k].dsn} :
        Begin(q, op, k, dsn, conn[k])
  BY DEF ReadConn
<1>2. k \in ConnId /\ conn[k] \in ConnRow /\ conn[k].dsn \in Dsn  BY CatKnown DEF ConnRow
<1>3. PICK dsn \in Dsn : Begin(q, op, k, dsn, conn[k])  BY <1>1, <1>2 DEF Dsn
<1> DEFINE l == [op |-> op, k |-> k, dsn |-> dsn, row |-> conn[k]]
<1>4. l \in CLocal /\ HasInHand("apply", l)  BY <1>2 DEF CLocal, HasInHand
<1>5. cloc' = [cloc EXCEPT ![q] = l]  BY <1>3 DEF Begin
<1>6. UNCHANGED <<namespaces, objects, conn, files>> /\ cpc' = [cpc EXCEPT ![q] = "apply"]  BY DEF ReadConn, Then
<1>7. IsCurrent("apply", l, conn')  BY <1>6 DEF IsCurrent
<1> HIDE DEF l
<1> QED  BY <1>4, <1>5, <1>6, <1>7, CatKnown, CatMove DEF CatLabel, DatabaseOK

(* A request that changes the row it has read; op is the one it began with. *)
LEMMA Applies ==
    ASSUME CatIInv, NEW q \in ConnRequest, cpc[q] = "apply", CatObserve(q), NEW r \in ConnRow,
           UNCHANGED <<namespaces, objects, conn, files>>, Then(q, "save"),
           cloc' = [cloc EXCEPT ![q] = [cloc[q] EXCEPT !.row = r]],
           cloc[q].op \in {"refresh", "update"} => r.options = Merge(cloc[q].row.options)
    PROVE  CatIInv'
<1> DEFINE l == [cloc[q] EXCEPT !.row = r]
<1>1. /\ cloc[q] \in CLocal /\ cloc[q].row \in ConnRow /\ cloc[q].k \in ConnId
      /\ DatabaseOK
  BY CatKnown DEF HasInHand
<1>2. l \in CLocal /\ l.row = r /\ l.k = cloc[q].k /\ l.op = cloc[q].op  BY <1>1 DEF CLocal
<1> HIDE DEF l
<1>3. HasInHand("save", l)  BY <1>1, <1>2 DEF HasInHand
<1>4. ASSUME q \in calm' PROVE IsCurrent("save", l, conn')
  <2>1. q \in calm  BY <1>4 DEF CatObserve
  <2>2. conn[l.k] = cloc[q].row  BY <1>2, <2>1 DEF CatIInv, IsCurrent
  <2>3. cloc[q].row.options \in OptionsRow  BY <1>1 DEF ConnRow, OptionsRow
  <2>4. l.op \in {"refresh", "update"} => KeepsChoices(cloc[q].row.options, r.options)
    BY <1>1, <1>2, <2>3, OptionsAre
  <2> QED  BY <1>2, <2>2, <2>4 DEF IsCurrent
<1>5. cpc' = [cpc EXCEPT ![q] = "save"] /\ cloc' = [cloc EXCEPT ![q] = l]  BY DEF Then, l
<1> QED  BY <1>2, <1>3, <1>4, <1>5, CatKnown, CatMove DEF CatLabel, DatabaseOK

LEMMA IsRefused ==
    ASSUME CatIInv, NEW q \in ConnRequest, CatObserve(q),
           UNCHANGED <<namespaces, objects, conn, files, cloc>>, Then(q, "refused")
    PROVE  CatIInv'
<1>1. cloc' = [cloc EXCEPT ![q] = cloc[q]]  BY CatKnown
<1>2. HasInHand("refused", cloc[q]) /\ IsCurrent("refused", cloc[q], conn')  BY DEF HasInHand, IsCurrent
<1>3. cpc' = [cpc EXCEPT ![q] = "refused"]  BY DEF Then
<1> QED  BY <1>1, <1>2, <1>3, CatKnown, CatMove DEF CatLabel, DatabaseOK

LEMMA ApplyDsnStep == ASSUME CatIInv, NEW q \in ConnRequest, ApplyDsn(q), CatObserve(q) PROVE CatIInv'
<1> DEFINE r == cloc[q].row
<1>1. /\ cloc[q] \in CLocal /\ r \in ConnRow /\ DatabaseOK /\ cloc[q].dsn \in Dsn
      /\ cpc[q] = "apply" /\ cloc \in [ConnRequest -> CLocal]
  BY CatKnown DEF HasInHand, ApplyDsn
<1>2. CASE Then(q, "refused") /\ UNCHANGED cloc  BY <1>2, IsRefused DEF ApplyDsn
<1>3. CASE /\ \E dsn \in Reached(cloc[q].dsn), name \in {r.name, "renamed"} :
                cloc' = [cloc EXCEPT ![q].row = [r EXCEPT !.dsn = dsn, !.name = name,
                                                          !.options = Merge(r.options)]]
           /\ Then(q, "save")
  <2>1. PICK dsn \in Reached(cloc[q].dsn), name \in {r.name, "renamed"} :
          cloc' = [cloc EXCEPT ![q].row = [r EXCEPT !.dsn = dsn, !.name = name,
                                                    !.options = Merge(r.options)]]
    BY <1>3
  <2> DEFINE s == [r EXCEPT !.dsn = dsn, !.name = name, !.options = Merge(r.options)]
  <2>2. dsn \in Dsn  BY <1>1 DEF Reached, Dsn
  <2>3. name \in {"given", "renamed"} /\ r.options \in OptionsRow  BY <1>1 DEF ConnRow, OptionsRow
  <2>4. Merge(r.options) \in OptionsRow  BY <1>1, <2>3, OptionsAre
  <2> HIDE DEF r
  <2>5. s \in ConnRow /\ s.options = Merge(r.options)  BY <1>1, <2>2, <2>3, <2>4 DEF ConnRow, OptionsRow
  <2>6. cloc' = [cloc EXCEPT ![q] = [cloc[q] EXCEPT !.row = s]]  BY <1>1, <2>1 DEF r
  <2> HIDE DEF s
  <2> QED  BY <1>1, <1>3, <2>5, <2>6, Applies DEF ApplyDsn, r
<1> QED  BY <1>2, <1>3 DEF ApplyDsn

LEMMA ApplyRefreshStep == ASSUME CatIInv, NEW q \in ConnRequest, ApplyRefresh(q), CatObserve(q) PROVE CatIInv'
<1> DEFINE r == cloc[q].row
           s == [r EXCEPT !.options = Merge(r.options)]
<1>1. /\ cloc[q] \in CLocal /\ r \in ConnRow /\ DatabaseOK
      /\ cpc[q] = "apply" /\ cloc \in [ConnRequest -> CLocal]
  BY CatKnown DEF HasInHand, ApplyRefresh
<1>2. CASE Then(q, "refused") /\ UNCHANGED cloc  BY <1>2, IsRefused DEF ApplyRefresh
<1>3. CASE cloc' = [cloc EXCEPT ![q].row.options = Merge(@)] /\ Then(q, "save")
  <2>1. r.options \in OptionsRow  BY <1>1 DEF ConnRow, OptionsRow
  <2>2. Merge(r.options) \in OptionsRow  BY <1>1, <2>1, OptionsAre
  <2>3. cloc' = [cloc EXCEPT ![q] = [cloc[q] EXCEPT !.row = s]]  BY <1>1, <1>3 DEF CLocal, ConnRow
  <2> HIDE DEF r
  <2>4. s \in ConnRow /\ s.options = Merge(r.options)  BY <1>1, <2>2 DEF ConnRow, OptionsRow
  <2> HIDE DEF s
  <2> QED  BY <1>1, <1>3, <2>3, <2>4, Applies DEF ApplyRefresh, r
<1> QED  BY <1>2, <1>3 DEF ApplyRefresh

LEMMA ApplyOptionsStep == ASSUME CatIInv, NEW q \in ConnRequest, ApplyOptions(q), CatObserve(q) PROVE CatIInv'
<1> DEFINE r == cloc[q].row
<1>1. /\ cloc[q] \in CLocal /\ r \in ConnRow /\ DatabaseOK
      /\ cpc[q] = "apply" /\ cloc \in [ConnRequest -> CLocal] /\ cloc[q].op = "options"
  BY CatKnown DEF HasInHand, ApplyOptions
<1>2. PICK options \in Ticked(r.options) \cup {r.options}, name \in {r.name, "renamed"} :
        cloc' = [cloc EXCEPT ![q].row = [r EXCEPT !.options = options, !.name = name]]
  BY DEF ApplyOptions
<1>3. r.options \in OptionsRow /\ name \in {"given", "renamed"}
  BY <1>1 DEF ConnRow, OptionsRow
<1>4. options \in OptionsRow
  <2> DEFINE old == r.options
  <2>1. old \in OptionsRow  BY <1>3
  <2> HIDE DEF old, r
  <2>2. \A schemas \in SUBSET old.listed, objs \in SUBSET old.seen :
          OptionsOf(old.listed, old.seen, schemas, objs) \in OptionsRow
    BY <2>1 DEF OptionsOf, OptionsRow
  <2>3. Ticked(old) \subseteq OptionsRow  BY <2>2 DEF Ticked
  <2> QED  BY <1>2, <1>3, <2>3 DEF old
<1> DEFINE s == [r EXCEPT !.options = options, !.name = name]
<1>5. cloc' = [cloc EXCEPT ![q] = [cloc[q] EXCEPT !.row = s]]  BY <1>1, <1>2 DEF CLocal
<1> HIDE DEF r
<1>6. s \in ConnRow  BY <1>1, <1>3, <1>4 DEF ConnRow, OptionsRow
<1>7. Then(q, "save") /\ UNCHANGED <<namespaces, objects, conn, files>>  BY DEF ApplyOptions
<1> HIDE DEF s
<1> QED  BY <1>1, <1>5, <1>6, <1>7, Applies

(* The requests of one step.                                               *)
LEMMA AtOnce ==
    ASSUME CatIInv, NEW q \in ConnRequest, CatObserve(q), Then(q, "done"),
           NEW l \in CLocal, cloc' = [cloc EXCEPT ![q] = l], UNCHANGED files,
           DatabaseOK', conn' \in [ConnId -> {NoConn} \cup ConnRow]
    PROVE  CatIInv'
<1>1. HasInHand("done", l) /\ IsCurrent("done", l, conn')  BY DEF HasInHand, IsCurrent
<1>2. cpc' = [cpc EXCEPT ![q] = "done"]  BY DEF Then
<1> QED  BY <1>1, <1>2, CatMove DEF CatLabel, DatabaseOK

LEMMA DeleteConnStep == ASSUME CatIInv, NEW q \in ConnRequest, DeleteConn(q), CatObserve(q) PROVE CatIInv'
<1>1. PICK k \in Existing : /\ Begin(q, "delete", k, conn[k].dsn, NoConn)
                            /\ conn' = [conn EXCEPT ![k] = NoConn]
  BY DEF DeleteConn
<1>2. k \in ConnId /\ conn[k].dsn \in Dsn  BY CatKnown DEF ConnRow
<1> DEFINE l == [op |-> "delete", k |-> k, dsn |-> conn[k].dsn, row |-> NoConn]
<1>3. l \in CLocal /\ cloc' = [cloc EXCEPT ![q] = l]  BY <1>1, <1>2 DEF CLocal, Begin
<1>4. conn' \in [ConnId -> {NoConn} \cup ConnRow]  BY <1>1, CatKnown
<1> HIDE DEF l
<1> QED  BY <1>3, <1>4, CatKnown, AtOnce DEF DeleteConn, DatabaseOK

LEMMA RestoreStep == ASSUME CatIInv, NEW q \in ConnRequest, Restore(q), CatObserve(q) PROVE CatIInv'
<1> DEFINE l == [op |-> "restore", k |-> NoConn, dsn |-> Sample, row |-> NoConn]
           r == NewConn(Sample, TRUE, NoOptions)
<1>1. l \in CLocal /\ cloc' = [cloc EXCEPT ![q] = l]  BY DEF CLocal, Begin, Restore, Dsn
<1>2. DatabaseOK /\ conn \in [ConnId -> {NoConn} \cup ConnRow]  BY CatKnown
<1>3. r \in ConnRow  BY <1>2, OptionsAre DEF ConnRow, NewConn, OptionsRow, Dsn
<1>4. conn' = conn \/ \E k \in ConnId : conn' = [conn EXCEPT ![k] = r]  BY DEF Restore
<1> HIDE DEF l, r
<1>5. conn' \in [ConnId -> {NoConn} \cup ConnRow]  BY <1>2, <1>3, <1>4
<1> QED  BY <1>1, <1>2, <1>5, AtOnce DEF Restore, DatabaseOK

LEMMA MigrateStep == ASSUME CatIInv, NEW q \in ConnRequest, Migrate(q), CatObserve(q) PROVE CatIInv'
<1> DEFINE l == [op |-> "migrate", k |-> NoConn, dsn |-> LocalDsn, row |-> NoConn]
<1>1. l \in CLocal /\ cloc' = [cloc EXCEPT ![q] = l]  BY DEF CLocal, Begin, Migrate, Dsn
<1>2. conn \in [ConnId -> {NoConn} \cup ConnRow] /\ DatabaseOK'  BY CatKnown DEF Migrate, Database, DatabaseOK
<1> HIDE DEF l
<1> QED  BY <1>1, <1>2, AtOnce DEF Migrate

LEMMA CatStart == ASSUME CatInit PROVE CatIInv
<1>1. DatabaseOK /\ Introspect \in OptionsRow  BY OptionsAre DEF CatInit, Database, DatabaseOK
<1>2. conn \in [ConnId -> {NoConn} \cup ConnRow]
  <2>1. NewConn(Docker, FALSE, Introspect) \in ConnRow  BY <1>1 DEF NewConn, ConnRow, OptionsRow, Dsn
  <2>2. PICK k \in ConnId : conn \in
          {[c \in ConnId |-> NoConn],
           [c \in ConnId |-> IF c = k THEN NewConn(Docker, FALSE, Introspect) ELSE NoConn]}
    BY DEF CatInit
  <2> DEFINE r == NewConn(Docker, FALSE, Introspect)
  <2> HIDE DEF r
  <2>3. conn = [c \in ConnId |-> NoConn] \/ conn = [c \in ConnId |-> IF c = k THEN r ELSE NoConn]
    BY <2>2 DEF r
  <2> QED  BY <2>1, <2>3 DEF r
<1>3. NoCLocal \in CLocal  BY DEF NoCLocal, CLocal, Dsn
<1>4. cpc \in [ConnRequest -> CatLabel] /\ cloc \in [ConnRequest -> CLocal] /\ calm = {} /\ files = 0
  BY <1>3 DEF CatInit, CatLabel
<1>5. {q \in ConnRequest : cpc[q] # "idle"} = {}  BY DEF CatInit
<1>6. Cardinality({}) = 0 /\ Cardinality(ConnRequest) \in Nat
  BY CatAssumption, FS_EmptySet, FS_CardinalityType
<1>7. CatTypeOK  BY <1>1, <1>2, <1>4, <1>6 DEF CatTypeOK, CatLabel, DatabaseOK
<1>8. \A q \in ConnRequest : HasInHand(cpc[q], cloc[q])  BY DEF CatInit, HasInHand
<1> QED  BY <1>4, <1>5, <1>6, <1>7, <1>8 DEF CatIInv

LEMMA CatNextStep == ASSUME CatIInv, [CatNext]_catVars PROVE CatIInv'
<1>1. ASSUME UNCHANGED catVars PROVE CatIInv'
  BY <1>1 DEF catVars, CatIInv, CatTypeOK, IsCurrent, HasInHand
<1>2. ASSUME NEW q \in ConnRequest, CatObserve(q),
             Create(q) \/ Import(q) \/ CreateCheck(q) \/ DeleteConn(q) \/ Restore(q) \/ Migrate(q)
      PROVE  CatIInv'
  BY <1>2, CreateStep, ImportStep, CreateCheckStep, DeleteConnStep, RestoreStep, MigrateStep
<1>3. ASSUME NEW q \in ConnRequest, CatObserve(q), CreateInsert(q) \/ SaveConn(q)
      PROVE  CatIInv'
  BY <1>3, Saves DEF CreateInsert, SaveConn
<1>4. ASSUME NEW q \in ConnRequest, CatObserve(q), ApplyDsn(q) \/ ApplyRefresh(q) \/ ApplyOptions(q)
      PROVE  CatIInv'
  BY <1>4, ApplyDsnStep, ApplyRefreshStep, ApplyOptionsStep
<1>5. ASSUME NEW q \in ConnRequest, CatObserve(q), NEW op \in {"update", "refresh", "options"}, ReadConn(q, op)
      PROVE  CatIInv'
  BY <1>5, ReadConnStep
<1> QED  BY <1>1, <1>2, <1>3, <1>4, <1>5 DEF CatNext, CatStep

LEMMA CatInvariant == CatSpec => []CatIInv
<1> QED  BY CatStart, CatNextStep, PTL DEF CatSpec

(* merge_options and the save of a refresh or a new DSN: when nobody wrote *)
(* to a connection since the request read it, what is enabled afterwards   *)
(* is what was enabled and still exists, also when the database changed in *)
(* between; everything is enabled only in one whose options list no schema *)
(* (one that was never read, or was read when the database had none).      *)
THEOREM ChoicesAreKept == CatSpec => MergeKeepsChoices
<1>1. ASSUME CatIInv, NEW q \in calm, SaveConn(q), cloc[q].op \in {"refresh", "update"},
             conn'[cloc[q].k] # conn[cloc[q].k]
      PROVE  KeepsChoices(conn[cloc[q].k].options, conn'[cloc[q].k].options)
  <2>1. q \in ConnRequest  BY <1>1 DEF CatIInv, CatTypeOK
  <2>2. conn \in [ConnId -> {NoConn} \cup ConnRow] /\ cloc[q].k \in ConnId /\ cpc[q] = "save"
    BY <1>1, <2>1, CatKnown DEF SaveConn, HasInHand
  <2>3. conn' = [conn EXCEPT ![cloc[q].k] = cloc[q].row]  BY <1>1 DEF SaveConn
  <2>4. KeepsChoices(conn[cloc[q].k].options, cloc[q].row.options)
    BY <1>1, <2>2 DEF CatIInv, IsCurrent
  <2> QED  BY <2>2, <2>3, <2>4
<1>2. CatIInv =>
        [\A q \in calm :
           SaveConn(q) /\ cloc[q].op \in {"refresh", "update"} /\ conn'[cloc[q].k] # conn[cloc[q].k] =>
             KeepsChoices(conn[cloc[q].k].options, conn'[cloc[q].k].options)]_catVars
  BY <1>1
<1> QED  BY <1>2, CatInvariant, PTL DEF MergeKeepsChoices

(* get_sql_database passes names without schemas to LangChain: the agent   *)
(* of a connection that opens is offered an object that is not enabled     *)
(* only when nothing is, or under the name of one that is in another       *)
(* schema.                                                                 *)
THEOREM OnlyNamesakesSlipIn == CatSpec => []OfferedIsEnabled
<1>1. ASSUME CatIInv, NEW k \in Existing, Enabled(conn[k].options) # {},
             NEW o \in Offered(conn[k].options), o \notin Enabled(conn[k].options)
      PROVE  \E p \in Enabled(conn[k].options) : p[2] = o[2] /\ p[1] # o[1]
  <2> DEFINE enabled == Enabled(conn[k].options)
  <2>1. o \in Object
    <3>1. objects \subseteq Object  BY <1>1 DEF CatIInv, CatTypeOK
    <3> QED  BY <3>1 DEF Offered, TablesOf
  <2>2. conn[k].options \in OptionsRow
    <3>1. conn \in [ConnId -> {NoConn} \cup ConnRow]  BY <1>1 DEF CatIInv, CatTypeOK
    <3>2. conn[k] \in ConnRow  BY <3>1 DEF Existing
    <3> QED  BY <3>2 DEF ConnRow, OptionsRow
  <2>3. enabled \subseteq Object  BY <2>2 DEF Enabled, OptionsRow
  <2>4. Include(conn[k].options) # {}  BY <1>1 DEF Include, ObjectNames
  <2>5. o[2] \in Include(conn[k].options)  BY <2>4 DEF Offered
  <2>6. PICK p \in enabled : p[2] = o[2]  BY <2>5 DEF Include, ObjectNames
  <2>7. p = <<p[1], p[2]>> /\ o = <<o[1], o[2]>>  BY <2>1, <2>3, CatAssumption
  <2>8. p # o  BY <1>1
  <2> QED  BY <2>6, <2>7, <2>8
<1>2. CatIInv => OfferedIsEnabled  BY <1>1 DEF OfferedIsEnabled
<1> QED  BY <1>2, CatInvariant, PTL

-----------------------------------------------------------------------------
(* MemoryStore *)

MemText == Fact \cup {Blank}
MemLabel == {"idle", "recalled", "fact", "put", "update", "delete", "done", "refused"}

MemTyped ==
    /\ memory \in [MemoryId -> {NoMemory} \cup Value]
    /\ mpc \in [MemRequest -> MemLabel]
    /\ mloc \in [MemRequest -> [facts : Seq(MemText), key : MemoryId \cup {NoMemory},
                                value : {NoMemory} \cup Value, recalled : SUBSET MemoryId]]

MemInd == MemTyped /\ Updates /\ Puts /\ NoRepeat /\ NoSecretStored

LEMMA MemStart == MemInit => MemInd
BY MemAssumption DEF MemInit, MemInd, MemTyped, MemLabel, Updates, Puts, NoRepeat, NoSecretStored, NoMLocal, Extracted, Keys

\* A step that leaves the store alone and brings nobody to a put or an update.
LEMMA MemQuietly ==
    ASSUME MemInd, UNCHANGED memory, MemTyped', NEW q \in MemRequest,
           \A p \in MemRequest \ {q} : mpc'[p] = mpc[p] /\ mloc'[p] = mloc[p],
           mpc'[q] \notin {"put", "update", "delete"}, mloc'[q].value = mloc[q].value
    PROVE  MemInd'
BY DEF MemInd, Updates, Puts, NoRepeat, NoSecretStored, Extracted, Keys

\* A fact may be stored under a new key by request q, if it is the user's or
\* of no topic that q has stored.
LEMMA StoreNew ==
    ASSUME MemInd, MemTyped', NEW q \in MemRequest, NEW k \in MemoryId, NEW fact \in Fact, NEW source \in {"agent", "user"},
           memory' = [memory EXCEPT ![k] = New(q, fact, source)], Storable(fact),
           source = "agent" => \A j \in MemoryId : Extracted(j, q) => Topic(memory[j].content) # Topic(fact),
           \A p \in MemRequest \ {q} : mpc'[p] = mpc[p] /\ mloc'[p] = mloc[p],
           mpc'[q] \notin {"put", "update", "delete"}, mloc'[q].value = mloc[q].value
    PROVE  MemInd'
<1> USE DEF MemInd, MemTyped
<1>1. memory'[k] = New(q, fact, source) /\ \A j \in MemoryId \ {k} : memory'[j] = memory[j]
  OBVIOUS
<1>2. New(q, fact, source) \in Value /\ New(q, fact, source) # NoMemory
  <2>1. New(q, fact, source) \in Value
    BY DEF New, Value
  <2> QED
    BY <2>1, MemAssumption
<1>3. \A j \in MemoryId, p \in MemRequest : Extracted(j, p)' =>
        \/ j # k /\ Extracted(j, p)
        \/ j = k /\ p = q /\ source = "agent"
  BY <1>1 DEF Extracted, New
<1>4. memory'[k].content = fact
  BY <1>1 DEF New
<1>5. Puts'
  BY <1>1, <1>3 DEF Puts
<1>6. NoRepeat'
  BY <1>1, <1>3, <1>4 DEF NoRepeat
<1>7. Updates'
  BY DEF Updates
<1>8. NoSecretStored'
  BY <1>1, <1>4 DEF NoSecretStored, Keys, Storable
<1> QED
  BY <1>5, <1>6, <1>7, <1>8

LEMMA StepKeeps == MemInd /\ [MemNext]_memVars => MemInd'
<1> SUFFICES ASSUME MemInd, [MemNext]_memVars PROVE MemInd'
  OBVIOUS
<1> USE DEF MGoto
<1>1. ASSUME NEW q \in MemRequest, Recall(q) PROVE MemInd'
  <2>1. MemTyped'
    BY <1>1 DEF MemInd, MemTyped, MemLabel, Recall, Keys
  <2> QED
    BY <1>1, <2>1, MemQuietly DEF MemInd, MemTyped, Recall
<1>2. ASSUME NEW q \in MemRequest, Extract(q) PROVE MemInd'
  <2>1. PICK f \in MemText, g \in MemText :
          mloc' = [mloc EXCEPT ![q] = [mloc[q] EXCEPT !.facts = <<f, g>>, !.recalled = {}]]
    BY <1>2 DEF Extract, MemText
  <2>2. mpc' = [mpc EXCEPT ![q] = "fact"] /\ UNCHANGED memory
    BY <1>2 DEF Extract
  <2>3. mloc[q] \in [facts : Seq(MemText), key : MemoryId \cup {NoMemory},
                     value : {NoMemory} \cup Value, recalled : SUBSET MemoryId]
    BY DEF MemInd, MemTyped
  <2>4. <<f, g>> \in Seq(MemText)
    OBVIOUS
  <2> DEFINE facts == <<f, g>>
             local == [mloc[q] EXCEPT !.facts = facts, !.recalled = {}]
  <2>5. mloc' = [mloc EXCEPT ![q] = local]
    BY <2>1
  <2>6. facts \in Seq(MemText)
    BY <2>4
  <2> HIDE DEF facts
  <2>7. /\ local \in [facts : Seq(MemText), key : MemoryId \cup {NoMemory},
                      value : {NoMemory} \cup Value, recalled : SUBSET MemoryId]
        /\ local.value = mloc[q].value
    BY <2>3, <2>6
  <2> HIDE DEF local
  <2>8. MemTyped'
    BY <2>2, <2>5, <2>7 DEF MemInd, MemTyped, MemLabel
  <2>9. mloc'[q] = local /\ \A p \in MemRequest \ {q} : mloc'[p] = mloc[p]
    BY <2>5 DEF MemInd, MemTyped
  <2> QED
    BY <2>2, <2>7, <2>8, <2>9, MemQuietly DEF MemInd, MemTyped
<1>3. ASSUME NEW q \in MemRequest, Deduplicate(q) PROVE MemInd'
  <2> DEFINE fact == Head(mloc[q].facts)
  <2>1. CASE Storable(fact) /\ Similar(fact) = {}
    <3>1. mpc' = [mpc EXCEPT ![q] = "put"] /\ UNCHANGED <<memory, mloc>> /\ mloc[q].facts # <<>>
      BY <1>3, <2>1 DEF Deduplicate
    <3>2. \A k \in MemoryId : Extracted(k, q) => Topic(memory[k].content) # Topic(fact)
      BY <2>1 DEF Similar, Keys, Extracted
    <3>3. MemTyped' /\ Updates' /\ NoRepeat' /\ NoSecretStored'
      BY <3>1 DEF MemInd, MemTyped, MemLabel, Updates, NoRepeat, NoSecretStored, Extracted, Keys
    <3>4. Puts'
      BY <2>1, <3>1, <3>2 DEF MemInd, MemTyped, Puts, Extracted
    <3> QED
      BY <3>3, <3>4 DEF MemInd
  <2>2. CASE ~(Storable(fact) /\ Similar(fact) = {})
    <3>1. mloc' = [mloc EXCEPT ![q].facts = Tail(@)] /\ UNCHANGED <<memory, mpc>>
          /\ mpc[q] = "fact" /\ mloc[q].facts # <<>>
      BY <1>3, <2>2 DEF Deduplicate
    <3>2. Tail(mloc[q].facts) \in Seq(MemText)
      BY <3>1 DEF MemInd, MemTyped
    <3>3. MemTyped'
      BY <3>1, <3>2 DEF MemInd, MemTyped
    <3> QED
      BY <3>1, <3>3, MemQuietly DEF MemInd, MemTyped
  <2> QED
    BY <2>1, <2>2
<1>4. ASSUME NEW q \in MemRequest, Remember(q) PROVE MemInd'
  <2> DEFINE fact == Head(mloc[q].facts)
  <2>1. mpc[q] = "put" /\ mpc' = [mpc EXCEPT ![q] = "fact"] /\ mloc' = [mloc EXCEPT ![q].facts = Tail(@)]
    BY <1>4 DEF Remember, Fresh
  <2>2. PICK k \in MemoryId : memory' = [memory EXCEPT ![k] = New(q, fact, "agent")]
    BY <1>4 DEF Remember, Fresh
  <2>3. /\ Storable(fact) /\ fact \in MemText /\ Tail(mloc[q].facts) \in Seq(MemText)
        /\ \A j \in MemoryId : Extracted(j, q) => Topic(memory[j].content) # Topic(fact)
    BY <2>1 DEF MemInd, Puts, MemTyped
  <2>4. fact \in Fact
    BY <2>3 DEF Storable, MemText
  <2>5. New(q, fact, "agent") \in Value
    BY <2>4 DEF New, Value
  <2>6. MemTyped'
    BY <2>1, <2>2, <2>3, <2>5 DEF MemInd, MemTyped, MemLabel
  <2> QED
    BY <2>1, <2>2, <2>3, <2>4, <2>6, StoreNew DEF MemInd, MemTyped
<1>5. ASSUME NEW q \in MemRequest, ExtractEnd(q) PROVE MemInd'
  <2>1. MemTyped'
    BY <1>5 DEF MemInd, MemTyped, MemLabel, ExtractEnd
  <2> QED
    BY <1>5, <2>1, MemQuietly DEF MemInd, MemTyped, ExtractEnd
<1>6. ASSUME NEW q \in MemRequest, Add(q) PROVE MemInd'
  <2>1. CASE mpc' = [mpc EXCEPT ![q] = "refused"] /\ UNCHANGED <<memory, mloc>>
    <3>1. MemTyped'
      BY <2>1 DEF MemInd, MemTyped, MemLabel
    <3> QED
      BY <2>1, <3>1, MemQuietly DEF MemInd, MemTyped
  <2>2. ASSUME NEW fact \in Fact, NEW k \in MemoryId, Storable(fact),
               memory' = [memory EXCEPT ![k] = New(q, fact, "user")],
               mpc' = [mpc EXCEPT ![q] = "done"], UNCHANGED mloc
        PROVE  MemInd'
    <3>1. New(q, fact, "user") \in Value
      BY DEF New, Value
    <3>2. MemTyped'
      BY <2>2, <3>1 DEF MemInd, MemTyped, MemLabel
    <3> QED
      BY <2>2, <3>2, StoreNew DEF MemInd, MemTyped
  <2> QED
    BY <1>6, <2>1, <2>2 DEF Add, Storable, Fresh
<1>7. ASSUME NEW q \in MemRequest, UpdateGet(q) PROVE MemInd'
  <2>1. CASE mpc' = [mpc EXCEPT ![q] = "refused"] /\ UNCHANGED <<memory, mloc>>
    <3>1. MemTyped'
      BY <2>1 DEF MemInd, MemTyped, MemLabel
    <3> QED
      BY <2>1, <3>1, MemQuietly DEF MemInd, MemTyped
  <2>2. ASSUME NEW fact \in Fact, NEW k \in Keys, Storable(fact), UNCHANGED memory,
               mloc' = [mloc EXCEPT ![q].key = k, ![q].value = [memory[k] EXCEPT !.content = fact, !.edited = TRUE]],
               mpc' = [mpc EXCEPT ![q] = "update"]
        PROVE  MemInd'
    <3> DEFINE edit == [memory[k] EXCEPT !.content = fact, !.edited = TRUE]
    <3>1. k \in MemoryId /\ memory[k] \in Value
      BY DEF Keys, MemInd, MemTyped
    <3>2. edit \in Value /\ edit.edited /\ edit.content = fact
      BY <3>1 DEF Value
    <3>3. /\ mloc'[q] = [mloc[q] EXCEPT !.key = k, !.value = edit]
          /\ mpc'[q] = "update"
          /\ \A p \in MemRequest \ {q} : mpc'[p] = mpc[p] /\ mloc'[p] = mloc[p]
      BY <2>2 DEF MemInd, MemTyped
    <3>4. mloc'[q].value = edit /\ mloc'[q].key = k
      BY <3>3 DEF MemInd, MemTyped
    <3>5. MemTyped'
      BY <2>2, <3>1, <3>2 DEF MemInd, MemTyped, MemLabel
    <3> HIDE DEF edit
    <3>6. Updates'
      <4> SUFFICES ASSUME NEW p \in MemRequest
                   PROVE  /\ mloc'[p].value # NoMemory => mloc'[p].value.edited
                          /\ mpc'[p] = "update" => mloc'[p].key \in MemoryId /\ mloc'[p].value \in Value
                          /\ mpc'[p] = "delete" => mloc'[p].key \in MemoryId
        BY DEF Updates
      <4>1. CASE p = q
        BY <4>1, <3>1, <3>2, <3>3, <3>4
      <4>2. CASE p # q
        BY <4>2, <3>3 DEF MemInd, Updates
      <4> QED
        BY <4>1, <4>2
    <3>7. NoRepeat'
      BY <2>2 DEF MemInd, NoRepeat, Extracted
    <3>9. Puts'
      <4> SUFFICES ASSUME NEW p \in MemRequest, mpc'[p] = "put"
                   PROVE  /\ mloc'[p].facts # <<>> /\ Storable(Head(mloc'[p].facts))
                          /\ \A j \in MemoryId : Extracted(j, p)' => Topic(memory'[j].content) # Topic(Head(mloc'[p].facts))
        BY DEF Puts
      <4>1. p # q /\ mpc[p] = "put" /\ mloc'[p] = mloc[p]
        BY <3>3
      <4> QED
        BY <2>2, <4>1 DEF MemInd, Puts, Extracted
    <3>8. NoSecretStored'
      <4>1. \A j \in MemoryId : memory'[j] # NoMemory => memory'[j].content \notin Secret
        BY <2>2 DEF MemInd, NoSecretStored, Keys
      <4> SUFFICES ASSUME NEW p \in MemRequest, mloc'[p].value # NoMemory
                   PROVE  mloc'[p].value.content \notin Secret
        BY <4>1 DEF NoSecretStored, Keys
      <4>2. CASE p = q
        BY <4>2, <2>2, <3>2, <3>4 DEF Storable
      <4>3. CASE p # q
        BY <4>3, <3>3 DEF MemInd, NoSecretStored
      <4> QED
        BY <4>2, <4>3
    <3> QED
      BY <3>5, <3>6, <3>7, <3>8, <3>9 DEF MemInd
  <2> QED
    BY <1>7, <2>1, <2>2 DEF UpdateGet, Storable
<1>8. ASSUME NEW q \in MemRequest, UpdatePut(q) PROVE MemInd'
  <2> DEFINE k == mloc[q].key
             edit == mloc[q].value
  <2>1. memory' = [memory EXCEPT ![k] = edit] /\ mpc' = [mpc EXCEPT ![q] = "done"] /\ UNCHANGED mloc /\ mpc[q] = "update"
    BY <1>8 DEF UpdatePut
  <2>2. k \in MemoryId /\ edit \in Value /\ edit # NoMemory /\ edit.edited
    BY <2>1, MemAssumption DEF MemInd, Updates
  <2>3. edit.content \notin Secret
    BY <2>2 DEF MemInd, NoSecretStored
  <2>4. MemTyped'
    BY <2>1, <2>2 DEF MemInd, MemTyped, MemLabel
  <2>5. memory'[k] = edit /\ \A j \in MemoryId \ {k} : memory'[j] = memory[j]
    BY <2>1, <2>2 DEF MemInd, MemTyped
  <2>6. \A j \in MemoryId, p \in MemRequest : Extracted(j, p)' => j # k /\ Extracted(j, p)
    BY <2>2, <2>5 DEF Extracted
  <2>7. Updates' /\ Puts' /\ NoRepeat'
    BY <2>1, <2>5, <2>6 DEF MemInd, MemTyped, Updates, Puts, NoRepeat
  <2>8. NoSecretStored'
    BY <2>1, <2>3, <2>5 DEF MemInd, NoSecretStored, Keys
  <2> QED
    BY <2>4, <2>7, <2>8 DEF MemInd
<1>9. ASSUME NEW q \in MemRequest, DeleteMemoryGet(q) PROVE MemInd'
  <2>1. CASE mpc' = [mpc EXCEPT ![q] = "refused"] /\ UNCHANGED <<memory, mloc>>
    <3>1. MemTyped'
      BY <2>1 DEF MemInd, MemTyped, MemLabel
    <3> QED
      BY <2>1, <3>1, MemQuietly DEF MemInd, MemTyped
  <2>2. ASSUME NEW k \in MemoryId, UNCHANGED memory, mloc' = [mloc EXCEPT ![q].key = k],
               mpc' = [mpc EXCEPT ![q] = "delete"]
        PROVE  MemInd'
    <3>1. MemTyped'
      BY <2>2 DEF MemInd, MemTyped, MemLabel
    <3>2. /\ mloc'[q].key = k /\ mloc'[q].value = mloc[q].value /\ mpc'[q] = "delete"
          /\ \A p \in MemRequest \ {q} : mpc'[p] = mpc[p] /\ mloc'[p] = mloc[p]
      BY <2>2 DEF MemInd, MemTyped
    <3> QED
      BY <2>2, <3>1, <3>2 DEF MemInd, Updates, Puts, NoRepeat, NoSecretStored, Extracted, Keys
  <2> QED
    BY <1>9, <2>1, <2>2 DEF DeleteMemoryGet
<1>10. ASSUME NEW q \in MemRequest, DeleteMemory(q) PROVE MemInd'
  <2> DEFINE k == mloc[q].key
  <2>1. memory' = [memory EXCEPT ![k] = NoMemory] /\ mpc' = [mpc EXCEPT ![q] = "done"] /\ UNCHANGED mloc /\ mpc[q] = "delete"
    BY <1>10 DEF DeleteMemory
  <2>2. k \in MemoryId
    BY <2>1 DEF MemInd, Updates
  <2>3. MemTyped'
    BY <2>1, <2>2 DEF MemInd, MemTyped, MemLabel
  <2>4. memory'[k] = NoMemory /\ \A j \in MemoryId \ {k} : memory'[j] = memory[j]
    BY <2>1, <2>2 DEF MemInd, MemTyped
  <2>5. \A j \in MemoryId, p \in MemRequest : Extracted(j, p)' => j # k /\ Extracted(j, p)
    BY <2>4 DEF Extracted
  <2>6. Updates' /\ Puts' /\ NoRepeat'
    BY <2>1, <2>4, <2>5 DEF MemInd, MemTyped, Updates, Puts, NoRepeat
  <2>7. NoSecretStored'
    BY <2>1, <2>4 DEF MemInd, NoSecretStored, Keys
  <2> QED
    BY <2>3, <2>6, <2>7 DEF MemInd
<1>11. CASE UNCHANGED memVars
  BY <1>11 DEF memVars, MemInd, MemTyped, Updates, Puts, NoRepeat, NoSecretStored, Extracted, Keys
<1> QED
  BY <1>1, <1>2, <1>3, <1>4, <1>5, <1>6, <1>7, <1>8, <1>9, <1>10, <1>11 DEF MemNext, MemOver

\* However the requests of a user interleave, the invariant holds.
THEOREM MemoryInvariant == MemSpec => []MemInd
<1>1. MemInd /\ [MemNext]_memVars => MemInd'
  BY StepKeeps
<1> QED
  BY MemStart, <1>1, PTL DEF MemSpec

\* Content that looks like a credential is neither stored nor on its way in.
THEOREM SecretsStayOut == MemSpec => []NoSecretStored
<1>1. MemInd => NoSecretStored
  BY DEF MemInd
<1> QED
  BY MemoryInvariant, <1>1, PTL

\* A turn stores no topic twice, although its searches and puts interleave with
\* those of others (extract_and_store).
THEOREM ExtractedOnce == MemSpec => []OncePerTurn
<1>1. MemInd => OncePerTurn
  <2> SUFFICES ASSUME MemInd, NEW j \in Keys, NEW k \in Keys,
                      memory[j].source = "agent", ~memory[j].edited,
                      memory[k].source = "agent", ~memory[k].edited,
                      memory[j].by = memory[k].by, memory[j].by # Earlier,
                      Topic(memory[j].content) = Topic(memory[k].content)
               PROVE  j = k
    BY DEF OncePerTurn
  <2>1. memory[j] \in Value
    BY DEF MemInd, MemTyped, Keys
  <2>2. memory[j].by \in MemRequest
    BY <2>1 DEF Value, Keys
  <2> QED
    BY <2>2 DEF MemInd, NoRepeat, Extracted, Keys
<1> QED
  BY MemoryInvariant, <1>1, PTL

-----------------------------------------------------------------------------
(* AgenticSchema *)

AgLabel == {"idle", "summarize", "agent", "schema", "sql", "final", "persist", "save",
            "finally", "thread", "done"}
GLocal == [new : BOOLEAN, project : Project \cup {NoArt}, round : 0..MaxRounds, text : BOOLEAN,
           produced : BOOLEAN, schema : Artifact \cup {NoArt}, sql : Artifact \cup {NoArt}]

\* Alone, with the project as an argument.
AloneWith(p, pc, l) ==
    /\ pc \in {"summarize", "agent", "schema", "sql", "final", "persist", "save"} => p = l.project
    /\ pc = "finally" => p = l.project \/ (l.produced /\ p = Saved(l))
    /\ pc = "thread" => p = NoArt /\ l.new /\ ~l.produced

LEMMA AgKnown ==
    ASSUME AgIInv, NEW r \in AgTurn
    PROVE  /\ project \in Project \cup {NoArt} /\ said \in BOOLEAN /\ apart \subseteq AgTurn
           /\ gpc \in [AgTurn -> AgLabel] /\ gloc \in [AgTurn -> GLocal]
           /\ gpc[r] \in AgLabel /\ gloc[r] \in GLocal /\ Ready(gpc[r], gloc[r])
           /\ r \in apart => AloneWith(project, gpc[r], gloc[r])
           /\ SqlHasSchema(project) /\ (gpc[r] # "idle" => SqlHasSchema(gloc[r].project))
BY DEF AgIInv, AgTypeOK, AgLabel, GLocal, AloneWith, Alone

LEMMA AgMove ==
    ASSUME AgIInv, NEW r \in AgTurn, NEW p \in AgLabel \ {"idle"}, NEW l \in GLocal,
           GGoto(r, p), gloc' = [gloc EXCEPT ![r] = l],
           project' \in Project \cup {NoArt}, said' \in BOOLEAN,
           apart' = (apart \cap {r}) \cup (IF gpc[r] = "idle" THEN {r} ELSE {}),
           Ready(p, l), r \in apart' => AloneWith(project', p, l),
           SqlHasSchema(project'), SqlHasSchema(l.project)
    PROVE  AgIInv'
<1>1. gpc \in [AgTurn -> AgLabel] /\ gloc \in [AgTurn -> GLocal] /\ apart \subseteq AgTurn
  BY AgKnown
<1>2. /\ gpc' \in [AgTurn -> AgLabel] /\ gloc' \in [AgTurn -> GLocal]
      /\ gpc'[r] = p /\ gloc'[r] = l
      /\ \A h \in AgTurn \ {r} : gpc'[h] = gpc[h] /\ gloc'[h] = gloc[h]
  BY <1>1 DEF GGoto
<1>3. apart' \subseteq {r}  OBVIOUS
<1>4. AgTypeOK'  BY <1>2, <1>3 DEF AgTypeOK, AgLabel, GLocal
<1>5. \A h \in AgTurn : Ready(gpc'[h], gloc'[h])  BY <1>2, AgKnown
<1>6. (\A h \in apart : Alone(gpc[h], gloc[h]))'
  BY <1>2, <1>3 DEF Alone, AloneWith
<1>7. \A h \in AgTurn : gpc'[h] # "idle" => SqlHasSchema(gloc'[h].project)
  BY <1>2, AgKnown
<1> QED  BY <1>4, <1>5, <1>6, <1>7 DEF AgIInv

(* Steps that leave the project alone, and the project a turn has read.    *)
LEMMA Works ==
    ASSUME AgIInv, NEW r \in AgTurn, NEW p \in AgLabel \ {"idle"}, NEW l \in GLocal,
           gpc[r] \in {"summarize", "agent", "schema", "sql", "final", "persist", "save"},
           p \in {"agent", "schema", "sql", "final", "persist", "save", "finally"},
           GGoto(r, p), gloc' = [gloc EXCEPT ![r] = l], UNCHANGED project, said' \in BOOLEAN,
           apart' = (apart \cap {r}) \cup (IF gpc[r] = "idle" THEN {r} ELSE {}),
           l.project = gloc[r].project, p \in {"schema", "sql"} => l.round > 0,
           p = "save" => l.produced /\ Saved(l).schema # NoArt
    PROVE  AgIInv'
<1>1. l.project \in Project  BY AgKnown DEF Ready
<1>2. Ready(p, l)  BY <1>1 DEF Ready
<1>3. r \in apart' => AloneWith(project', p, l)  BY AgKnown DEF AloneWith
<1>4. SqlHasSchema(project') /\ SqlHasSchema(l.project)  BY AgKnown DEF SqlHasSchema
<1> QED  BY <1>2, <1>3, <1>4, AgKnown, AgMove

(* An artifact of this round.                                              *)
LEMMA MadeIs ==
    ASSUME AgIInv, NEW r \in AgTurn, gpc[r] \in {"schema", "sql"}
    PROVE  Made(r) \in Artifact
<1>1. gloc[r].round \in 0..MaxRounds /\ gloc[r].round > 0 /\ MaxRounds \in Nat
  BY AgKnown, AgAssumption DEF GLocal, Ready
<1>2. gloc[r].round \in 1..MaxRounds  BY <1>1
<1> QED  BY <1>2 DEF Made, Artifact

Observes(r) == apart' = (apart \cap {r}) \cup (IF gpc[r] = "idle" THEN {r} ELSE {})

LEMMA GPostStep == ASSUME AgIInv, NEW r \in AgTurn, GPost(r), Observes(r) PROVE AgIInv'
<1>1. /\ project \in Project \cup {NoArt} /\ gloc[r] \in GLocal /\ gloc \in [AgTurn -> GLocal]
      /\ SqlHasSchema(project)
  BY AgKnown
<1>2. project' \in Project /\ SqlHasSchema(project')
  BY <1>1 DEF GPost, Project, SqlHasSchema
<1> DEFINE l == [gloc[r] EXCEPT !.new = project = NoArt, !.project = project']
<1>3. gloc' = [gloc EXCEPT ![r] = l]  BY <1>1 DEF GPost
<1>4. (project = NoArt) \in BOOLEAN  OBVIOUS
<1>5. l \in GLocal /\ l.project = project'  BY <1>1, <1>2, <1>4 DEF GLocal
<1> HIDE DEF l
<1>6. Ready("summarize", l) /\ AloneWith(project', "summarize", l)
  BY <1>2, <1>5 DEF Ready, AloneWith
<1>7. GGoto(r, "summarize") /\ UNCHANGED said  BY DEF GPost
<1> QED  BY <1>2, <1>3, <1>5, <1>6, <1>7, AgKnown, AgMove DEF Observes, AgLabel

LEMMA GAgentStep == ASSUME AgIInv, NEW r \in AgTurn, GAgent(r), Observes(r) PROVE AgIInv'
<1>1. PICK next \in {"agent", "schema", "sql", "final"}, text \in BOOLEAN :
        /\ next # "final" => gloc[r].round < MaxRounds
        /\ gloc' = [gloc EXCEPT ![r].text = @ \/ text,
                                ![r].round = IF next = "final" THEN @ ELSE @ + 1]
        /\ GGoto(r, next)
  BY DEF GAgent
<1> DEFINE words == gloc[r].text \/ text
           n == IF next = "final" THEN gloc[r].round ELSE gloc[r].round + 1
           l == [gloc[r] EXCEPT !.text = words, !.round = n]
<1>2. gloc[r] \in GLocal /\ gloc \in [AgTurn -> GLocal] /\ gpc[r] = "agent"  BY AgKnown DEF GAgent
<1>3. gloc[r].round \in 0..MaxRounds /\ MaxRounds \in Nat  BY <1>2, AgAssumption DEF GLocal
<1>4. n \in 0..MaxRounds /\ (next # "final" => n > 0)  BY <1>1, <1>3
<1>5. gloc' = [gloc EXCEPT ![r] = l]  BY <1>1, <1>2
<1>6. words \in BOOLEAN  OBVIOUS
<1> HIDE DEF words, n
<1>7. l \in GLocal /\ l.project = gloc[r].project /\ l.round = n  BY <1>2, <1>4, <1>6 DEF GLocal
<1> HIDE DEF l
<1>8. said' \in BOOLEAN /\ UNCHANGED project  BY DEF GAgent
<1>9. next \in {"schema", "sql"} => l.round > 0  BY <1>4, <1>7
<1> QED  BY <1>1, <1>2, <1>5, <1>7, <1>8, <1>9, Works DEF Observes, AgLabel

LEMMA ToolStep ==
    ASSUME AgIInv, NEW r \in AgTurn, GenerateSchemaTool(r) \/ GenerateSqlTool(r), Observes(r)
    PROVE  AgIInv'
<1>1. gloc[r] \in GLocal /\ gloc \in [AgTurn -> GLocal] /\ gpc[r] \in {"schema", "sql"}
  BY AgKnown DEF GenerateSchemaTool, GenerateSqlTool
<1>2. GGoto(r, "agent") /\ said' \in BOOLEAN /\ UNCHANGED project
  BY DEF GenerateSchemaTool, GenerateSqlTool
<1>3. PICK l \in {gloc[r], [gloc[r] EXCEPT !.schema = Made(r)], [gloc[r] EXCEPT !.sql = Made(r)]} :
        gloc' = [gloc EXCEPT ![r] = l]
  BY <1>1 DEF GenerateSchemaTool, GenerateSqlTool
<1>4. l \in GLocal /\ l.project = gloc[r].project
  <2>1. Made(r) \in Artifact  BY <1>1, MadeIs
  <2> QED  BY <1>1, <1>3, <2>1 DEF GLocal
<1> QED  BY <1>1, <1>2, <1>3, <1>4, Works DEF Observes, AgLabel

LEMMA PassOnStep ==
    ASSUME AgIInv, NEW r \in AgTurn, GSummarize(r) \/ GFinal(r) \/ GPersistGet(r) \/ GInterrupt(r),
           Observes(r)
    PROVE  AgIInv'
<1>1. gloc[r] \in GLocal /\ gloc \in [AgTurn -> GLocal] /\ said \in BOOLEAN  BY AgKnown
<1>2. UNCHANGED gloc => gloc' = [gloc EXCEPT ![r] = gloc[r]]  BY <1>1
<1>3. CASE GSummarize(r)
  <2>1. /\ gpc[r] = "summarize" /\ GGoto(r, "agent") /\ said' \in BOOLEAN
        /\ UNCHANGED <<project, gloc>>
    BY <1>3 DEF GSummarize
  <2> QED  BY <1>1, <1>2, <2>1, Works DEF Observes, AgLabel
<1>4. CASE GFinal(r)
  <2>1. PICK other \in BOOLEAN : gloc' = [gloc EXCEPT ![r].produced = @ \/ gloc[r].text \/ other]
    BY <1>4 DEF GFinal
  <2> DEFINE answered == gloc[r].produced \/ gloc[r].text \/ other
             l == [gloc[r] EXCEPT !.produced = answered]
  <2>2. gloc' = [gloc EXCEPT ![r] = l]  BY <1>1, <2>1
  <2>3. answered \in BOOLEAN  OBVIOUS
  <2> HIDE DEF answered
  <2>4. l \in GLocal /\ l.project = gloc[r].project  BY <1>1, <2>3 DEF GLocal
  <2> HIDE DEF l
  <2>5. gpc[r] = "final" /\ GGoto(r, "persist") /\ UNCHANGED <<project, said>>  BY <1>4 DEF GFinal
  <2> QED  BY <1>1, <2>2, <2>4, <2>5, Works DEF Observes, AgLabel
<1>5. CASE GPersistGet(r)
  <2>1. gpc[r] = "persist" /\ UNCHANGED <<project, said, gloc>>  BY <1>5 DEF GPersistGet
  <2>2. \/ GGoto(r, "finally")
        \/ GGoto(r, "save") /\ gloc[r].produced /\ OrElse(gloc[r].schema, gloc[r].project.schema) # NoArt
    BY <1>5 DEF GPersistGet
  <2>3. OrElse(gloc[r].schema, gloc[r].project.schema) = Saved(gloc[r]).schema  BY DEF Saved
  <2> QED  BY <1>1, <1>2, <2>1, <2>2, <2>3, Works DEF Observes, AgLabel
<1>6. CASE GInterrupt(r)
  <2>1. /\ gpc[r] \in {"summarize", "agent", "schema", "sql", "final", "persist", "save"}
        /\ GGoto(r, "finally") /\ UNCHANGED <<project, said, gloc>>
    BY <1>6 DEF GInterrupt
  <2> QED  BY <1>1, <1>2, <2>1, Works DEF Observes, AgLabel
<1> QED  BY <1>3, <1>4, <1>5, <1>6

LEMMA GPersistSaveStep == ASSUME AgIInv, NEW r \in AgTurn, GPersistSave(r), Observes(r) PROVE AgIInv'
<1> DEFINE l == gloc[r]
<1>1. /\ l \in GLocal /\ gloc \in [AgTurn -> GLocal] /\ said \in BOOLEAN /\ gpc[r] = "save"
      /\ l.project \in Project /\ SqlHasSchema(l.project) /\ l.produced /\ Saved(l).schema # NoArt
  BY AgKnown DEF GPersistSave, Ready
<1>2. project' = Saved(l) /\ GGoto(r, "finally") /\ UNCHANGED <<said, gloc>>  BY DEF GPersistSave
<1>3. gloc' = [gloc EXCEPT ![r] = l]  BY <1>1, <1>2
<1> HIDE DEF l
<1>4. Saved(l) \in Project  BY <1>1 DEF Saved, OrElse, GLocal, Project
<1>5. Ready("finally", l) /\ AloneWith(project', "finally", l)  BY <1>1, <1>2 DEF Ready, AloneWith
<1>6. SqlHasSchema(project')  BY <1>1, <1>2 DEF SqlHasSchema
<1> QED  BY <1>1, <1>2, <1>3, <1>4, <1>5, <1>6, AgMove DEF Observes, AgLabel

LEMMA NoGLocalIs == NoGLocal \in GLocal /\ SqlHasSchema(NoGLocal.project)
<1>1. 0 \in 0..MaxRounds  BY AgAssumption
<1> QED  BY <1>1 DEF NoGLocal, GLocal, SqlHasSchema

LEMMA GFinallyStep == ASSUME AgIInv, NEW r \in AgTurn, GFinally(r), Observes(r) PROVE AgIInv'
<1>1. /\ gloc[r] \in GLocal /\ gloc \in [AgTurn -> GLocal] /\ said \in BOOLEAN /\ gpc[r] = "finally"
      /\ gpc \in [AgTurn -> AgLabel] /\ Ready("finally", gloc[r]) /\ SqlHasSchema(gloc[r].project)
      /\ project \in Project \cup {NoArt} /\ SqlHasSchema(project)
  BY AgKnown DEF GFinally
<1> DEFINE empty == gloc[r].new /\ ~gloc[r].produced
<1>2. CASE empty
  <2>1. project' = NoArt /\ GGoto(r, "thread") /\ UNCHANGED said  BY <1>2 DEF GFinally
  <2>2. gpc'[r] = "thread"  BY <1>1, <2>1 DEF GGoto
  <2>3. gloc' = [gloc EXCEPT ![r] = gloc[r]]  BY <1>1, <2>2 DEF GFinally
  <2>4. Ready("thread", gloc[r]) /\ AloneWith(project', "thread", gloc[r])
    BY <1>1, <1>2, <2>1 DEF Ready, AloneWith
  <2>5. SqlHasSchema(project')  BY <2>1 DEF SqlHasSchema
  <2> QED  BY <1>1, <2>1, <2>3, <2>4, <2>5, AgMove DEF Observes, AgLabel
<1>3. CASE ~empty
  <2>1. UNCHANGED <<project, said>> /\ GGoto(r, "done")  BY <1>3 DEF GFinally
  <2>2. gpc'[r] = "done"  BY <1>1, <2>1 DEF GGoto
  <2>3. gloc' = [gloc EXCEPT ![r] = NoGLocal]  BY <2>2 DEF GFinally
  <2>4. Ready("done", NoGLocal) /\ AloneWith(project', "done", NoGLocal)  BY DEF Ready, AloneWith
  <2>5. SqlHasSchema(project')  BY <1>1, <2>1
  <2>6. NoGLocal \in GLocal /\ SqlHasSchema(NoGLocal.project)  BY NoGLocalIs
  <2> QED  BY <1>1, <2>1, <2>3, <2>4, <2>5, <2>6, AgMove DEF Observes, AgLabel
<1> QED  BY <1>2, <1>3

LEMMA GDeleteThreadStep == ASSUME AgIInv, NEW r \in AgTurn, GDeleteThread(r), Observes(r) PROVE AgIInv'
<1>1. project \in Project \cup {NoArt} /\ SqlHasSchema(project)  BY AgKnown
<1>2. /\ UNCHANGED project /\ GGoto(r, "done") /\ said' \in BOOLEAN
      /\ gloc' = [gloc EXCEPT ![r] = NoGLocal]
  BY DEF GDeleteThread
<1>3. Ready("done", NoGLocal) /\ AloneWith(project', "done", NoGLocal)  BY DEF Ready, AloneWith
<1>4. NoGLocal \in GLocal /\ SqlHasSchema(NoGLocal.project) /\ SqlHasSchema(project')
  BY <1>1, <1>2, NoGLocalIs
<1> QED  BY <1>1, <1>2, <1>3, <1>4, AgMove DEF Observes, AgLabel

LEMMA AgStart == ASSUME AgInit PROVE AgIInv
<1>1. project \in Project \cup {NoArt}
  <2>1. [id : {OldArt}, schema : {NoArt, OldArt}, sql : {NoArt, OldArt}] \subseteq Project
    BY DEF Project, Artifact
  <2> QED  BY <2>1 DEF AgInit
<1>2. gpc \in [AgTurn -> AgLabel] /\ gloc \in [AgTurn -> GLocal] /\ said \in BOOLEAN /\ apart = {}
  BY NoGLocalIs DEF AgInit, AgLabel
<1>3. AgTypeOK  BY <1>1, <1>2 DEF AgTypeOK, AgLabel, GLocal
<1>4. \A r \in AgTurn : Ready(gpc[r], gloc[r]) /\ gpc[r] = "idle"  BY DEF AgInit, Ready
<1>5. SqlHasSchema(project)  BY DEF AgInit, SqlHasSchema
<1> QED  BY <1>2, <1>3, <1>4, <1>5 DEF AgIInv

LEMMA AgNextStep == ASSUME AgIInv, [AgNext]_agVars PROVE AgIInv'
<1>1. ASSUME UNCHANGED agVars PROVE AgIInv'
  BY <1>1 DEF agVars, AgIInv, AgTypeOK, Ready, Alone, SqlHasSchema
<1>2. ASSUME NEW r \in AgTurn, AgStep(r), Observes(r) PROVE AgIInv'
  BY <1>2, GPostStep, GAgentStep, ToolStep, PassOnStep, GPersistSaveStep, GFinallyStep, GDeleteThreadStep
     DEF AgStep
<1> QED  BY <1>1, <1>2 DEF AgNext, Observes

LEMMA AgInvariant == AgSpec => []AgIInv
<1> QED  BY AgStart, AgNextStep, PTL DEF AgSpec

(* SchemaAgent: a turn that no other met ends with the project that it     *)
(* read or with what it showed in place of that, artifact by artifact, and *)
(* without project and messages when it created the project and was not    *)
(* answered, wherever it was interrupted.                                  *)
THEOREM LoneTurnsAreWhole == AgSpec => TurnIsAllOrNothing
<1>1. ASSUME AgIInv, AgNext, NEW r \in apart, gpc[r] # "done", gpc'[r] = "done"
      PROVE  LET l == gloc[r] IN
             IF l.new /\ ~l.produced THEN project' = NoArt /\ said' = FALSE
             ELSE project' = l.project \/
                  /\ l.produced
                  /\ IF l.schema # NoArt THEN project'.schema = l.schema
                                          ELSE project'.schema = l.project.schema
                  /\ IF l.sql # NoArt THEN project'.sql = l.sql
                                       ELSE project'.sql = l.project.sql
  <2>1. /\ r \in AgTurn /\ gpc \in [AgTurn -> AgLabel] /\ AloneWith(project, gpc[r], gloc[r])
    <3>1. r \in AgTurn  BY <1>1 DEF AgIInv, AgTypeOK
    <3> QED  BY <1>1, <3>1, AgKnown
  <2>2. PICK h \in AgTurn : AgStep(h)  BY <1>1 DEF AgNext, AgOver, agVars
  <2>3. \E p \in AgLabel : GGoto(h, p)
    BY <2>2 DEF AgStep, GPost, GSummarize, GAgent, GenerateSchemaTool, GenerateSqlTool, GFinal,
                GPersistGet, GPersistSave, GInterrupt, GFinally, GDeleteThread, AgLabel
  <2>4. h = r  BY <1>1, <2>1, <2>3 DEF GGoto
  <2>5. GFinally(r) \/ GDeleteThread(r)
    BY <1>1, <2>1, <2>2, <2>4 DEF AgStep, GPost, GSummarize, GAgent, GenerateSchemaTool, GenerateSqlTool,
                                  GFinal, GPersistGet, GPersistSave, GInterrupt, GGoto
  <2>6. CASE GDeleteThread(r)
    BY <2>1, <2>6 DEF GDeleteThread, AloneWith
  <2>7. CASE GFinally(r)
    <3>1. ~ (gloc[r].new /\ ~gloc[r].produced)
      BY <1>1, <2>1, <2>7 DEF GFinally, GGoto
    <3>2. UNCHANGED project /\ gpc[r] = "finally"  BY <2>7, <3>1 DEF GFinally
    <3>3. project' = gloc[r].project \/ (gloc[r].produced /\ project' = Saved(gloc[r]))
      BY <2>1, <3>2 DEF AloneWith
    <3> QED  BY <3>1, <3>3 DEF Saved, OrElse
  <2> QED  BY <2>5, <2>6, <2>7
<1>2. AgIInv /\ [AgNext]_agVars =>
        [\A r \in apart :
           /\ gpc[r] # "done" /\ gpc'[r] = "done"
           => LET l == gloc[r] IN
              IF l.new /\ ~l.produced THEN project' = NoArt /\ said' = FALSE
              ELSE project' = l.project \/
                   /\ l.produced
                   /\ IF l.schema # NoArt THEN project'.schema = l.schema
                                           ELSE project'.schema = l.project.schema
                   /\ IF l.sql # NoArt THEN project'.sql = l.sql
                                        ELSE project'.sql = l.project.sql]_agVars
  BY <1>1
<1> QED  BY <1>2, AgInvariant, PTL DEF AgSpec, TurnIsAllOrNothing

(* persist_schema_project: SQL is never stored without a schema, also when *)
(* turns that met overwrite or clean up each other's project.              *)
THEOREM SqlComesWithSchema == AgSpec => []SqlHasSchema(project)
<1>1. AgIInv => SqlHasSchema(project)  BY DEF AgIInv
<1> QED  BY <1>1, AgInvariant, PTL

-----------------------------------------------------------------------------
(* SchemaChecks *)

LEMMA CheckStart == ASSUME CheckInit PROVE CheckIInv
<1>1. /\ schemaNow \in {0, 1} /\ sqlNow \in {0, 2} /\ (schemaNow = 0 => sqlNow = 0)
      /\ flawed = {} /\ reported = {} /\ node = "route"
  BY DEF CheckInit
<1>2. made \in Nat /\ schemaNow <= made /\ sqlNow <= made /\ made <= 2
  <2>1. 0 \div 2 = 0 /\ 2 \div 2 = 1  OBVIOUS
  <2>2. made = schemaNow + sqlNow \div 2  BY DEF CheckInit
  <2> QED  BY <1>1, <2>1, <2>2
<1>3. CheckTypeOK  BY <1>1, <1>2, CheckAssumption DEF CheckTypeOK
<1> QED  BY <1>1, <1>3 DEF CheckIInv, NoIssueHidden

(* Arithmetic of the artifact budget: an attempt makes one or two.         *)
LEMMA BudgetArithmetic ==
    /\ \A m, n \in Nat : m < n => 1..m \subseteq 1..n
    /\ \A m, n, k \in Nat : (n = m + 1 \/ n = m + 2) /\ m + 4 <= k => n + 2 <= k /\ n \in 0..k
<1> QED  OBVIOUS

LEMMA CheckNextStep == ASSUME CheckIInv, [CheckNext]_checkVars PROVE CheckIInv'
<1>1. /\ made \in Nat /\ MaxArtifacts \in Nat /\ made <= MaxArtifacts
      /\ schemaNow \in 0..made /\ sqlNow \in 0..made
      /\ flawed \subseteq 1..made /\ reported \subseteq flawed \cup {0}
      /\ node \in {"route", "gen_schema", "gen_sql", "respond"} /\ NoIssueHidden
      /\ node = "gen_schema" => made + 4 <= MaxArtifacts
      /\ node = "gen_sql" => made + 2 <= MaxArtifacts
  <2>1. made \in 0..MaxArtifacts /\ schemaNow \in 0..made /\ sqlNow \in 0..made
    BY DEF CheckIInv, CheckTypeOK
  <2> QED  BY <2>1, CheckAssumption DEF CheckIInv, CheckTypeOK
(* What an attempt makes is new, and flawed or not.                        *)
<1>2. ASSUME NEW ok \in Outcomes, Keep(ok)
      PROVE  /\ made' \in {made + 1, made + 2} /\ made' \in Nat /\ made < made'
             /\ flawed' \subseteq flawed \cup {made'} /\ flawed \subseteq flawed'
             /\ flawed' \subseteq 1..made'
  <2>1. made' = made + 1 \/ made' = made + 2  BY <1>2 DEF Keep, Attempts
  <2>2. flawed' = flawed \/ flawed' = flawed \cup {made'}  BY <1>2 DEF Keep
  <2>3. made' \in Nat /\ made < made' /\ 1 <= made'  BY <1>1, <2>1
  <2>4. flawed \subseteq 1..made'
    <3>1. 1..made \subseteq 1..made'  BY <1>1, <2>3, BudgetArithmetic
    <3> QED  BY <1>1, <3>1
  <2>5. flawed' \subseteq 1..made'
    <3>1. made' \in 1..made'  BY <2>3
    <3> QED  BY <2>2, <2>4, <3>1
  <2> QED
    <3>1. made' \in {made + 1, made + 2}  BY <2>1
    <3>2. flawed' \subseteq flawed \cup {made'} /\ flawed \subseteq flawed'  BY <2>2
    <3> QED  BY <2>3, <2>5, <3>1, <3>2
<1>3. CASE UNCHANGED checkVars
  BY <1>3 DEF checkVars, CheckIInv, CheckTypeOK, NoIssueHidden
<1>4. CASE RouteTurn
  <2>1. node' = "respond" \/ (node' \in {"gen_schema", "gen_sql"} /\ made + 4 <= MaxArtifacts)
    BY <1>4 DEF RouteTurn
  <2> QED  BY <1>1, <1>4, <2>1, CheckAssumption DEF RouteTurn, CheckIInv, CheckTypeOK, NoIssueHidden
<1>5. CASE GenerateSchema
  <2>1. PICK ok \in Outcomes : Keep(ok)  BY <1>5 DEF GenerateSchema
  <2>2. /\ node = "gen_schema" /\ schemaNow' = made' /\ reported' = {made'} \cap flawed'
        /\ node' \in {"gen_sql", "route"} /\ sqlNow' = sqlNow
    BY <1>5 DEF GenerateSchema
  <2>3. made' \in {made + 1, made + 2} /\ made' \in Nat /\ made < made' /\ flawed' \subseteq 1..made'
    BY <1>2, <2>1
  <2>4. made' + 2 <= MaxArtifacts /\ made' \in 0..MaxArtifacts
    <3>1. made \in Nat /\ MaxArtifacts \in Nat /\ made + 4 <= MaxArtifacts  BY <1>1, <2>2
    <3>2. (made' = made + 1 \/ made' = made + 2) /\ made' \in Nat  BY <2>3
    <3> QED  BY <3>1, <3>2, BudgetArithmetic
  <2>5. sqlNow' \in 0..made' /\ schemaNow' \in 0..made' /\ ~ (sqlNow' > schemaNow')
    BY <1>1, <2>2, <2>3
  <2>6. CheckTypeOK'  BY <2>2, <2>3, <2>4, <2>5 DEF CheckTypeOK
  <2>7. NoIssueHidden'  BY <2>2, <2>5 DEF NoIssueHidden
  <2> QED  BY <2>2, <2>4, <2>6, <2>7 DEF CheckIInv
<1>6. CASE GenerateSql
  <2>1. node = "gen_sql" /\ node' \in {"respond", "route"} /\ schemaNow' = schemaNow
    BY <1>6 DEF GenerateSql
  <2>2. CASE schemaNow = 0
    <3>1. reported' = reported \cup {0} /\ UNCHANGED <<sqlNow, made, flawed>>
      BY <1>6, <2>2 DEF GenerateSql
    <3> QED  BY <1>1, <2>1, <3>1 DEF CheckIInv, CheckTypeOK, NoIssueHidden
  <2>3. CASE schemaNow # 0
    <3>1. PICK ok \in Outcomes : Keep(ok)  BY <1>6, <2>3 DEF GenerateSql
    <3>2. sqlNow' = made' /\ reported' = reported \cup ({made'} \cap flawed')
      BY <1>6, <2>3 DEF GenerateSql
    <3>3. /\ made' \in {made + 1, made + 2} /\ made' \in Nat /\ made < made'
          /\ flawed' \subseteq flawed \cup {made'} /\ flawed \subseteq flawed'
          /\ flawed' \subseteq 1..made'
      BY <1>2, <3>1
    <3>4. made' <= MaxArtifacts /\ schemaNow' \in 0..made' /\ sqlNow' \in 0..made' /\ schemaNow' # made'
      BY <1>1, <2>1, <3>2, <3>3
    <3>5. CheckTypeOK'
      <4>1. made' \in 0..MaxArtifacts  BY <3>3, <3>4, CheckAssumption
      <4> QED  BY <1>1, <2>1, <3>2, <3>3, <3>4, <4>1 DEF CheckTypeOK
    <3>6. NoIssueHidden'  BY <1>1, <2>1, <3>2, <3>3, <3>4 DEF NoIssueHidden
    <3> QED  BY <2>1, <3>5, <3>6 DEF CheckIInv
  <2> QED  BY <2>2, <2>3
<1>7. CASE RespondNode \/ NodeFails
  BY <1>7 DEF RespondNode, NodeFails, CheckIInv, CheckTypeOK, NoIssueHidden
<1> QED  BY <1>3, <1>4, <1>5, <1>6, <1>7 DEF CheckNext

LEMMA CheckInvariant == CheckSpec => []CheckIInv
<1> QED  BY CheckStart, CheckNextStep, PTL DEF CheckSpec

(* validation_issues: generate_schema_node starts the list anew and        *)
(* generate_sql_node adds to it, so a flaw of the schema or of the SQL     *)
(* made for it is reported as long as they are shown, over any sequence of *)
(* turns, retries, failures and cancels.                                   *)
THEOREM FlawsAreReported == CheckSpec => []NoIssueHidden
<1>1. CheckIInv => NoIssueHidden  BY DEF CheckIInv
<1> QED  BY <1>1, CheckInvariant, PTL

-----------------------------------------------------------------------------
(* Accounts *)

LEMMA AccStart == AccInit => AccIInv
<1> SUFFICES ASSUME AccInit PROVE AccIInv
  OBVIOUS
<1> USE AccAssumption DEF AccInit, Hash
<1>1. user \in UserRow \cup {NoUser}
  BY DEF UserRow
<1>2. issued \subseteq {First} /\ mailed \subseteq {First}
  OBVIOUS
<1>3. AccTypeOK
  BY <1>1, <1>2 DEF AccTypeOK, NoALocal
<1>4. Nobody /\ InForce
  BY DEF Nobody, InForce, UserRow
<1> QED
  BY <1>2, <1>3, <1>4 DEF AccIInv, Unissued, Pending, Covered

\* One step per action of AccNext.
LEMMA AccNextStep == AccIInv /\ [AccNext]_accVars => AccIInv'
<1> SUFFICES ASSUME AccIInv, [AccNext]_accVars PROVE AccIInv'
  OBVIOUS
<1> USE AccAssumption DEF AGoto, Hold
<1> USE DEF AccIInv, AccTypeOK, Unissued, Pending, Nobody, InForce, Covered
<1>1. ASSUME NEW q \in AccRequest, SignupCheck(q) PROVE AccIInv'
  BY <1>1 DEF SignupCheck, SignedUp
<1>2. ASSUME NEW q \in AccRequest, SignupInsert(q) PROVE AccIInv'
  <2>1. CASE SignedUp
    BY <1>2, <2>1 DEF SignupInsert, SignedUp
  <2>2. CASE ~SignedUp
    <3>1. /\ user' = [hash |-> q, verified |-> FALSE, name |-> "given"]
          /\ mailed' \in {mailed, mailed \cup {q}} /\ fresh' = {q}
          /\ apc' = [apc EXCEPT ![q] = "done"] /\ apc[q] = "insert"
          /\ UNCHANGED <<issued, sessions, under, aloc, flying>>
      BY <1>2, <2>2 DEF SignupInsert
    <3>2. user' \in UserRow /\ user' # NoUser /\ user'.hash = q
      <4>1. user' \in UserRow
        BY <3>1 DEF UserRow, Hash
      <4> QED
        BY <3>1, <4>1
    <3>3. issued = {} /\ sessions = {}
      BY <2>2 DEF SignedUp
    <3>4. AccTypeOK'
      BY <3>1, <3>2, <3>3 DEF Hash
    <3>5. Pending'
      <4>1. \A p \in AccRequest : apc'[p] \notin {"save", "confirm", "token", "rotate"}
        BY <3>1, <2>2 DEF SignedUp
      <4> QED
        BY <4>1
    <3> QED
      BY <3>1, <3>2, <3>3, <3>4, <3>5
  <2> QED
    BY <2>1, <2>2
<1>3. ASSUME NEW q \in AccRequest, Resend(q) \/ PasswordReset(q) PROVE AccIInv'
  <2>1. apc[q] = "idle" /\ SignedUp /\ SendLink(q)
    BY <1>3 DEF Resend, PasswordReset
  <2> QED
    BY <2>1 DEF SendLink, Link, SignedUp, UserRow, Hash
<1>4. ASSUME NEW q \in AccRequest, PasswordResetValidate(q) PROVE AccIInv'
  BY <1>4 DEF PasswordResetValidate, SignedUp
<1>5. ASSUME NEW q \in AccRequest, VerifyGet(q) PROVE AccIInv'
  <2>1. user \in UserRow /\ [user EXCEPT !.verified = TRUE] \in UserRow
    BY <1>5 DEF VerifyGet, SignedUp, UserRow
  <2>2. \/ apc' = [apc EXCEPT ![q] = "refused"] /\ UNCHANGED aloc
        \/ /\ aloc' = [aloc EXCEPT ![q].copy = [user EXCEPT !.verified = TRUE]]
           /\ \/ apc' = [apc EXCEPT ![q] = "done"]
              \/ apc' = [apc EXCEPT ![q] = "save"]
    BY <1>5 DEF VerifyGet, OpenLink
  <2>3. user # NoUser /\ UNCHANGED <<user, mailed, issued, sessions, under, fresh, flying>>
    BY <1>5 DEF VerifyGet, OpenLink, SignedUp
  <2>4. CASE apc' = [apc EXCEPT ![q] = "refused"] /\ UNCHANGED aloc
    <3>1. Pending' /\ Unissued'
      BY <2>3, <2>4
    <3>2. Nobody' /\ InForce' /\ \A s \in sessions' : Covered(under[s])'
      BY <2>3, <2>4
    <3>3. AccTypeOK'
      BY <2>3, <2>4
    <3> QED
      BY <3>1, <3>2, <3>3
  <2>5. CASE /\ aloc' = [aloc EXCEPT ![q].copy = [user EXCEPT !.verified = TRUE]]
             /\ \/ apc' = [apc EXCEPT ![q] = "done"]
                \/ apc' = [apc EXCEPT ![q] = "save"]
    <3>1. /\ apc'[q] \in {"done", "save"} /\ aloc'[q].copy \in UserRow
          /\ \A p \in AccRequest \ {q} : apc'[p] = apc[p] /\ aloc'[p] = aloc[p]
      BY <2>1, <2>5
    <3>2. Pending'
      BY <2>3, <3>1
    <3>3. Unissued' /\ Nobody' /\ InForce' /\ \A s \in sessions' : Covered(under[s])'
      BY <2>3, <3>1
    <3>4. aloc' \in [AccRequest -> [copy : UserRow \cup {NoUser}, session : Hash]]
      <4> DEFINE Locals == [copy : UserRow \cup {NoUser}, session : Hash]
      <4>1. aloc'[q] = [aloc[q] EXCEPT !.copy = [user EXCEPT !.verified = TRUE]] /\ aloc[q] \in Locals
        BY <2>5
      <4>2. aloc'[q] \in Locals
        BY <4>1, <2>1
      <4> QED
        BY <4>2, <2>5
    <3>5. AccTypeOK'
      BY <2>3, <2>5, <3>4
    <3> QED
      BY <3>2, <3>3, <3>5
  <2> QED
    BY <2>2, <2>4, <2>5
<1>6. ASSUME NEW q \in AccRequest, ConfirmGet(q) PROVE AccIInv'
  BY <1>6 DEF ConfirmGet, OpenLink, SignedUp, UserRow, Hash
<1>7. ASSUME NEW q \in AccRequest, ConfirmSave(q) PROVE AccIInv'
  BY <1>7 DEF ConfirmSave, Issuing, UserRow, Hash
<1>8. ASSUME NEW q \in AccRequest, ProfileRead(q) PROVE AccIInv'
  BY <1>8 DEF ProfileRead, Authenticated, UserRow, Hash
<1>9. ASSUME NEW q \in AccRequest, SaveUser(q) PROVE AccIInv'
  BY <1>9 DEF SaveUser, UserRow, Hash
<1>10. ASSUME NEW q \in AccRequest, LoginCheck(q) PROVE AccIInv'
  <2>1. CASE apc' = [apc EXCEPT ![q] = "refused"] /\ UNCHANGED aloc
    BY <1>10, <2>1 DEF LoginCheck
  <2>2. CASE /\ user # NoUser /\ aloc' = [aloc EXCEPT ![q].copy = user]
             /\ apc' = [apc EXCEPT ![q] = "token"]
    <3>1. user \in UserRow /\ user.hash \in fresh
      BY <2>2
    <3>2. AccTypeOK' /\ Nobody' /\ InForce'
      BY <1>10, <2>2, <3>1 DEF LoginCheck
    <3>3. aloc'[q].copy = user /\ \A p \in AccRequest \ {q} : aloc'[p] = aloc[p] /\ apc'[p] = apc[p]
      BY <2>2
    <3>4. Pending'
      BY <1>10, <2>2, <3>1, <3>3 DEF LoginCheck
    <3>5. Unissued' /\ \A s \in sessions' : Covered(under[s])'
      BY <1>10, <2>2 DEF LoginCheck
    <3> QED
      BY <3>2, <3>4, <3>5
  <2> QED
    BY <1>10, <2>1, <2>2 DEF LoginCheck, SignedUp
<1>11. ASSUME NEW q \in AccRequest, LoginToken(q) PROVE AccIInv'
  BY <1>11 DEF LoginToken, UserRow, Hash
<1>12. ASSUME NEW q \in AccRequest, RefreshCheck(q) PROVE AccIInv'
  BY <1>12 DEF RefreshCheck, Hash
<1>13. ASSUME NEW q \in AccRequest, RefreshRotate(q) PROVE AccIInv'
  BY <1>13 DEF RefreshRotate, Hash
<1>14. ASSUME NEW q \in AccRequest, Logout(q) PROVE AccIInv'
  BY <1>14 DEF Logout, Authenticated
<1>15. CASE UNCHANGED accVars
  BY <1>15 DEF accVars
<1> QED
  BY <1>1, <1>2, <1>3, <1>4, <1>5, <1>6, <1>7, <1>8, <1>9, <1>10, <1>11, <1>12, <1>13, <1>14, <1>15
  DEF AccNext, AccOver

\* Whatever the order of logins, renewals, resets and edits, the invariant holds.
THEOREM AccountsInvariant == AccSpec => []AccIInv
<1>1. AccIInv /\ [AccNext]_accVars => AccIInv'
  BY AccNextStep
<1> QED
  BY AccStart, <1>1, PTL DEF AccSpec

\* A reset ends every session, except those that a login or renewal already
\* past its check still issues (password_reset_confirm).
THEOREM ResetIsFinal == AccSpec => []ResetEndsSessions
<1>1. AccIInv => ResetEndsSessions
  BY DEF AccIInv, Covered, ResetEndsSessions
<1> QED
  BY AccountsInvariant, <1>1, PTL
=============================================================================
