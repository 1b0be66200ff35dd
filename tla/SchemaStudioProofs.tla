-------------------------- MODULE SchemaStudioProofs --------------------------
(***************************************************************************)
(* What a turn of the schema agent saves, for any number of turns and page *)
(* requests on a project and under every fault of SchemaStudio.  All of it *)
(* follows from IInv: a turn holds the slug alone while it is served, so   *)
(* that the checkpoint can lose its artifacts but not get others.          *)
(***************************************************************************)
EXTENDS SchemaStudio, TLAPS

(* No row and no artifacts are values of their types. *)
LEMMA NothingTyped == NoRow \in Row /\ NoDesign \in Design
BY DEF NoRow, NoDesign, Row, Design

(* SQL and seed data that gen_sql makes are of the schema in the copy.     *)
LEMMA GenSqlNotes ==
    ASSUME TypeOK, NEW r \in Run, GenSql(r)
    PROVE  /\ pc[r] = "gen_sql" /\ pc' = [pc EXCEPT ![r] = "sql_made"]
           /\ UNCHANGED <<registry, row, deleting, inst, isNew, seeded, intent, shown, final,
                          outcome, page>>
           /\ cp' \in Design /\ mem' \in [Run -> Design]
           /\ cp'.schema = cp.schema /\ mem'[r].schema = mem[r].schema
           /\ \A s \in Run \ {r} : mem'[s] = mem[s]
           /\ \/ cp' = cp /\ mem' = mem /\ mem[r].schema = None
              \/ /\ cp'.sql = mem'[r].sql /\ cp'.seed = mem'[r].seed
                 /\ \A text \in {mem'[r].sql, mem'[r].seed} :
                      text # None => /\ text.by = r /\ text.from = mem[r].schema
                                     /\ mem[r].schema # None
<1> USE ConstantsAreSane DEF TypeOK
<1>1. /\ pc[r] = "gen_sql" /\ pc' = [pc EXCEPT ![r] = "sql_made"]
      /\ UNCHANGED <<registry, row, deleting, inst, isNew, seeded, intent, shown, final,
                     outcome, page>>
  BY DEF GenSql, Goto
<1>2. CASE mem[r].schema = None
  BY <1>2, <1>1 DEF GenSql
<1>3. CASE mem[r].schema # None
  <2>1. PICK sql \in {MadeBy(r, mem[r].schema), None}, seed \in {MadeBy(r, mem[r].schema), None} :
           /\ cp' = [cp EXCEPT !.sql = sql, !.seed = seed]
           /\ mem' = [mem EXCEPT ![r].sql = sql, ![r].seed = seed]
    BY <1>3 DEF GenSql
  <2>2. /\ MadeBy(r, mem[r].schema) \in Text /\ MadeBy(r, mem[r].schema).by = r
        /\ MadeBy(r, mem[r].schema).from = mem[r].schema
    BY <1>3 DEF MadeBy, Text, Author, Design
  <2>3. /\ sql \in Text \cup {None} /\ seed \in Text \cup {None}
        /\ \A text \in {sql, seed} : text # None => text.by = r /\ text.from = mem[r].schema
    BY <2>2
  <2>4. cp' \in Design /\ cp'.schema = cp.schema /\ cp'.sql = sql /\ cp'.seed = seed
    BY <2>1, <2>3 DEF Design
  <2>5. /\ mem' = [mem EXCEPT ![r] = [mem[r] EXCEPT !.sql = sql, !.seed = seed]]
        /\ [mem[r] EXCEPT !.sql = sql, !.seed = seed] \in Design
    BY <2>1, <2>3 DEF Design
  <2>6. /\ mem' \in [Run -> Design] /\ mem'[r].schema = mem[r].schema
        /\ mem'[r].sql = sql /\ mem'[r].seed = seed
        /\ \A s \in Run \ {r} : mem'[s] = mem[s]
    BY <2>5 DEF Design
  <2> QED
    BY <1>3, <1>1, <2>3, <2>4, <2>6
<1> QED
  BY <1>2, <1>3, <1>1

(* get_or_create leaves the row or makes an empty one.                     *)
LEMMA CreateNotes ==
    ASSUME TypeOK, NEW r \in Run, Create(r)
    PROVE  /\ pc[r] = "create" /\ pc' = [pc EXCEPT ![r] = "started"]
           /\ row' \in Row /\ row' \in {row, NewRow(r)}
           /\ inst' = [inst EXCEPT ![r] = row'] /\ inst' \in [Run -> Row]
           /\ isNew' \in [Run -> BOOLEAN] /\ seeded' \in [Run -> BOOLEAN]
           /\ UNCHANGED <<registry, cp, deleting, artifacts, outcome, page>>
<1> USE ConstantsAreSane DEF TypeOK
<1>1. NewRow(r) \in Row
  BY NothingTyped DEF NewRow, Row, Author
<1>2. row' \in Row /\ row' \in {row, NewRow(r)}
  BY <1>1 DEF Create
<1>3. inst' = [inst EXCEPT ![r] = row'] /\ inst' \in [Run -> Row]
  BY <1>2 DEF Create
<1>4. isNew' \in [Run -> BOOLEAN]
  BY DEF Create
<1>5. seeded' \in [Run -> BOOLEAN]
  <2>1. \E b \in BOOLEAN : seeded' = [seeded EXCEPT ![r] = b]
    BY DEF Create
  <2> QED
    BY <2>1
<1> QED
  BY <1>2, <1>3, <1>4, <1>5 DEF Create, Goto

(* A request of the page has no hand in runs, registry and checkpoint.     *)
LEMMA PageNotes ==
    ASSUME NEW q \in Request, Read(q) \/ Edit(q) \/ Rename(q) \/ SaveVariant(q)
    PROVE  UNCHANGED <<registry, cp, deleting, pc, locals>>
<1>1. CASE Read(q)
  BY <1>1 DEF Read
<1>2. CASE Edit(q)
  BY <1>2 DEF Edit, Save
<1>3. CASE Rename(q)
  BY <1>3 DEF Rename, Save
<1>4. CASE SaveVariant(q)
  BY <1>4 DEF SaveVariant, Save
<1> QED
  BY <1>1, <1>2, <1>3, <1>4

(* An edit brings at least one text of the user.                           *)
LEMMA EditNotes ==
    ASSUME TypeOK, NEW q \in Request, Edit(q)
    PROVE  /\ row' \in Row
           /\ \/ row' = row
              \/ /\ row'.sql \in {copy[q].sql, MadeBy(q, None)}
                 /\ row'.seed \in {copy[q].seed, MadeBy(q, None)}
                 /\ ByUser(row'.sql) \/ ByUser(row'.seed)
           /\ request' = [request EXCEPT ![q] = "closed"]
           /\ copy' = [copy EXCEPT ![q] = NoRow]
           /\ UNCHANGED <<registry, cp, deleting, pc, locals>>
<1> USE ConstantsAreSane DEF TypeOK
<1>1. PICK fields \in (SUBSET {"sql", "seed"}) \ {{}} :
        LET text(f) == IF f \in fields THEN MadeBy(q, None) ELSE copy[q][f]
        IN  Save(q, [copy[q] EXCEPT !.sql = text("sql"), !.seed = text("seed"),
                                    !.edited = TRUE, !.variant = None])
  BY DEF Edit
<1> DEFINE sql == IF "sql" \in fields THEN MadeBy(q, None) ELSE copy[q].sql
           seed == IF "seed" \in fields THEN MadeBy(q, None) ELSE copy[q].seed
           new == [copy[q] EXCEPT !.sql = sql, !.seed = seed, !.edited = TRUE, !.variant = None]
<1>2. MadeBy(q, None) \in Text /\ ByUser(MadeBy(q, None))
  <2>1. MadeBy(q, None) \in Text /\ MadeBy(q, None).by = q
    BY DEF MadeBy, Text
  <2> QED
    BY <2>1 DEF ByUser
<1>3. copy[q] \in Row
  OBVIOUS
<1>4. /\ sql \in Text \cup {None} /\ sql \in {copy[q].sql, MadeBy(q, None)}
      /\ seed \in Text \cup {None} /\ seed \in {copy[q].seed, MadeBy(q, None)}
      /\ ByUser(sql) \/ ByUser(seed)
  BY <1>2, <1>3 DEF Row
<1>5. Save(q, new)
  BY <1>1
<1> HIDE DEF sql, seed
<1>6. new \in Row /\ new.sql = sql /\ new.seed = seed
  BY <1>3, <1>4 DEF Row
<1> HIDE DEF new
<1>7. /\ row' \in {row, new} /\ request' = [request EXCEPT ![q] = "closed"]
      /\ copy' = [copy EXCEPT ![q] = NoRow]
      /\ UNCHANGED <<registry, cp, deleting, pc, locals>>
  BY <1>5 DEF Save
<1> QED
  BY <1>4, <1>6, <1>7

(* A dialect switch saves no other column than the variants.               *)
LEMMA SaveVariantNotes ==
    ASSUME TypeOK, NEW q \in Request, SaveVariant(q)
    PROVE  \E new \in Row : /\ Save(q, new) /\ new.sql = row.sql /\ new.seed = row.seed
                           /\ new.edited = row.edited
<1> USE ConstantsAreSane DEF TypeOK
<1> DEFINE variant == [sql |-> copy[q].sql, seed |-> copy[q].seed]
           new == [row EXCEPT !.variant = variant]
<1>1. variant \in Variant
  BY DEF Variant, Row
<1> HIDE DEF variant
<1>2. new \in Row /\ new.sql = row.sql /\ new.seed = row.seed /\ new.edited = row.edited
  BY <1>1 DEF Row
<1>3. Save(q, IF row.id = copy[q].id THEN new ELSE row)
  BY DEF SaveVariant, variant
<1> HIDE DEF new
<1> QED
  BY <1>2, <1>3

(* One step per action of Next, here and below; together where they change *)
(* nothing the conjunct speaks of.                                         *)
LEMMA TypeStep ==
    ASSUME TypeOK, Next
    PROVE  TypeOK'
<1> USE ConstantsAreSane DEF TypeOK, Registry!TypeOK, PC, Running, Boundary, Goto, registry,
        artifacts, shown, outcome, locals, page
<1>1. ASSUME NEW r \in Run, Create(r)
      PROVE  TypeOK'
  BY <1>1, CreateNotes
<1>2. ASSUME NEW r \in Run, Input(r)
      PROVE  TypeOK'
  BY <1>2 DEF Input, Row, Design, Author, Text, Variant
<1>3. ASSUME NEW r \in Run, GenSchema(r)
      PROVE  TypeOK'
  <2>1. r \in Author
    BY DEF Author
  <2>2. cp' \in Design
    BY <1>3, <2>1 DEF GenSchema, Design
  <2>3. mem' \in [Run -> Design]
    <3>1. mem' = [mem EXCEPT ![r] = [mem[r] EXCEPT !.schema = r]]
      BY <1>3 DEF GenSchema
    <3>2. [mem[r] EXCEPT !.schema = r] \in Design
      BY <2>1 DEF Design
    <3> QED
      BY <3>1, <3>2
  <2> QED
    BY <1>3, <2>2, <2>3 DEF GenSchema
<1>4. ASSUME NEW r \in Run, GenSql(r)
      PROVE  TypeOK'
  BY <1>4, GenSqlNotes
<1>5. ASSUME NEW r \in Run, Pass(r)
      PROVE  TypeOK'
  BY <1>5 DEF Pass, NextNode, Row, Design, Author, Text, Variant
<1>6. ASSUME NEW r \in Run, Final(r)
      PROVE  TypeOK'
  BY <1>6 DEF Final, Or, Row, Design, Author, Text, Variant
<1>7. ASSUME NEW r \in Run, PersistWrite(r)
      PROVE  TypeOK'
  BY <1>7 DEF PersistWrite, Saved, Or, Row, Design, Author, Text, Variant
<1>8. ASSUME NEW r \in Run, Leave(r)
      PROVE  TypeOK'
  BY <1>8 DEF Leave, Registry!Release, Forget, NoRow, NoDesign, Row, Design, Author, Text, Variant,
     Intents
<1>9. ASSUME NEW r \in Run, CleanupRow(r) \/ CleanupLog(r)
      PROVE  TypeOK'
  BY <1>9, NothingTyped DEF CleanupRow, CleanupLog
<1>10. ASSUME NEW r \in Run, Route(r)
      PROVE  TypeOK'
  BY <1>10 DEF Route, Intents
<1>11. ASSUME NEW r \in Run, Respond(r)
      PROVE  TypeOK'
  BY <1>11 DEF Respond
<1>12. ASSUME NEW r \in Run, Conflict(r) \/ PersistRead(r) \/ Interrupt(r)
      PROVE  TypeOK'
  BY <1>12 DEF Conflict, PersistRead, Interrupt
<1>13. ASSUME NEW r \in Run, Stop(r)
      PROVE  TypeOK'
  BY <1>13 DEF Stop
<1>14. ASSUME NEW r \in Run, Register(r) \/ Deny(r) \/ Cancel(r)
      PROVE  TypeOK'
  BY <1>14 DEF Register, Registry!Acquire, Registry!Held, Deny, Registry!Release, Cancel,
     Registry!Signal
<1>15. ASSUME NEW q \in Request, Read(q)
      PROVE  TypeOK'
  BY <1>15 DEF Read, NoRow, Row, Design, Author, Text, Variant
<1>16. ASSUME NEW q \in Request, Edit(q)
      PROVE  TypeOK'
  BY <1>16, EditNotes, NothingTyped
<1>17. ASSUME NEW q \in Request, Rename(q)
      PROVE  TypeOK'
  BY <1>17 DEF Rename, Save, NoRow, Row, Design, Author, Text, Variant
<1>18. ASSUME NEW q \in Request, SaveVariant(q)
      PROVE  TypeOK'
  BY <1>18, SaveVariantNotes, NothingTyped DEF Save
<1>19. CASE DeleteRow \/ DeleteLog
  BY <1>19, NothingTyped DEF DeleteRow, DeleteLog
<1>20. CASE Quiet
  BY <1>20 DEF Quiet, vars
<1> QED
  BY <1>1, <1>2, <1>3, <1>4, <1>5, <1>6, <1>7, <1>8, <1>9, <1>10, <1>11, <1>12, <1>13,
     <1>14, <1>15, <1>16, <1>17, <1>18, <1>19, <1>20 DEF Next, Step

(* register() admits a run when nobody holds the slug; only the run itself *)
(* lets it go, in finally or in post().                                    *)
LEMMA HolderStep ==
    ASSUME TypeOK, HoldsSlug, Next
    PROVE  HoldsSlug'
<1> USE ConstantsAreSane DEF TypeOK, Registry!TypeOK, HoldsSlug, Registry!Exclusive,
        Serving, PC, Running, Boundary, Goto, registry, artifacts, shown, outcome, locals, page
<1>1. ASSUME NEW r \in Run, Register(r)
      PROVE  HoldsSlug'
  BY <1>1 DEF Register, Registry!Acquire, Registry!Held
<1>2. ASSUME NEW r \in Run, Deny(r) \/ Leave(r)
      PROVE  HoldsSlug'
  BY <1>2 DEF Deny, Registry!Release, Leave, Forget, NoRow, NoDesign
<1>3. ASSUME NEW r \in Run, Conflict(r) \/ Input(r) \/ Route(r) \/ GenSchema(r) \/
            Respond(r) \/ Stop(r) \/ PersistRead(r) \/ PersistWrite(r) \/ Interrupt(r)
            \/ CleanupRow(r) \/ CleanupLog(r) \/ Cancel(r)
      PROVE  HoldsSlug'
  BY <1>3 DEF Conflict, Input, Route, GenSchema, Respond, Stop, PersistRead, PersistWrite,
     Interrupt, CleanupRow, CleanupLog, Cancel, Registry!Signal
<1>4. ASSUME NEW r \in Run, Create(r) \/ GenSql(r)
      PROVE  HoldsSlug'
  BY <1>4, CreateNotes, GenSqlNotes
<1>5. ASSUME NEW r \in Run, Pass(r)
      PROVE  HoldsSlug'
  BY <1>5 DEF Pass, NextNode
<1>6. ASSUME NEW r \in Run, Final(r)
      PROVE  HoldsSlug'
  BY <1>6 DEF Final
<1>7. ASSUME NEW q \in Request, Read(q) \/ Edit(q) \/ Rename(q) \/
            SaveVariant(q)
      PROVE  HoldsSlug'
  BY <1>7, PageNotes
<1>8. CASE DeleteRow \/ DeleteLog \/ Quiet
  BY <1>8 DEF DeleteRow, NoRow, DeleteLog, NoDesign, Quiet, vars
<1> QED
  BY <1>1, <1>2, <1>3, <1>4, <1>5, <1>6, <1>7, <1>8 DEF Next, Step

(* Nodes of the one run that holds the slug write copy and checkpoint      *)
(* together; a delete or a late cleanup only empties the checkpoint.       *)
LEMMA CopyStep ==
    ASSUME TypeOK, HoldsSlug, CopyFits, Next
    PROVE  CopyFits'
<1> USE ConstantsAreSane DEF TypeOK, Registry!TypeOK, HoldsSlug, Registry!Exclusive,
        Serving, HoldsCopy, CopyFits, PC, Running, Boundary, Goto, registry, artifacts, shown,
        outcome, locals, page
<1>1. ASSUME NEW r \in Run, Input(r)
      PROVE  CopyFits'
  BY <1>1 DEF Input
<1>2. ASSUME NEW r \in Run, GenSchema(r)
      PROVE  CopyFits'
  BY <1>2 DEF GenSchema
<1>3. ASSUME NEW r \in Run, GenSql(r)
      PROVE  CopyFits'
  <2>1. /\ pc[r] = "gen_sql" /\ pc' = [pc EXCEPT ![r] = "sql_made"]
        /\ cp'.schema = cp.schema /\ mem'[r].schema = mem[r].schema
        /\ \/ cp' = cp /\ mem' = mem
           \/ cp'.sql = mem'[r].sql /\ cp'.seed = mem'[r].seed
    BY <1>3, GenSqlNotes
  <2>2. \A s \in Run \ {r} : pc[s] \notin HoldsCopy
    BY <2>1
  <2> QED
    BY <2>1, <2>2
<1>4. ASSUME NEW r \in Run, Leave(r)
      PROVE  CopyFits'
  BY <1>4 DEF Leave, Registry!Release, Forget, NoRow, NoDesign
<1>5. ASSUME NEW r \in Run, Register(r) \/ Conflict(r) \/ Deny(r) \/ Route(r)
            \/ Respond(r) \/ Stop(r) \/ PersistRead(r) \/ PersistWrite(r) \/ Interrupt(r)
            \/ CleanupRow(r) \/ CleanupLog(r) \/ Cancel(r)
      PROVE  CopyFits'
  BY <1>5 DEF Register, Conflict, Deny, Route, Respond, Stop, PersistRead, PersistWrite,
     Interrupt, CleanupRow, CleanupLog, NoDesign, Cancel
<1>6. ASSUME NEW r \in Run, Create(r)
      PROVE  CopyFits'
  BY <1>6, CreateNotes
<1>7. ASSUME NEW r \in Run, Pass(r)
      PROVE  CopyFits'
  BY <1>7 DEF Pass, NextNode
<1>8. ASSUME NEW r \in Run, Final(r)
      PROVE  CopyFits'
  BY <1>8 DEF Final
<1>9. ASSUME NEW q \in Request, Read(q) \/ Edit(q) \/ Rename(q) \/
            SaveVariant(q)
      PROVE  CopyFits'
  BY <1>9, PageNotes
<1>10. CASE DeleteRow \/ DeleteLog \/ Quiet
  BY <1>10 DEF DeleteRow, NoRow, DeleteLog, NoDesign, Quiet, vars
<1> QED
  BY <1>1, <1>2, <1>3, <1>4, <1>5, <1>6, <1>7, <1>8, <1>9, <1>10 DEF Next, Step

(* The view keeps what the copy holds after gen_schema and gen_sql, and no *)
(* node after these changes the copy again.                                *)
LEMMA ShownStep ==
    ASSUME TypeOK, Unwritten, ShownFits, Next
    PROVE  ShownFits'
<1> USE ConstantsAreSane DEF TypeOK, ShownFits, TextFits, Made, SqlOver, Unwritten,
        NotBy, Text, Author, Design, PC, Running, Boundary, Goto, registry, artifacts, shown,
        outcome, locals, page
<1>1. ASSUME NEW r \in Run, Input(r)
      PROVE  ShownFits'
  BY <1>1 DEF Input
<1>2. ASSUME NEW r \in Run, GenSchema(r)
      PROVE  ShownFits'
  BY <1>2 DEF GenSchema
<1>3. ASSUME NEW r \in Run, GenSql(r)
      PROVE  ShownFits'
  <2>1. /\ pc[r] = "gen_sql" /\ pc' = [pc EXCEPT ![r] = "sql_made"]
        /\ UNCHANGED <<schemaArt, sqlArt, seedArt>>
        /\ mem'[r].schema = mem[r].schema /\ \A s \in Run \ {r} : mem'[s] = mem[s]
    BY <1>3, GenSqlNotes
  <2>2. \/ mem' = mem
        \/ \A text \in {mem'[r].sql, mem'[r].seed} :
              text # None => /\ text.by = r /\ text.from = mem[r].schema
                             /\ mem[r].schema # None
    BY <1>3, GenSqlNotes
  <2>3. sqlArt[r] = None /\ seedArt[r] = None
    BY <2>1
  <2>4. NotBy(r, mem[r])
    BY <2>1
  <2> QED
    BY <2>1, <2>2, <2>3, <2>4
<1>4. ASSUME NEW r \in Run, Pass(r)
      PROVE  ShownFits'
  BY <1>4 DEF Pass, NextNode
<1>5. ASSUME NEW r \in Run, Leave(r)
      PROVE  ShownFits'
  BY <1>5 DEF Leave, Registry!Release, Forget, NoRow, NoDesign
<1>6. ASSUME NEW r \in Run, Register(r) \/ Conflict(r) \/ Deny(r)
      PROVE  ShownFits'
  BY <1>6 DEF Register, Conflict, Deny
<1>7. ASSUME NEW r \in Run, Create(r)
      PROVE  ShownFits'
  <2>1. /\ pc[r] = "create" /\ pc' = [pc EXCEPT ![r] = "started"]
        /\ UNCHANGED <<schemaArt, sqlArt, seedArt, mem>>
    BY <1>7, CreateNotes
  <2> QED
    BY <2>1
<1>8. ASSUME NEW r \in Run, Route(r)
      PROVE  ShownFits'
  BY <1>8 DEF Route
<1>9. ASSUME NEW r \in Run, Respond(r)
      PROVE  ShownFits'
  BY <1>9 DEF Respond
<1>10. ASSUME NEW r \in Run, Stop(r)
      PROVE  ShownFits'
  BY <1>10 DEF Stop
<1>11. ASSUME NEW r \in Run, Final(r) \/ PersistRead(r) \/ PersistWrite(r) \/
            Interrupt(r) \/ CleanupRow(r) \/ CleanupLog(r) \/ Cancel(r)
      PROVE  ShownFits'
  BY <1>11 DEF Final, Or, PersistRead, PersistWrite, Interrupt, CleanupRow, NoRow,
     CleanupLog, NoDesign, Cancel, Registry!Signal
<1>12. ASSUME NEW q \in Request, Read(q) \/ Edit(q) \/ Rename(q) \/
            SaveVariant(q)
      PROVE  ShownFits'
  BY <1>12, PageNotes
<1>13. CASE DeleteRow \/ DeleteLog \/ Quiet
  BY <1>13 DEF DeleteRow, NoRow, DeleteLog, NoDesign, Quiet, vars
<1> QED
  BY <1>1, <1>2, <1>3, <1>4, <1>5, <1>6, <1>7, <1>8, <1>9, <1>10, <1>11, <1>12, <1>13
     DEF Next, Step

(* SQL of a run begins at its gen_sql: what other runs and the page copy   *)
(* around is not by a run that has not come so far.                        *)
LEMMA UnwrittenStep ==
    ASSUME TypeOK, ShownFits, Unwritten, Next
    PROVE  Unwritten'
<1> USE ConstantsAreSane DEF TypeOK, ShownFits, TextFits, Made, SqlOver, Unwritten,
        NotBy, Text, Author, PC, Running, Boundary, Goto, registry, artifacts, shown, outcome,
        locals, page
<1>1. ASSUME NEW r \in Run, Create(r)
      PROVE  Unwritten'
  <2>1. NewRow(r).sql = None /\ NewRow(r).seed = None
    BY DEF NewRow, NoRow
  <2> QED
    BY <1>1, <2>1, CreateNotes
<1>2. ASSUME NEW r \in Run, Input(r)
      PROVE  Unwritten'
  BY <1>2 DEF Input
<1>3. ASSUME NEW r \in Run, GenSchema(r)
      PROVE  Unwritten'
  BY <1>3 DEF GenSchema
<1>4. ASSUME NEW r \in Run, GenSql(r)
      PROVE  Unwritten'
  <2>1. /\ pc[r] = "gen_sql" /\ pc' = [pc EXCEPT ![r] = "sql_made"]
        /\ UNCHANGED <<row, inst, sqlArt, seedArt, final, copy>>
        /\ \A s \in Run \ {r} : mem'[s] = mem[s]
    BY <1>4, GenSqlNotes
  <2>2. \/ cp' = cp /\ mem' = mem
        \/ /\ cp'.sql = mem'[r].sql /\ cp'.seed = mem'[r].seed
           /\ \A text \in {mem'[r].sql, mem'[r].seed} : text # None => text.by = r
    BY <1>4, GenSqlNotes
  <2>3. \A t \in Run \ {r} : NotBy(t, cp) => NotBy(t, cp')
    BY <2>2
  <2>4. \A t \in Run \ {r}, s \in Run : NotBy(t, mem[s]) => NotBy(t, mem'[s])
    BY <2>1, <2>2
  <2> QED
    BY <2>1, <2>3, <2>4
<1>5. ASSUME NEW r \in Run, Pass(r)
      PROVE  Unwritten'
  BY <1>5 DEF Pass, NextNode
<1>6. ASSUME NEW r \in Run, Final(r)
      PROVE  Unwritten'
  BY <1>6 DEF Final, Or
<1>7. ASSUME NEW r \in Run, PersistWrite(r)
      PROVE  Unwritten'
  BY <1>7 DEF PersistWrite, Saved, Or
<1>8. ASSUME NEW r \in Run, Leave(r)
      PROVE  Unwritten'
  BY <1>8 DEF Leave, Registry!Release, Forget, NoRow, NoDesign
<1>9. ASSUME NEW r \in Run, Register(r) \/ Conflict(r) \/ Deny(r) \/ Route(r)
            \/ Respond(r) \/ Stop(r) \/ PersistRead(r) \/ Interrupt(r) \/ CleanupRow(r) \/
            CleanupLog(r) \/ Cancel(r)
      PROVE  Unwritten'
  BY <1>9 DEF Register, Registry!Acquire, Registry!Held, Conflict, Deny,
     Registry!Release, Route, Respond, Stop, PersistRead, Interrupt, CleanupRow, NoRow,
     CleanupLog, NoDesign, Cancel, Registry!Signal
<1>10. ASSUME NEW q \in Request, Read(q)
      PROVE  Unwritten'
  BY <1>10 DEF Read, NoRow
<1>11. ASSUME NEW q \in Request, Edit(q)
      PROVE  Unwritten'
  <2>1. /\ \/ row' = row
           \/ /\ row'.sql \in {copy[q].sql, MadeBy(q, None)}
              /\ row'.seed \in {copy[q].seed, MadeBy(q, None)}
        /\ copy' = [copy EXCEPT ![q] = NoRow] /\ UNCHANGED <<registry, cp, pc, locals>>
    BY <1>11, EditNotes
  <2>2. \A r \in Run : ~ Made(r, MadeBy(q, None))
    BY DEF MadeBy
  <2> QED
    BY <2>1, <2>2 DEF NoRow
<1>12. ASSUME NEW q \in Request, Rename(q) \/ SaveVariant(q)
      PROVE  Unwritten'
  <2>1. PICK new : /\ Save(q, new)
                   /\ \/ new.sql = row.sql /\ new.seed = row.seed
                      \/ new.sql = copy[q].sql /\ new.seed = copy[q].seed
    BY <1>12, SaveVariantNotes DEF Rename
  <2> QED
    BY <2>1 DEF Save, NoRow
<1>13. CASE DeleteRow \/ DeleteLog \/ Quiet
  BY <1>13 DEF DeleteRow, NoRow, DeleteLog, NoDesign, Quiet, vars
<1> QED
  BY <1>1, <1>2, <1>3, <1>4, <1>5, <1>6, <1>7, <1>8, <1>9, <1>10, <1>11, <1>12, <1>13
     DEF Next, Step

(* get_state reads the checkpoint; what it lacks is taken from what was    *)
(* shown, and afterwards it can only lose its schema.                      *)
LEMMA FinalStep ==
    ASSUME TypeOK, HoldsSlug, CopyFits, ShownFits, FinalFits, Next
    PROVE  FinalFits'
<1> USE ConstantsAreSane DEF TypeOK, HoldsSlug, Registry!Exclusive, Serving, HoldsCopy,
        CopyFits, ShownFits, TextFits, Made, SqlOver, FinalFits, PC, Running, Boundary,
        Goto, registry, artifacts, shown, outcome, locals, page
<1>1. ASSUME NEW r \in Run, Input(r)
      PROVE  FinalFits'
  BY <1>1 DEF Input
<1>2. ASSUME NEW r \in Run, GenSchema(r)
      PROVE  FinalFits'
  BY <1>2 DEF GenSchema
<1>3. ASSUME NEW r \in Run, GenSql(r)
      PROVE  FinalFits'
  <2>1. /\ pc[r] = "gen_sql" /\ pc' = [pc EXCEPT ![r] = "sql_made"]
        /\ UNCHANGED <<schemaArt, sqlArt, seedArt, final>>
        /\ cp'.schema = cp.schema /\ \A s \in Run \ {r} : mem'[s] = mem[s]
    BY <1>3, GenSqlNotes
  <2> QED
    BY <2>1
<1>4. ASSUME NEW r \in Run, Pass(r)
      PROVE  FinalFits'
  BY <1>4 DEF Pass, NextNode
<1>5. ASSUME NEW r \in Run, Final(r)
      PROVE  FinalFits'
  BY <1>5 DEF Final, Or
<1>6. ASSUME NEW r \in Run, Leave(r)
      PROVE  FinalFits'
  BY <1>6 DEF Leave, Registry!Release, Forget, NoRow, NoDesign
<1>7. ASSUME NEW r \in Run, Register(r) \/ Conflict(r) \/ Deny(r) \/ Route(r)
            \/ Respond(r) \/ Stop(r) \/ PersistRead(r) \/ PersistWrite(r) \/ Interrupt(r)
            \/ CleanupRow(r) \/ CleanupLog(r) \/ Cancel(r)
      PROVE  FinalFits'
  BY <1>7 DEF Register, Conflict, Deny, Route, Respond, Stop, PersistRead, PersistWrite,
     Interrupt, CleanupRow, CleanupLog, NoDesign, Cancel
<1>8. ASSUME NEW r \in Run, Create(r)
      PROVE  FinalFits'
  BY <1>8, CreateNotes
<1>9. ASSUME NEW q \in Request, Read(q) \/ Edit(q) \/ Rename(q) \/
            SaveVariant(q)
      PROVE  FinalFits'
  BY <1>9, PageNotes
<1>10. CASE DeleteRow \/ DeleteLog \/ Quiet
  BY <1>10 DEF DeleteRow, NoRow, DeleteLog, NoDesign, Quiet, vars
<1> QED
  BY <1>1, <1>2, <1>3, <1>4, <1>5, <1>6, <1>7, <1>8, <1>9, <1>10 DEF Next, Step

(* Rows that are edited carry SQL of a user, in the table and in the hands *)
(* of a page request.                                                      *)
LEMMA ManualStep ==
    ASSUME TypeOK, Manual(row), \A p \in Request : Manual(copy[p]), Next
    PROVE  Manual(row)' /\ \A p \in Request : Manual(copy[p])'
<1> USE ConstantsAreSane DEF TypeOK, Manual, ByUser, Goto, registry, artifacts, shown,
        outcome, locals, page
<1>1. ASSUME NEW r \in Run, Create(r)
      PROVE  Manual(row)' /\ \A p \in Request : Manual(copy[p])'
  BY <1>1 DEF Create, NewRow, NoRow
<1>2. ASSUME NEW r \in Run, PersistWrite(r)
      PROVE  Manual(row)' /\ \A p \in Request : Manual(copy[p])'
  BY <1>2 DEF PersistWrite, Saved, Or
<1>3. ASSUME NEW r \in Run, Register(r) \/ Conflict(r) \/ Deny(r) \/ Input(r) \/
            Route(r) \/ GenSchema(r) \/ GenSql(r) \/ Respond(r) \/ Pass(r)
            \/ Stop(r) \/ Final(r) \/ PersistRead(r) \/ Interrupt(r) \/ Leave(r) \/
            CleanupRow(r) \/ CleanupLog(r) \/ Cancel(r)
      PROVE  Manual(row)' /\ \A p \in Request : Manual(copy[p])'
  BY <1>3 DEF Register, Registry!Acquire, Registry!Held, Conflict, Deny,
     Registry!Release, Input, Route, GenSchema, GenSql, Respond, Pass,
     NextNode, Stop, Final, Or, PersistRead, Interrupt, Leave, Forget, NoRow, NoDesign,
     CleanupRow, CleanupLog, Cancel, Registry!Signal
<1>4. ASSUME NEW q \in Request, Read(q)
      PROVE  Manual(row)' /\ \A p \in Request : Manual(copy[p])'
  BY <1>4 DEF Read, NoRow
<1>5. ASSUME NEW q \in Request, Edit(q)
      PROVE  Manual(row)' /\ \A p \in Request : Manual(copy[p])'
  BY <1>5, EditNotes DEF NoRow
<1>6. ASSUME NEW q \in Request, Rename(q)
      PROVE  Manual(row)' /\ \A p \in Request : Manual(copy[p])'
  BY <1>6 DEF Rename, Save, NoRow
<1>7. ASSUME NEW q \in Request, SaveVariant(q)
      PROVE  Manual(row)' /\ \A p \in Request : Manual(copy[p])'
  <2>1. PICK new \in Row : /\ Save(q, new) /\ new.sql = row.sql /\ new.seed = row.seed
                           /\ new.edited = row.edited
    BY <1>7, SaveVariantNotes
  <2> QED
    BY <2>1 DEF Save, NoRow
<1>8. CASE DeleteRow \/ DeleteLog \/ Quiet
  BY <1>8 DEF DeleteRow, NoRow, DeleteLog, NoDesign, Quiet, vars
<1> QED
  BY <1>1, <1>2, <1>3, <1>4, <1>5, <1>6, <1>7, <1>8 DEF Next, Step

(* No project, or one of the earlier agent. *)
LEMMA InitInvariant == Init => IInv
<1> SUFFICES ASSUME Init PROVE IInv
  OBVIOUS
<1> USE ConstantsAreSane DEF Init
<1>1. row \in Row /\ row.edited = FALSE /\ \A r \in Run : NotBy(r, row)
  <2> DEFINE text == MadeBy(Legacy, Legacy)
  <2>1. text \in Text /\ Legacy \in Author /\ \A r \in Run : ~ Made(r, text)
    BY DEF MadeBy, Text, Author, Made
  <2>2. NewRow(Legacy) \in Row /\ NewRow(Legacy).edited = FALSE
    <3>1. NoRow.edited = FALSE
      BY DEF NoRow
    <3> QED
      BY <2>1, <3>1, NothingTyped DEF NewRow, Row
  <2>3. LegacyRow = [NewRow(Legacy) EXCEPT !.schema = Legacy, !.sql = text, !.seed = text]
    BY DEF LegacyRow
  <2> HIDE DEF text
  <2>4. /\ LegacyRow \in Row /\ LegacyRow.edited = FALSE
        /\ LegacyRow.sql = text /\ LegacyRow.seed = text
    BY <2>1, <2>2, <2>3 DEF Row
  <2>5. NoRow.edited = FALSE /\ NoRow.sql = None /\ NoRow.seed = None
    BY DEF NoRow
  <2>6. row \in {NoRow, LegacyRow}
    OBVIOUS
  <2> HIDE DEF Init
  <2> QED
    BY <2>1, <2>4, <2>5, <2>6, NothingTyped DEF NotBy, Made
<1>2. TypeOK
  BY <1>1, NothingTyped DEF TypeOK, Registry!Init, Registry!TypeOK, PC
<1>3. HoldsSlug /\ CopyFits /\ ShownFits /\ FinalFits
  BY DEF Registry!Init, Registry!Exclusive, HoldsSlug, CopyFits, ShownFits, TextFits,
         FinalFits, Made, Serving, HoldsCopy, Running, Boundary
<1>4. Unwritten
  BY <1>1 DEF Unwritten, NotBy, Made, NoRow, NoDesign
<1>5. Manual(row) /\ \A q \in Request : Manual(copy[q])
  BY <1>1 DEF Manual, NoRow
<1> QED
  BY <1>2, <1>3, <1>4, <1>5 DEF IInv

----------------------------------------------------------------------------
(* Type correctness, and who may write what, for any number of turns and   *)
(* page requests and under every fault: the inductive invariant.           *)
THEOREM Invariant == Spec => []IInv
<1>1. IInv /\ [Next]_vars => IInv'
  <2> SUFFICES ASSUME IInv, [Next]_vars PROVE IInv'
    OBVIOUS
  <2>1. CASE Next
    BY <2>1, TypeStep, HolderStep, CopyStep, ShownStep, UnwrittenStep, FinalStep, ManualStep
       DEF IInv
  <2>2. CASE UNCHANGED vars
    BY <2>2
       DEF vars, registry, locals, artifacts, shown, outcome, page, IInv, TypeOK,
           Registry!TypeOK, HoldsSlug, Registry!Exclusive, CopyFits, ShownFits, TextFits,
           Made, Unwritten, NotBy, FinalFits, Manual, ByUser
  <2> QED
    BY <2>1, <2>2
<1> QED
  BY <1>1, InitInvariant, PTL DEF Spec

(* The badge "manually edited" stands beside a text of a user only,        *)
(* whatever stale rows the page and the agent save over each other.        *)
THEOREM BadgeIsTrue == Spec => []EditedIsManual
<1>1. IInv => EditedIsManual
  BY DEF IInv, Manual, EditedIsManual
<1> QED
  BY <1>1, Invariant, PTL

(* A turn that has answered saves what it has shown its client, although   *)
(* it is read back from a checkpoint that others may have emptied, unless  *)
(* its project is gone or the schema its texts were made from is.          *)
THEOREM ShownArtifactsPersist == Spec => ShownIsPersisted
<1>1. ASSUME IInv, NEW r \in Run, PersistRead(r), Shows(r)
      PROVE  pc'[r] = "persist" \/ row.id # inst[r].id \/ SchemaGone(r)
  <2>1. /\ pc[r] = "done"
        /\ \/ pc'[r] = "persist" \/ row.id # inst[r].id
           \/ final[r].schema = None /\ (final[r].sql = None \/ inst[r].schema = None)
    BY <1>1 DEF PersistRead, Goto, Or, IInv, TypeOK
  <2>2. /\ schemaArt[r] # None => final[r].schema # None
        /\ sqlArt[r] # None => final[r].sql # None
        /\ sqlArt[r] # None \/ seedArt[r] # None => mem[r].schema # None
    BY <1>1, <2>1 DEF IInv, FinalFits, ShownFits, TextFits
  <2> QED
    BY <1>1, <2>1, <2>2 DEF Shows, SchemaGone
<1>2. ASSUME IInv, NEW r \in Run, PersistWrite(r)
      PROVE  /\ schemaArt[r] # None => row'.schema = schemaArt[r]
             /\ sqlArt[r] # None => row'.sql = sqlArt[r]
             /\ seedArt[r] # None => row'.seed = seedArt[r]
  BY <1>2 DEF IInv, FinalFits, PersistWrite, Saved, Or
<1>3. IInv /\ [Next]_vars =>
        [\A r \in Run :
           /\ PersistRead(r) /\ Shows(r) =>
                pc'[r] = "persist" \/ row.id # inst[r].id \/ SchemaGone(r)
           /\ PersistWrite(r) =>
                /\ schemaArt[r] # None => row'.schema = schemaArt[r]
                /\ sqlArt[r] # None => row'.sql = sqlArt[r]
                /\ seedArt[r] # None => row'.seed = seedArt[r]]_vars
  BY <1>1, <1>2
<1> QED
  BY <1>3, Invariant, PTL DEF Spec, ShownIsPersisted

(* "A changed schema needs matching SQL": the texts that a turn made and   *)
(* saves fit the schema, unless a delete has emptied the checkpoint.       *)
THEOREM PersistedSqlFits == Spec => SqlMatchesSchema
<1>1. ASSUME IInv, NEW r \in Run, PersistWrite(r), cp.schema # None
      PROVE  /\ sqlArt[r] # None => row'.sql.from = row'.schema
             /\ seedArt[r] # None => row'.seed.from = row'.schema
  <2>1. pc[r] = "persist"
    BY <1>1 DEF PersistWrite
  <2>2. /\ sqlArt[r] # None => final[r].sql = sqlArt[r]
        /\ seedArt[r] # None => final[r].seed = seedArt[r]
        /\ final[r].schema = mem[r].schema
    BY <1>1, <2>1 DEF IInv, FinalFits
  <2>3. /\ sqlArt[r] # None => sqlArt[r].from = mem[r].schema
        /\ seedArt[r] # None => seedArt[r].from = mem[r].schema
        /\ mem[r].schema # None
    BY <1>1, <2>1 DEF IInv, ShownFits, TextFits, CopyFits, HoldsCopy
  <2> QED
    BY <1>1, <2>2, <2>3 DEF PersistWrite, Saved, Or
<1>2. IInv /\ [Next]_vars =>
        [\A r \in Run : PersistWrite(r) /\ cp.schema # None =>
           /\ sqlArt[r] # None => row'.sql.from = row'.schema
           /\ seedArt[r] # None => row'.seed.from = row'.schema]_vars
  BY <1>1
<1> QED
  BY <1>2, Invariant, PTL DEF Spec, SqlMatchesSchema
=============================================================================
