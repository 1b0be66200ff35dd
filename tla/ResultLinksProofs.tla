-------------------------- MODULE ResultLinksProofs --------------------------
(***************************************************************************)
(* The links of ResultLinks for any number of turns, requests and tool     *)
(* calls: rows of a query have their SQL before them, and the charts of a  *)
(* regular turn show the run result they are linked to.  Both follow from  *)
(* ResIInv.  Its weight is in the steps that store: what the loop body     *)
(* inserts for a message of one or two calls, in the order of the calls.   *)
(***************************************************************************)
EXTENDS ResultLinks, FiniteSetTheorems, SequenceTheorems, TLAPS

-----------------------------------------------------------------------------
(* Subsets of a message of at most two calls *)

LEMMA Counts == /\ Cardinality({}) = 0
                /\ \A x : Cardinality({x}) = 1
                /\ Cardinality({1, 2}) = 2
<1>1. IsFiniteSet({1}) /\ Cardinality({1}) = 1  BY FS_Singleton
<1>2. Cardinality({1} \cup {2}) = 2  BY <1>1, FS_AddElement
<1>3. {1} \cup {2} = {1, 2}  OBVIOUS
<1> QED  BY <1>2, <1>3, FS_EmptySet, FS_Singleton

LEMMA FewSubsets ==
    ASSUME NEW n \in {0, 1, 2}, NEW S, S \subseteq 1..n
    PROVE  S \in {{}, {1}, {2}, {1, 2}}
<1>1. \A x \in S : x = 1 \/ x = 2  OBVIOUS
<1>2. CASE 1 \in S /\ 2 \in S
  <2>1. S = {1, 2}  BY <1>1, <1>2
  <2> QED  BY <2>1
<1>3. CASE 1 \in S /\ 2 \notin S
  <2>1. S = {1}  BY <1>1, <1>3
  <2> QED  BY <2>1
<1>4. CASE 1 \notin S /\ 2 \in S
  <2>1. S = {2}  BY <1>1, <1>4
  <2> QED  BY <2>1
<1>5. CASE 1 \notin S /\ 2 \notin S
  <2>1. S = {}  BY <1>1, <1>5
  <2> QED  BY <2>1
<1> QED  BY <1>2, <1>3, <1>4, <1>5

LEMMA UpTo == \A n \in {1, 2} : \A m \in 0..n : m \in {0, 1, 2} /\ m <= n
OBVIOUS

(* The members of such a set stand in their order. *)
LEMMA Ranks ==
    ASSUME NEW S \in {{}, {1}, {2}, {1, 2}}
    PROVE  /\ Cardinality(S) \in {0, 1, 2}
           /\ \A i \in S : Cardinality({j \in S : j <= i}) \in 1..Cardinality(S)
           /\ \A i, h \in S : h < i =>
                Cardinality({j \in S : j <= h}) < Cardinality({j \in S : j <= i})
           /\ \A p \in 1..Cardinality(S) : \E i \in S : Cardinality({j \in S : j <= i}) = p
<1>1. CASE S = {}  BY <1>1, Counts
<1>2. ASSUME NEW x \in {1, 2}, S = {x}
      PROVE  /\ Cardinality(S) = 1
             /\ \A i \in S : i = x /\ {j \in S : j <= i} = {x}
  <2>1. {j \in S : j <= x} = {x}  BY <1>2
  <2> QED  BY <1>2, <2>1, Counts
<1>3. CASE S = {1} \/ S = {2}
  <2>1. PICK x \in {1, 2} : S = {x}  BY <1>3
  <2>2. \A i \in S : Cardinality({j \in S : j <= i}) = 1  BY <1>2, <2>1, Counts
  <2> QED  BY <1>2, <2>1, <2>2
<1>4. CASE S = {1, 2}
  <2>1. {j \in S : j <= 1} = {1} /\ {j \in S : j <= 2} = {1, 2}  BY <1>4
  <2>2. /\ Cardinality({j \in S : j <= 1}) = 1 /\ Cardinality({j \in S : j <= 2}) = 2
        /\ Cardinality(S) = 2
    BY <1>4, <2>1, Counts
  <2> QED  BY <1>4, <2>2
<1> QED  BY <1>1, <1>3, <1>4

(* A non-empty one has a greatest member. *)
LEMMA Greatest ==
    ASSUME NEW S \in {{1}, {2}, {1, 2}}
    PROVE  \E i \in S : \A j \in S : j <= i
OBVIOUS

(* Rows that are inserted follow those that are there. *)
LEMMA Inserted ==
    ASSUME NEW s \in Seq(TableRow), NEW t \in Seq(TableRow)
    PROVE  /\ s \o t \in Seq(TableRow) /\ Len(s \o t) = Len(s) + Len(t)
           /\ \A k \in 1..Len(s) : (s \o t)[k] = s[k]
           /\ \A p \in 1..Len(t) : (s \o t)[Len(s) + p] = t[p]
           /\ \A k \in 1..Len(s \o t) : k \in 1..Len(s) \/ \E p \in 1..Len(t) : k = Len(s) + p
<1>1. /\ s \o t \in Seq(TableRow) /\ Len(s \o t) = Len(s) + Len(t)
      /\ Len(s) \in Nat /\ Len(t) \in Nat
  OBVIOUS
<1>2. \A k \in 1..Len(s) : (s \o t)[k] = s[k]  OBVIOUS
<1>3. \A p \in 1..Len(t) : (s \o t)[Len(s) + p] = t[p]  OBVIOUS
<1>4. ASSUME NEW k \in 1..Len(s \o t), k \notin 1..Len(s)
      PROVE  \E p \in 1..Len(t) : k = Len(s) + p
  <2>1. k - Len(s) \in 1..Len(t) /\ k = Len(s) + (k - Len(s))  BY <1>1, <1>4
  <2> QED  BY <2>1
<1> QED  BY <1>1, <1>2, <1>3, <1>4

-----------------------------------------------------------------------------
(* What a loop body inserts *)

Kind == {"query", "chart query", "no query", "chart"}

(* A message of one or two calls is stored up to some call.                *)
LEMMA Hand ==
    ASSUME ResTypeOK, InHand, NEW q \in AnyTurn, rpc[q] \in {"agent", "tools", "store"}
    PROVE  /\ rloc[q] \in RLocal /\ rloc[q].calls \in Seq(Kind)
           /\ Len(rloc[q].calls) \in {1, 2} /\ DOMAIN rloc[q].calls = 1..Len(rloc[q].calls)
           /\ rloc[q].n \in 0..MaxToolCalls /\ rloc[q].n \in Nat
           /\ \A i \in DOMAIN rloc[q].calls :
                i \in {1, 2} /\ rloc[q].calls[i] \in Kind /\ <<q, rloc[q].n, i>> \in RowName
<1>1. rloc[q] \in RLocal /\ Len(rloc[q].calls) \in {1, 2}  BY DEF ResTypeOK, InHand
<1>2. rloc[q].calls \in Seq(Kind)  BY <1>1 DEF RLocal, Kind
<1>3. rloc[q].n \in 0..MaxToolCalls /\ rloc[q].n \in Nat
  <2>1. asked \in 0..MaxToolCalls /\ rloc[q].n \in 0..asked  BY DEF ResTypeOK
  <2>2. MaxToolCalls \in Nat  BY ResAssumption
  <2> QED  BY <2>1, <2>2
<1>4. ASSUME NEW i \in DOMAIN rloc[q].calls
      PROVE  i \in {1, 2} /\ rloc[q].calls[i] \in Kind /\ <<q, rloc[q].n, i>> \in RowName
  <2>1. i \in {1, 2} /\ rloc[q].calls[i] \in Kind  BY <1>1, <1>2, <1>4
  <2> QED  BY <1>3, <2>1 DEF RowName
<1> QED  BY <1>1, <1>2, <1>3, <1>4

LEMMA SqlRowsAre ==
    ASSUME ResTypeOK, InHand, NEW q \in AnyTurn, rpc[q] = "agent",
           NEW m \in 0..Len(rloc[q].calls)
    PROVE  /\ SqlRows(q, m) \in Seq(TableRow)
           /\ \A p \in 1..Len(SqlRows(q, m)) : LET x == SqlRows(q, m)[p] IN
                x.type = SqlString /\ x.turn = q /\ x.link = 0
           /\ \A i \in 1..m : HasSql(rloc[q].calls[i]) =>
                \E p \in 1..Len(SqlRows(q, m)) : SqlRows(q, m)[p].data = <<q, rloc[q].n, i>>
<1> DEFINE S(j) == {h \in 1..j : HasSql(rloc[q].calls[h])}
           c(p) == CHOOSE j \in S(m) : Cardinality(S(j)) = p
           row(p) == ResultRow(q, SqlString, <<q, rloc[q].n, c(p)>>, 0)
<1>1. m \in {0, 1, 2} /\ m <= Len(rloc[q].calls)
  <2>1. Len(rloc[q].calls) \in {1, 2}  BY Hand
  <2> QED  BY <2>1, UpTo
<1>2. S(m) \in {{}, {1}, {2}, {1, 2}}
  <2>1. S(m) \subseteq 1..m  OBVIOUS
  <2> QED  BY <1>1, <2>1, FewSubsets
<1>3. \A i \in S(m) : S(i) = {j \in S(m) : j <= i}
  <2>1. m \in Nat /\ \A j : j \in S(m) <=> j \in 1..m /\ HasSql(rloc[q].calls[j])  BY <1>1
  <2> QED  BY <2>1
<1> HIDE DEF S
<1>4. Cardinality(S(m)) \in Nat
  <2>1. Cardinality(S(m)) \in {0, 1, 2}  BY <1>2, Ranks
  <2> QED  BY <2>1
<1>5. \A p \in 1..Cardinality(S(m)) : \E i \in S(m) : Cardinality(S(i)) = p
  <2>1. \A p \in 1..Cardinality(S(m)) : \E i \in S(m) : Cardinality({j \in S(m) : j <= i}) = p
    BY <1>2, Ranks
  <2> QED  BY <1>3, <2>1
<1>6. \A i \in S(m) : Cardinality(S(i)) \in 1..Cardinality(S(m))
  <2>1. \A i \in S(m) : Cardinality({j \in S(m) : j <= i}) \in 1..Cardinality(S(m))
    BY <1>2, Ranks
  <2> QED  BY <1>3, <2>1
<1>7. \A i, h \in S(m) : Cardinality(S(i)) = Cardinality(S(h)) => i = h
  <2>1. \A i, h \in S(m) : h < i =>
          Cardinality({j \in S(m) : j <= h}) < Cardinality({j \in S(m) : j <= i})
    BY <1>2, Ranks
  <2>2. \A i, h \in S(m) : h < i => Cardinality(S(h)) < Cardinality(S(i))
    BY <1>3, <2>1
  <2>3. \A i \in S(m) : i \in Nat /\ Cardinality(S(i)) \in Nat
    BY <1>2, <1>4, <1>6
  <2> SUFFICES ASSUME NEW i \in S(m), NEW h \in S(m), Cardinality(S(i)) = Cardinality(S(h))
               PROVE  i = h
    OBVIOUS
  <2>4. ~ (h < i) /\ ~ (i < h)  BY <2>2, <2>3
  <2> QED  BY <2>3, <2>4
<1>8. \A p \in 1..Cardinality(S(m)) : c(p) \in S(m) /\ Cardinality(S(c(p))) = p  BY <1>5
<1>9. \A p \in 1..Cardinality(S(m)) : row(p) \in TableRow
  <2> SUFFICES ASSUME NEW p \in 1..Cardinality(S(m)) PROVE row(p) \in TableRow  OBVIOUS
  <2>1. c(p) \in DOMAIN rloc[q].calls
    <3>1. c(p) \in 1..m  BY <1>8 DEF S
    <3>2. DOMAIN rloc[q].calls = 1..Len(rloc[q].calls) /\ Len(rloc[q].calls) \in Nat
      BY Hand
    <3> QED  BY <1>1, <3>1, <3>2
  <2>2. <<q, rloc[q].n, c(p)>> \in RowData  BY <2>1, Hand DEF RowData
  <2> HIDE DEF c
  <2> QED  BY <2>2 DEF TableRow, ResultRow
<1>10. SqlRows(q, m) = [p \in 1..Cardinality(S(m)) |-> row(p)]  BY DEF SqlRows, S
<1> HIDE DEF c
<1>11. SqlRows(q, m) \in Seq(TableRow) /\ Len(SqlRows(q, m)) = Cardinality(S(m))
  <2> HIDE DEF row
  <2>1. SqlRows(q, m) \in [1..Cardinality(S(m)) -> TableRow]  BY <1>9, <1>10
  <2> QED  BY <1>4, <2>1
<1>12. ASSUME NEW i \in 1..m, HasSql(rloc[q].calls[i])
       PROVE  \E p \in 1..Len(SqlRows(q, m)) : SqlRows(q, m)[p].data = <<q, rloc[q].n, i>>
  <2>1. i \in S(m)  BY <1>12 DEF S
  <2>2. PICK p \in 1..Cardinality(S(m)) : p = Cardinality(S(i))  BY <1>6, <2>1
  <2>3. c(p) = i  BY <1>7, <1>8, <2>1, <2>2
  <2>4. SqlRows(q, m)[p] = row(p)  BY <1>10, <2>2
  <2> QED  BY <1>11, <2>2, <2>3, <2>4 DEF ResultRow
<1>13. \A p \in 1..Len(SqlRows(q, m)) : SqlRows(q, m)[p] = row(p)  BY <1>10, <1>11
<1> QED  BY <1>11, <1>12, <1>13 DEF ResultRow

(* The rows of the outputs: one for each call of kept, in its place.       *)
Outputs(q, m) ==
    LET kept == Kept(q, m) IN
    [p \in 1..Cardinality(kept) |->
        OutputRow(q, kept, CHOOSE i \in kept : Place(kept, i) = Len(results) + p)]

LEMMA LastRunIs ==
    ASSUME ResTypeOK, InHand, NEW q \in AnyTurn, rpc[q] = "store",
           NEW m \in 0..Len(rloc[q].calls), NEW i \in 1..3
    PROVE  \/ /\ LastRun(q, Kept(q, m), i) = rloc[q].lastRun
              /\ \A j \in Kept(q, m) : j < i => ~ IsRun(rloc[q].calls[j])
           \/ \E j \in Kept(q, m) : /\ j < i /\ IsRun(rloc[q].calls[j])
                                    /\ LastRun(q, Kept(q, m), i) = Place(Kept(q, m), j)
<1> DEFINE runs == {j \in Kept(q, m) : j < i /\ IsRun(rloc[q].calls[j])}
<1>1. runs \in {{}, {1}, {2}, {1, 2}}
  <2>1. Len(rloc[q].calls) \in {1, 2}  BY Hand
  <2>2. m \in {0, 1, 2} /\ runs \subseteq 1..m  BY <2>1, UpTo DEF Kept
  <2> QED  BY <2>2, FewSubsets
<1>2. CASE runs = {}  BY <1>2 DEF LastRun
<1>3. CASE runs # {}
  <2>1. \E j \in runs : \A k \in runs : k <= j  BY <1>1, <1>3, Greatest
  <2>2. LastRun(q, Kept(q, m), i) = Place(Kept(q, m), CHOOSE j \in runs : \A k \in runs : k <= j)
    BY <1>3 DEF LastRun
  <2> QED  BY <2>1, <2>2
<1> QED  BY <1>2, <1>3

LEMMA OutputsAre ==
    ASSUME ResTypeOK, InHand, NEW q \in AnyTurn, rpc[q] = "store",
           NEW m \in 0..Len(rloc[q].calls)
    PROVE  LET kept == Kept(q, m) IN
           /\ Len(Outputs(q, m)) = Cardinality(kept) /\ Cardinality(kept) \in Nat
           /\ \A i \in kept : /\ Place(kept, i) - Len(results) \in 1..Len(Outputs(q, m))
                              /\ Outputs(q, m)[Place(kept, i) - Len(results)] = OutputRow(q, kept, i)
           /\ \A i, h \in kept : h < i => Place(kept, h) < Place(kept, i)
           /\ \A p \in 1..Len(Outputs(q, m)) : \E i \in kept :
                Place(kept, i) = Len(results) + p /\ Outputs(q, m)[p] = OutputRow(q, kept, i)
<1> DEFINE S == Kept(q, m)
           n == Len(results)
           r(i) == Cardinality({j \in S : j <= i})
           c(p) == CHOOSE i \in S : Place(S, i) = n + p
<1>1. S \in {{}, {1}, {2}, {1, 2}}
  <2>1. Len(rloc[q].calls) \in {1, 2}  BY Hand
  <2>2. m \in {0, 1, 2} /\ S \subseteq 1..m  BY <2>1, UpTo DEF Kept
  <2> QED  BY <2>2, FewSubsets
<1>2. n \in Nat
  <2>1. results \in Seq(TableRow)  BY DEF ResTypeOK
  <2> QED  BY <2>1
<1>3. Outputs(q, m) = [p \in 1..Cardinality(S) |-> OutputRow(q, S, c(p))]
  BY DEF Outputs
<1>4. \A i : Place(S, i) = n + r(i)  BY DEF Place
<1> HIDE DEF S, n
<1>5. /\ Cardinality(S) \in {0, 1, 2}
      /\ \A i \in S : r(i) \in 1..Cardinality(S)
      /\ \A i, h \in S : h < i => r(h) < r(i)
      /\ \A p \in 1..Cardinality(S) : \E i \in S : r(i) = p
  BY <1>1, Ranks
<1> HIDE DEF r
<1>6. \A i \in S : i \in Nat /\ r(i) \in Nat  BY <1>1, <1>5
<1>7. \A i, h \in S : r(i) = r(h) => i = h
  <2> SUFFICES ASSUME NEW i \in S, NEW h \in S, r(i) = r(h) PROVE i = h  OBVIOUS
  <2>1. ~ (h < i) /\ ~ (i < h)  BY <1>5, <1>6
  <2> QED  BY <1>6, <2>1
<1>8. \A p \in 1..Cardinality(S) : c(p) \in S /\ r(c(p)) = p
  <2> SUFFICES ASSUME NEW p \in 1..Cardinality(S) PROVE c(p) \in S /\ r(c(p)) = p  OBVIOUS
  <2>1. \E i \in S : Place(S, i) = n + p  BY <1>4, <1>5
  <2>2. c(p) \in S /\ Place(S, c(p)) = n + p  BY <2>1
  <2> HIDE DEF c
  <2> QED  BY <1>2, <1>4, <1>6, <2>2
<1> HIDE DEF c
<1>9. Len(Outputs(q, m)) = Cardinality(S)  BY <1>3, <1>5
<1>10. \A p \in 1..Cardinality(S) : Outputs(q, m)[p] = OutputRow(q, S, c(p))  BY <1>3
<1>11. ASSUME NEW i \in S
       PROVE  /\ Place(S, i) - n \in 1..Len(Outputs(q, m))
              /\ Outputs(q, m)[Place(S, i) - n] = OutputRow(q, S, i)
  <2>1. Place(S, i) - n = r(i)  BY <1>2, <1>4, <1>6
  <2>2. r(i) \in 1..Cardinality(S)  BY <1>5
  <2>3. c(r(i)) = i  BY <1>7, <1>8, <2>2
  <2> QED  BY <1>9, <1>10, <2>1, <2>2, <2>3
<1>12. \A i, h \in S : h < i => Place(S, h) < Place(S, i)  BY <1>2, <1>4, <1>5, <1>6
<1>13. \A p \in 1..Len(Outputs(q, m)) : \E i \in S :
         Place(S, i) = n + p /\ Outputs(q, m)[p] = OutputRow(q, S, i)
  BY <1>4, <1>8, <1>9, <1>10
<1> QED  BY <1>5, <1>9, <1>11, <1>12, <1>13 DEF S, n

-----------------------------------------------------------------------------
(* ResIInv row by row and turn by turn, with the table as an argument *)

RowOK(t, k, reg) ==
    /\ t[k].link < k
    /\ t[k].link = 0 \/ (t[k].type = Chart /\ t[t[k].link].type = RunResult)
    /\ t[k].type = RunResult /\ t[k].data # Refused => SqlOf(t, t[k].turn, t[k].data, k - 1)
    /\ t[k].type = Chart /\ t[k].turn \in reg \cap ResTurn /\ t[k].data # Empty =>
         t[k].link # 0 /\ t[t[k].link].data = t[k].data

HandOK(l, p) ==
    /\ p # "idle"
    /\ p \in {"agent", "tools", "store"} => Len(l.calls) \in {1, 2}
    /\ p = "store" => Len(l.outs) = Len(l.calls)

SqlOK(q, t, l, p) ==
    \A i \in DOMAIN l.calls :
        /\ p \in {"tools", "store"} /\ HasSql(l.calls[i]) => SqlOf(t, q, <<q, l.n, i>>, Len(t))
        /\ p = "store" /\ IsRun(l.calls[i]) /\ l.outs[i] \notin {ToolError, Refused} =>
             HasSql(l.calls[i]) /\ l.outs[i] = <<q, l.n, i>>

CacheOK(t, l, p) ==
    /\ p \in {"agent", "tools", "store"} => Len(l.calls) = 1 /\ l.calls[1] # "query"
    /\ Tied(l, t) \/ (p = "store" /\ l.calls[1] = "chart query")
    /\ p = "store" =>
         CASE l.calls[1] = "chart query" -> \/ l.outs[1] = l.cached /\ l.outs[1] # ToolError
                                            \/ l.outs[1] = ToolError /\ Tied(l, t)
           [] l.calls[1] = "chart"       -> l.outs[1] \in {ToolError, Empty, l.cached}
           [] OTHER                      -> l.outs[1] = ToolError

TurnOK(q, t, l, p, reg) ==
    /\ l \in RLocal /\ HandOK(l, p)
    /\ l.lastRun \in 0..Len(t) /\ (l.lastRun = 0 \/ t[l.lastRun].type = RunResult)
    /\ SqlOK(q, t, l, p)
    /\ q \in reg \cap ResTurn => CacheOK(t, l, p)

Globals ==
    /\ results \in Seq(TableRow) /\ asked \in 0..MaxToolCalls
    /\ rpc \in [AnyTurn \cup ResRequest -> {"llm", "agent", "tools", "store", "idle", "done"}]
    /\ rloc \in [AnyTurn -> RLocal] /\ \A q \in AnyTurn : rloc[q].n \in 0..asked
    /\ outcome \in [ResRequest -> {"none", "saved", "no link", "not found", "refreshed", "failed"}]
    /\ regular \subseteq AnyTurn

LEMMA Split ==
    ASSUME ResIInv
    PROVE  /\ Globals
           /\ \A k \in 1..Len(results) : RowOK(results, k, regular)
           /\ \A q \in AnyTurn : TurnOK(q, results, rloc[q], rpc[q], regular)
<1>1. Globals  BY DEF ResIInv, ResTypeOK, Globals
<1>2. results \in Seq(TableRow)  BY <1>1 DEF Globals
<1>3. ASSUME NEW k \in 1..Len(results) PROVE RowOK(results, k, regular)
  <2>1. k \in DOMAIN results  BY <1>2
  <2>2. results[k].link < k  BY <2>1 DEF ResIInv, ResTypeOK
  <2>3. results[k].link = 0 \/ (results[k].type = Chart /\ results[results[k].link].type = RunResult)
    BY <2>1 DEF ResIInv, LinksAreToRuns
  <2> QED  BY <2>1, <2>2, <2>3 DEF ResIInv, RunHasItsSql, ChartShowsLinkedRun, RowOK
<1>4. ASSUME NEW q \in AnyTurn PROVE TurnOK(q, results, rloc[q], rpc[q], regular)
  <2>1. rloc[q] \in RLocal /\ rloc[q].lastRun \in 0..Len(results)  BY DEF ResIInv, ResTypeOK
  <2>2. HandOK(rloc[q], rpc[q])
    <3>1. q \in AnyTurn \cup ResRequest /\ q \notin ResRequest  BY ResAssumption
    <3> QED  BY <3>1 DEF ResIInv, InHand, HandOK
  <2>3. rloc[q].lastRun = 0 \/ results[rloc[q].lastRun].type = RunResult
    BY DEF ResIInv, LinksAreToRuns
  <2>4. SqlOK(q, results, rloc[q], rpc[q])  BY DEF ResIInv, SqlComesFirst, SqlOK
  <2>5. q \in regular \cap ResTurn => CacheOK(results, rloc[q], rpc[q])
    BY DEF ResIInv, CacheIsLinked, CacheOK
  <2> QED  BY <2>1, <2>2, <2>3, <2>4, <2>5 DEF TurnOK
<1> QED  BY <1>1, <1>3, <1>4

LEMMA Joined ==
    ASSUME Globals', \A p \in ResRequest \cup AnyTurn : rpc'[p] = "idle" => p \in ResRequest,
           \A k \in 1..Len(results') : RowOK(results', k, regular'),
           \A q \in AnyTurn : TurnOK(q, results', rloc'[q], rpc'[q], regular')
    PROVE  ResIInv'
<1>1. results' \in Seq(TableRow) /\ DOMAIN results' = 1..Len(results')
  <2>1. results' \in Seq(TableRow)  BY DEF Globals
  <2> QED  BY <2>1
<1>2. ResTypeOK'
  BY <1>1 DEF ResTypeOK, Globals, RowOK, TurnOK
<1>3. InHand'
  BY DEF InHand, TurnOK, HandOK
<1>4. LinksAreToRuns'
  BY <1>1 DEF LinksAreToRuns, RowOK, TurnOK
<1>5. SqlComesFirst'
  BY DEF SqlComesFirst, TurnOK, SqlOK
<1>6. CacheIsLinked'
  <2>1. regular' \subseteq AnyTurn  BY DEF Globals
  <2> QED  BY <2>1 DEF CacheIsLinked, TurnOK, CacheOK
<1>7. RunHasItsSql' /\ ChartShowsLinkedRun'
  BY <1>1 DEF RunHasItsSql, ChartShowsLinkedRun, RowOK
<1> QED  BY <1>2, <1>3, <1>4, <1>5, <1>6, <1>7 DEF ResIInv

(* A table that only grew, and in which only SQL was edited.               *)
Same(s, t) ==
    /\ Len(s) <= Len(t)
    /\ \A j \in 1..Len(s) :
         /\ t[j].type = s[j].type /\ t[j].turn = s[j].turn /\ t[j].link = s[j].link
         /\ t[j].data = s[j].data \/ (s[j].type = SqlString /\ t[j].data[1] \in ResRequest)

LEMMA SqlStays ==
    ASSUME NEW s, Len(s) \in Nat, NEW t, Len(t) \in Nat, Same(s, t),
           NEW k \in 0..Len(s), NEW m \in Nat, k <= m, NEW q, NEW data, SqlOf(s, q, data, k)
    PROVE  SqlOf(t, q, data, m)
<1>1. PICK j \in 1..k : /\ s[j].type = SqlString /\ s[j].turn = q
                        /\ s[j].data = data \/ s[j].data[1] \in ResRequest
  BY DEF SqlOf
<1>2. j \in 1..Len(s) /\ j \in 1..m  OBVIOUS
<1>3. /\ t[j].type = SqlString /\ t[j].turn = q
      /\ t[j].data = s[j].data \/ t[j].data[1] \in ResRequest
  BY <1>1, <1>2 DEF Same
<1>4. t[j].data = data \/ t[j].data[1] \in ResRequest  BY <1>1, <1>3
<1> QED  BY <1>2, <1>3, <1>4 DEF SqlOf

LEMMA RowStays ==
    ASSUME NEW s \in Seq(TableRow), NEW t \in Seq(TableRow), Same(s, t),
           NEW reg, NEW reg2, reg2 \subseteq reg, NEW k \in 1..Len(s), RowOK(s, k, reg)
    PROVE  RowOK(t, k, reg2)
<1>1. /\ Len(s) \in Nat /\ Len(t) \in Nat
      /\ s[k].link \in Nat /\ s[k].link < k
      /\ s[k].type \in {SqlString, RunResult, Chart}
  <2>1. s[k] \in TableRow  OBVIOUS
  <2> QED  BY <2>1 DEF TableRow, RowOK
<1>2. /\ t[k].type = s[k].type /\ t[k].turn = s[k].turn /\ t[k].link = s[k].link
      /\ s[k].type # SqlString => t[k].data = s[k].data
  BY DEF Same
<1>3. ASSUME s[k].link # 0
      PROVE  /\ s[s[k].link].type = RunResult /\ t[s[k].link].type = RunResult
             /\ t[s[k].link].data = s[s[k].link].data
  <2>1. s[k].link \in 1..Len(s) /\ s[s[k].link].type = RunResult  BY <1>1, <1>3 DEF RowOK
  <2> QED  BY <2>1 DEF Same, RunResult, SqlString
<1>4. t[k].type = RunResult /\ t[k].data # Refused => SqlOf(t, t[k].turn, t[k].data, k - 1)
  <2> SUFFICES ASSUME t[k].type = RunResult, t[k].data # Refused
               PROVE  SqlOf(t, t[k].turn, t[k].data, k - 1)
    OBVIOUS
  <2>1. t[k].data = s[k].data  BY <1>2 DEF RunResult, SqlString
  <2>2. SqlOf(s, t[k].turn, t[k].data, k - 1)  BY <1>2, <2>1 DEF RowOK
  <2>3. k - 1 \in 0..Len(s) /\ k - 1 \in Nat /\ k - 1 <= k - 1  BY <1>1
  <2> QED  BY <1>1, <2>2, <2>3, SqlStays
<1>5. t[k].type = Chart /\ t[k].turn \in reg2 \cap ResTurn /\ t[k].data # Empty =>
        t[k].link # 0 /\ t[t[k].link].data = t[k].data
  BY <1>2, <1>3 DEF RowOK, Chart, SqlString
<1> QED  BY <1>1, <1>2, <1>3, <1>4, <1>5 DEF RowOK

LEMMA TurnStays ==
    ASSUME NEW s \in Seq(TableRow), NEW t \in Seq(TableRow), Same(s, t),
           NEW reg, NEW reg2, reg2 \subseteq reg, NEW q, NEW l, NEW p, TurnOK(q, s, l, p, reg)
    PROVE  TurnOK(q, t, l, p, reg2)
<1>1. Len(s) \in Nat /\ Len(t) \in Nat /\ Len(s) <= Len(t)  BY DEF Same
<1>2. l \in RLocal /\ HandOK(l, p) /\ l.lastRun \in 0..Len(s)  BY DEF TurnOK
<1>3. l.lastRun # 0 => /\ t[l.lastRun].type = RunResult
                       /\ t[l.lastRun].data = s[l.lastRun].data
  BY <1>1, <1>2 DEF TurnOK, Same, RunResult, SqlString
<1>4. SqlOK(q, t, l, p)
  <2> SUFFICES ASSUME NEW i \in DOMAIN l.calls, p \in {"tools", "store"}, HasSql(l.calls[i])
               PROVE  SqlOf(t, q, <<q, l.n, i>>, Len(t))
    BY DEF TurnOK, SqlOK
  <2>1. SqlOf(s, q, <<q, l.n, i>>, Len(s))  BY DEF TurnOK, SqlOK
  <2>2. Len(s) \in 0..Len(s)  BY <1>1
  <2> QED  BY <1>1, <2>1, <2>2, SqlStays
<1>5. Tied(l, s) => Tied(l, t)  BY <1>3 DEF Tied
<1>6. q \in reg2 \cap ResTurn => CacheOK(t, l, p)
  BY <1>5 DEF TurnOK, CacheOK
<1>7. l.lastRun \in 0..Len(t)  BY <1>1, <1>2
<1> QED  BY <1>2, <1>3, <1>4, <1>6, <1>7 DEF TurnOK

(* So a step has to be looked at only where it acts.                       *)
LEMMA Locally ==
    ASSUME ResIInv, NEW q, Globals', Same(results, results'), regular' \subseteq regular,
           \A p \in (AnyTurn \cup ResRequest) \ {q} : rpc'[p] = rpc[p],
           \A p \in AnyTurn \ {q} : rloc'[p] = rloc[p],
           q \in AnyTurn => TurnOK(q, results', rloc'[q], rpc'[q], regular'),
           \A k \in (Len(results) + 1)..Len(results') : RowOK(results', k, regular')
    PROVE  ResIInv'
<1>1. /\ results \in Seq(TableRow) /\ results' \in Seq(TableRow)
      /\ Len(results) \in Nat /\ Len(results') \in Nat
  <2>1. results \in Seq(TableRow) /\ results' \in Seq(TableRow)  BY Split DEF Globals
  <2> QED  BY <2>1
<1>2. ASSUME NEW p \in AnyTurn PROVE TurnOK(p, results', rloc'[p], rpc'[p], regular')
  <2>1. CASE p = q  BY <2>1
  <2>2. CASE p # q
    <3>1. TurnOK(p, results, rloc[p], rpc[p], regular)  BY Split
    <3>2. rloc'[p] = rloc[p] /\ rpc'[p] = rpc[p]  BY <2>2
    <3> QED  BY <1>1, <3>1, <3>2, TurnStays
  <2> QED  BY <2>1, <2>2
<1>3. ASSUME NEW k \in 1..Len(results') PROVE RowOK(results', k, regular')
  <2>1. CASE k <= Len(results)
    <3>1. k \in 1..Len(results)  BY <1>1, <2>1
    <3>2. RowOK(results, k, regular)  BY <3>1, Split
    <3> QED  BY <1>1, <3>1, <3>2, RowStays
  <2>2. CASE ~ (k <= Len(results))
    <3>1. k \in (Len(results) + 1)..Len(results')  BY <1>1, <2>2
    <3> QED  BY <3>1
  <2> QED  BY <2>1, <2>2
<1>4. ASSUME NEW p \in ResRequest \cup AnyTurn, rpc'[p] = "idle" PROVE p \in ResRequest
  BY <1>2, <1>4 DEF TurnOK, HandOK
<1> QED  BY <1>2, <1>3, <1>4, Joined


-----------------------------------------------------------------------------
(* The steps of a turn *)

LEMMA Known ==
    ASSUME ResIInv, NEW q \in AnyTurn
    PROVE  /\ Globals /\ ResTypeOK /\ InHand
           /\ q \in AnyTurn \cup ResRequest /\ q \notin ResRequest
           /\ rloc[q] \in RLocal /\ TurnOK(q, results, rloc[q], rpc[q], regular)
           /\ results \in Seq(TableRow) /\ Len(results) \in Nat
           /\ asked \in Nat /\ MaxToolCalls \in Nat
<1>1. Globals /\ TurnOK(q, results, rloc[q], rpc[q], regular)  BY Split
<1>2. results \in Seq(TableRow) /\ asked \in 0..MaxToolCalls  BY <1>1 DEF Globals
<1> QED  BY <1>1, <1>2, ResAssumption DEF ResIInv, TurnOK

LEMMA NoLocal == NoRLocal \in RLocal
<1>1. Empty \in RowData  BY DEF RowData
<1>2. <<>> \in Seq(Kind) /\ <<>> \in Seq(RowData \cup {ToolError})  OBVIOUS
<1> QED  BY <1>1, <1>2 DEF NoRLocal, RLocal, Kind

(* A turn that ended, wherever it was.                                     *)
LEMMA Ended ==
    ASSUME NEW q, NEW t \in Seq(TableRow), NEW reg
    PROVE  TurnOK(q, t, NoRLocal, "done", reg)
<1>1. NoRLocal \in RLocal  BY NoLocal
<1>2. Len(t) \in Nat  OBVIOUS
<1>3. NoRLocal.lastRun = 0 /\ NoRLocal.cached = Empty  BY DEF NoRLocal
<1> QED  BY <1>1, <1>2, <1>3 DEF TurnOK, HandOK, SqlOK, CacheOK, Tied

LEMMA SameTable == ASSUME results \in Seq(TableRow) PROVE Same(results, results)
<1>1. Len(results) \in Nat  OBVIOUS
<1> QED  BY <1>1 DEF Same

(* What a step of a turn has to show, when it inserts rows.                *)
LEMMA TurnStep ==
    ASSUME ResIInv, NEW q \in AnyTurn, NEW rows \in Seq(TableRow), NEW l, NEW p, NEW reg,
           results' = results \o rows, UNCHANGED outcome,
           rloc' = [rloc EXCEPT ![q] = l], RGoto(q, p), p \in {"llm", "agent", "tools", "store", "done"},
           asked' \in Nat, asked <= asked', asked' <= MaxToolCalls, l.n \in 0..asked',
           regular' = reg, reg \subseteq regular,
           TurnOK(q, results \o rows, l, p, reg),
           \A i \in 1..Len(rows) : RowOK(results \o rows, Len(results) + i, reg)
    PROVE  ResIInv'
<1>1. /\ Globals /\ q \in AnyTurn \cup ResRequest /\ results \in Seq(TableRow)
      /\ Len(results) \in Nat /\ Len(rows) \in Nat /\ asked \in Nat /\ MaxToolCalls \in Nat
  BY Known
<1>2. /\ results' \in Seq(TableRow) /\ Len(results') = Len(results) + Len(rows)
      /\ \A k \in 1..Len(results) : results'[k] = results[k]
  BY <1>1, Inserted
<1>3. Same(results, results')  BY <1>1, <1>2 DEF Same
<1>4. rpc' = [rpc EXCEPT ![q] = p]  BY DEF RGoto
<1>5. /\ rpc \in [AnyTurn \cup ResRequest -> {"llm", "agent", "tools", "store", "idle", "done"}]
      /\ rloc \in [AnyTurn -> RLocal] /\ \A h \in AnyTurn : rloc[h].n \in 0..asked
  BY <1>1 DEF Globals
<1>6. /\ rpc' \in [AnyTurn \cup ResRequest -> {"llm", "agent", "tools", "store", "idle", "done"}]
      /\ rpc'[q] = p /\ \A h \in (AnyTurn \cup ResRequest) \ {q} : rpc'[h] = rpc[h]
  BY <1>1, <1>4, <1>5
<1>7. l \in RLocal  BY DEF TurnOK
<1>8. /\ rloc' \in [AnyTurn -> RLocal] /\ rloc'[q] = l
      /\ \A h \in AnyTurn \ {q} : rloc'[h] = rloc[h]
  BY <1>5, <1>7
<1>9. \A h \in AnyTurn : rloc'[h].n \in 0..asked'
  <2> SUFFICES ASSUME NEW h \in AnyTurn PROVE rloc'[h].n \in 0..asked'  OBVIOUS
  <2>1. CASE h = q  BY <1>8, <2>1
  <2>2. CASE h # q
    <3>1. rloc'[h].n \in 0..asked  BY <1>5, <1>8, <2>2
    <3> QED  BY <1>1, <3>1
  <2> QED  BY <2>1, <2>2
<1>10. Globals'
  <2>1. asked' \in 0..MaxToolCalls  BY <1>1
  <2> QED  BY <1>1, <1>2, <1>6, <1>8, <1>9, <2>1 DEF Globals
<1>11. TurnOK(q, results', rloc'[q], rpc'[q], regular')  BY <1>6, <1>8
<1>12. ASSUME NEW k \in (Len(results) + 1)..Len(results') PROVE RowOK(results', k, regular')
  <2>1. k - Len(results) \in 1..Len(rows) /\ k = Len(results) + (k - Len(results))
    BY <1>1, <1>2
  <2>2. RowOK(results \o rows, Len(results) + (k - Len(results)), reg)  BY <2>1
  <2> QED  BY <2>1, <2>2
<1> QED  BY <1>3, <1>6, <1>8, <1>10, <1>11, <1>12, Locally

(* And when it stores nothing.                                             *)
LEMMA TurnStepsAlone ==
    ASSUME ResIInv, NEW q \in AnyTurn, NEW l, NEW p, NEW reg,
           UNCHANGED <<results, outcome>>,
           rloc' = [rloc EXCEPT ![q] = l], RGoto(q, p), p \in {"llm", "agent", "tools", "store", "done"},
           asked' \in Nat, asked <= asked', asked' <= MaxToolCalls, l.n \in 0..asked',
           regular' = reg, reg \subseteq regular, TurnOK(q, results, l, p, reg)
    PROVE  ResIInv'
<1>1. results \in Seq(TableRow)  BY Known
<1>2. results \o <<>> = results /\ <<>> \in Seq(TableRow) /\ Len(<<>>) = 0  BY <1>1
<1>3. \A i \in 1..Len(<<>>) : RowOK(results \o <<>>, Len(results) + i, reg)  OBVIOUS
<1>4. results' = results \o <<>>  BY <1>2
<1>5. TurnOK(q, results \o <<>>, l, p, reg)  BY <1>2
<1> QED  BY <1>2, <1>3, <1>4, <1>5, TurnStep

LEMMA EndTurnStep == ASSUME ResIInv, NEW q \in AnyTurn, EndTurn(q) PROVE ResIInv'
<1>1. results \in Seq(TableRow) /\ asked \in Nat /\ Globals  BY Known
<1>2. TurnOK(q, results, NoRLocal, "done", regular)  BY <1>1, Ended
<1>3. NoRLocal.n \in 0..asked' /\ asked' \in Nat /\ asked <= asked' /\ asked' <= MaxToolCalls
  <2>1. asked' = asked /\ asked \in 0..MaxToolCalls /\ MaxToolCalls \in Nat
    BY <1>1, Known DEF Globals, EndTurn
  <2> QED  BY <1>1, <2>1 DEF NoRLocal
<1> QED  BY <1>2, <1>3, TurnStepsAlone DEF EndTurn

Mistaken == <<"no query">>
WellFormed(n) == [1..n -> {"query", "chart query", "chart"}]
Asked(n) == WellFormed(n) \cup {Mistaken}

LEMMA AskedFor == \A n \in 1..2 : \A calls \in Asked(n) : calls \in Seq(Kind) /\ Len(calls) \in {1, 2}
<1>1. Mistaken \in Seq(Kind) /\ Len(Mistaken) = 1  BY DEF Kind, Mistaken
<1>2. ASSUME NEW n \in {1, 2}, NEW calls \in [1..n -> Kind]
      PROVE  calls \in Seq(Kind) /\ Len(calls) = n
  OBVIOUS
<1>3. \A n \in 1..2 : n \in {1, 2} /\ WellFormed(n) \subseteq [1..n -> Kind]
  <2>1. 1..2 = {1, 2} /\ {"query", "chart query", "chart"} \subseteq Kind  BY DEF Kind
  <2> QED  BY <2>1 DEF WellFormed
<1>4. \A n \in 1..2 : \A calls \in WellFormed(n) : calls \in Seq(Kind) /\ Len(calls) = n
  BY <1>2, <1>3
<1> QED  BY <1>1, <1>3, <1>4 DEF Asked

AskedThese(q, calls) ==
    /\ asked' = asked + Len(calls) /\ asked' <= MaxToolCalls
    /\ rloc' = [rloc EXCEPT ![q].n = asked', ![q].calls = calls]
    /\ regular' = IF Len(calls) = 1 /\ calls[1] # "query" THEN regular ELSE regular \ {q}

LEMMA AskToolsStep == ASSUME ResIInv, NEW q \in AnyTurn, AskTools(q) PROVE ResIInv'
<1>1. PICK n \in 1..2 : \E calls \in Asked(n) : AskedThese(q, calls)
  BY DEF AskTools, AskedThese, Asked, WellFormed, Mistaken
<1>1a. PICK calls \in Asked(n) : AskedThese(q, calls)
  BY <1>1
<1>2. calls \in Seq(Kind) /\ Len(calls) \in {1, 2}  BY AskedFor
<1>2a. asked' = asked + Len(calls)  BY <1>1a DEF AskedThese
<1> DEFINE l == [rloc[q] EXCEPT !.n = asked', !.calls = calls]
<1>3. /\ rloc[q] \in RLocal /\ TurnOK(q, results, rloc[q], "llm", regular)
      /\ asked \in Nat /\ rpc[q] = "llm" /\ rloc \in [AnyTurn -> RLocal]
  BY Known DEF AskTools, Globals
<1>4. asked' \in Nat /\ asked <= asked' /\ asked' \in 0..asked'
  <2>1. asked \in Nat /\ Len(calls) \in Nat /\ asked' = asked + Len(calls)  BY <1>2, <1>3, <1>2a
  <2> QED  BY <2>1
<1>5. /\ l \in RLocal /\ l.n = asked' /\ l.calls = calls
      /\ l.cached = rloc[q].cached /\ l.lastRun = rloc[q].lastRun
  BY <1>2, <1>3, <1>4 DEF RLocal, Kind
<1>6. rloc' = [rloc EXCEPT ![q] = l]  BY <1>3, <1>1a DEF AskedThese
<1> HIDE DEF l
<1>7. Tied(rloc[q], results) => Tied(l, results)  BY <1>5 DEF Tied
<1>8. regular' \subseteq regular
      /\ (q \in regular' => q \in regular /\ Len(calls) = 1 /\ calls[1] # "query")
  BY <1>1a DEF AskedThese
<1>9. q \in regular' \cap ResTurn => CacheOK(results, l, "agent")
  BY <1>3, <1>5, <1>7, <1>8 DEF TurnOK, CacheOK
<1>10. TurnOK(q, results, l, "agent", regular')
  BY <1>2, <1>3, <1>5, <1>9 DEF TurnOK, HandOK, SqlOK
<1>11. asked' <= MaxToolCalls  BY <1>1a DEF AskedThese
<1> QED  BY <1>4, <1>5, <1>6, <1>8, <1>10, <1>11, TurnStepsAlone DEF AskTools

LEMMA StoreSqlStep == ASSUME ResIInv, NEW q \in AnyTurn, StoreSql(q) PROVE ResIInv'
<1>1. PICK m \in 0..Len(rloc[q].calls) :
        /\ results' = results \o SqlRows(q, m)
        /\ RGoto(q, IF m = Len(rloc[q].calls) THEN "tools" ELSE "done")
        /\ rloc' = IF m = Len(rloc[q].calls) THEN rloc ELSE [rloc EXCEPT ![q] = NoRLocal]
  BY DEF StoreSql
<1>2. /\ Globals /\ ResTypeOK /\ InHand /\ rpc[q] = "agent"
      /\ results \in Seq(TableRow) /\ Len(results) \in Nat /\ asked \in Nat
      /\ TurnOK(q, results, rloc[q], "agent", regular) /\ UNCHANGED <<asked, outcome, regular>>
  BY Known DEF StoreSql
<1> DEFINE rows == SqlRows(q, m)
           t == results \o rows
<1>3. /\ rows \in Seq(TableRow)
      /\ \A p \in 1..Len(rows) : rows[p].type = SqlString /\ rows[p].turn = q /\ rows[p].link = 0
      /\ \A i \in 1..m : HasSql(rloc[q].calls[i]) =>
           \E p \in 1..Len(rows) : rows[p].data = <<q, rloc[q].n, i>>
  BY <1>2, SqlRowsAre
<1>4. results' = t  BY <1>1
<1> HIDE DEF rows
<1>5. /\ t \in Seq(TableRow) /\ Len(t) = Len(results) + Len(rows) /\ Len(rows) \in Nat
      /\ \A k \in 1..Len(results) : t[k] = results[k]
      /\ \A p \in 1..Len(rows) : t[Len(results) + p] = rows[p]
  BY <1>2, <1>3, Inserted
<1>6. Same(results, t)  BY <1>2, <1>5 DEF Same
<1>7. \A i \in 1..Len(rows) : RowOK(t, Len(results) + i, regular)
  <2> SUFFICES ASSUME NEW i \in 1..Len(rows) PROVE RowOK(t, Len(results) + i, regular)  OBVIOUS
  <2>1. t[Len(results) + i].type = SqlString /\ t[Len(results) + i].link = 0  BY <1>3, <1>5
  <2>2. 0 < Len(results) + i  BY <1>2
  <2> QED  BY <2>1, <2>2 DEF RowOK, SqlString, RunResult, Chart
<1>8. asked' \in Nat /\ asked <= asked' /\ asked' <= MaxToolCalls
  <2>1. asked' = asked /\ asked \in 0..MaxToolCalls /\ MaxToolCalls \in Nat
    BY <1>2, Known DEF Globals
  <2> QED  BY <1>2, <2>1
<1>9. CASE m = Len(rloc[q].calls)
  <2>1. TurnOK(q, t, rloc[q], "agent", regular)  BY <1>2, <1>5, <1>6, TurnStays
  <2>2. ASSUME NEW i \in DOMAIN rloc[q].calls, HasSql(rloc[q].calls[i])
        PROVE  SqlOf(t, q, <<q, rloc[q].n, i>>, Len(t))
    <3>1. i \in 1..m  BY <1>2, <1>9, Hand
    <3>2. PICK p \in 1..Len(rows) : rows[p].data = <<q, rloc[q].n, i>>  BY <1>3, <2>2, <3>1
    <3>3. Len(results) + p \in 1..Len(t)  BY <1>2, <1>5
    <3>4. t[Len(results) + p] = rows[p]  BY <1>5
    <3> QED  BY <1>3, <3>2, <3>3, <3>4 DEF SqlOf
  <2>3. TurnOK(q, t, rloc[q], "tools", regular)
    BY <2>1, <2>2 DEF TurnOK, HandOK, SqlOK, CacheOK
  <2>4. rloc' = [rloc EXCEPT ![q] = rloc[q]]
    <3>1. rloc \in [AnyTurn -> RLocal]  BY <1>2 DEF Globals
    <3> QED  BY <1>1, <1>9, <3>1
  <2>5. rloc[q].n \in 0..asked'  BY <1>2 DEF Globals
  <2> QED  BY <1>1, <1>2, <1>3, <1>4, <1>7, <1>8, <1>9, <2>3, <2>4, <2>5, TurnStep
<1>10. CASE m # Len(rloc[q].calls)
  <2>1. TurnOK(q, t, NoRLocal, "done", regular)  BY <1>5, Ended
  <2>2. NoRLocal.n \in 0..asked'  BY <1>8 DEF NoRLocal
  <2>3. RGoto(q, "done") /\ rloc' = [rloc EXCEPT ![q] = NoRLocal]  BY <1>1, <1>10
  <2> QED  BY <1>1, <1>2, <1>3, <1>4, <1>7, <1>8, <2>1, <2>2, <2>3, TurnStep
<1> QED  BY <1>9, <1>10

(* What a call returns, and what it leaves in the context of its turn.     *)
LEMMA Returned ==
    ASSUME ResIInv, NEW q \in AnyTurn, rpc[q] = "tools", NEW i \in DOMAIN rloc[q].calls,
           NEW cached \in RowData, NEW out \in Returns(q, i, cached)
    PROVE  /\ out \in RowData \cup {ToolError}
           /\ (IF Caches(q, i, out) THEN out ELSE cached) \in RowData
           /\ IsRun(rloc[q].calls[i]) /\ out \notin {ToolError, Refused} =>
                HasSql(rloc[q].calls[i]) /\ out = <<q, rloc[q].n, i>>
           /\ rloc[q].calls[i] = "chart" => out \in {ToolError, Empty, cached}
           /\ rloc[q].calls[i] = "no query" => out \in {ToolError, Refused}
           /\ Caches(q, i, out) => rloc[q].calls[i] = "chart query"
           /\ q \in ResTurn /\ rloc[q].calls[i] = "chart query" /\ out # Refused =>
                out = ToolError \/ Caches(q, i, out)
<1>1. <<q, rloc[q].n, i>> \in RowData /\ rloc[q].calls[i] \in Kind
      /\ Empty \in RowData /\ Refused \in RowData
  <2>1. ResTypeOK /\ InHand  BY DEF ResIInv
  <2> QED  BY <2>1, Hand DEF RowData
<1>2. <<q, rloc[q].n, i>> \notin {Empty, ToolError, Refused}
  <2>1. ResTypeOK /\ InHand  BY DEF ResIInv
  <2>2. rloc[q].n \in Nat /\ i \in {1, 2}  BY <2>1, Hand
  <2>3. <<q, rloc[q].n, i>> \in AnyTurn \X Nat \X Nat  BY <2>2
  <2> QED  BY <2>3, ResAssumption
<1> DEFINE name == <<q, rloc[q].n, i>>
<1>3. out \in Returns(q, i, cached)  OBVIOUS
<1>4. CASE rloc[q].calls[i] = "chart"
  <2>1. out \in {ToolError, Empty, cached}
    BY <1>3, <1>4 DEF Returns, GenerateChart, FillChart, ToolkitChart
  <2> QED  BY <1>1, <1>4, <2>1 DEF Caches, IsRun, HasSql
<1>5. CASE rloc[q].calls[i] = "no query"
  <2>1. out \in {ToolError, Refused}  BY <1>3, <1>5 DEF Returns
  <2> QED  BY <1>1, <1>5, <2>1 DEF Caches, IsRun, HasSql
<1>6. CASE rloc[q].calls[i] \in {"query", "chart query"}
  <2>1. out \in {name, ToolError, Refused}  BY <1>3, <1>6 DEF Returns, ExecuteSql
  <2>2. HasSql(rloc[q].calls[i])  BY <1>6 DEF HasSql
  <2>3. name \in RowData /\ name \notin {Empty, ToolError, Refused}  BY <1>1, <1>2
  <2> HIDE DEF name
  <2>4. IsRows(out) <=> out = name  BY <2>1, <2>3 DEF IsRows
  <2>5. out \in RowData \cup {ToolError} /\ (IF Caches(q, i, out) THEN out ELSE cached) \in RowData
    BY <1>1, <2>1, <2>3, <2>4 DEF Caches
  <2>6. out \notin {ToolError, Refused} => out = <<q, rloc[q].n, i>>  BY <2>1 DEF name
  <2>7. q \in ResTurn /\ rloc[q].calls[i] = "chart query" /\ out # Refused =>
          out = ToolError \/ Caches(q, i, out)
    BY <2>1, <2>4 DEF Caches, HasContext
  <2> QED  BY <1>6, <2>2, <2>5, <2>6, <2>7 DEF Caches
<1> QED  BY <1>1, <1>4, <1>5, <1>6 DEF Kind

LEMMA ExecuteStep == ASSUME ResIInv, NEW q \in AnyTurn, Execute(q) PROVE ResIInv'
<1> DEFINE n == Len(rloc[q].calls)
           new(outs, cached) == [rloc[q] EXCEPT !.outs = outs, !.cached = cached]
<1>1. /\ rloc[q] \in RLocal /\ TurnOK(q, results, rloc[q], "tools", regular)
      /\ asked \in Nat /\ rpc[q] = "tools" /\ rloc \in [AnyTurn -> RLocal]
      /\ UNCHANGED <<results, asked, outcome>> /\ RGoto(q, "store")
      /\ rloc[q].n \in 0..asked /\ n \in {1, 2} /\ DOMAIN rloc[q].calls = 1..n
  BY Known, Hand DEF Execute, Globals
<1>2. asked' \in Nat /\ asked <= asked' /\ asked' <= MaxToolCalls /\ rloc[q].n \in 0..asked'
  <2>1. asked' = asked /\ asked \in 0..MaxToolCalls /\ MaxToolCalls \in Nat
    BY <1>1, Known DEF Globals
  <2> QED  BY <1>1, <2>1
<1>3. rloc[q].cached \in RowData  BY <1>1 DEF RLocal
<1>4. ASSUME NEW outs \in Seq(RowData \cup {ToolError}), NEW cached \in RowData
      PROVE  /\ new(outs, cached) \in RLocal
             /\ new(outs, cached).n = rloc[q].n /\ new(outs, cached).calls = rloc[q].calls
             /\ new(outs, cached).outs = outs /\ new(outs, cached).cached = cached
             /\ new(outs, cached).lastRun = rloc[q].lastRun
             /\ [rloc EXCEPT ![q].outs = outs, ![q].cached = cached]
                  = [rloc EXCEPT ![q] = new(outs, cached)]
  BY <1>1 DEF RLocal
<1> HIDE DEF new
(* Whatever was returned, the turn is as it should be, ...                 *)
<1>5. ASSUME NEW outs \in Seq(RowData \cup {ToolError}), NEW cached \in RowData, Len(outs) = n,
             \A i \in 1..n : IsRun(rloc[q].calls[i]) /\ outs[i] \notin {ToolError, Refused} =>
               HasSql(rloc[q].calls[i]) /\ outs[i] = <<q, rloc[q].n, i>>,
             NEW reg, q \in reg \cap ResTurn => CacheOK(results, new(outs, cached), "store")
      PROVE  TurnOK(q, results, new(outs, cached), "store", reg)
  <2>1. HandOK(new(outs, cached), "store")  BY <1>1, <1>4, <1>5 DEF HandOK
  <2>2. SqlOK(q, results, new(outs, cached), "store")
    <3>1. \A i \in 1..n : HasSql(rloc[q].calls[i]) => SqlOf(results, q, <<q, rloc[q].n, i>>, Len(results))
      BY <1>1 DEF TurnOK, SqlOK
    <3>2. PICK l : l = new(outs, cached)  OBVIOUS
    <3>3. l.calls = rloc[q].calls /\ l.n = rloc[q].n /\ l.outs = outs /\ DOMAIN l.calls = 1..n
      BY <1>1, <1>4, <3>2
    <3>4. \A i \in 1..n : HasSql(l.calls[i]) => SqlOf(results, q, <<q, l.n, i>>, Len(results))
      BY <3>1, <3>3
    <3>5. \A i \in 1..n : IsRun(l.calls[i]) /\ l.outs[i] \notin {ToolError, Refused} =>
            HasSql(l.calls[i]) /\ l.outs[i] = <<q, l.n, i>>
      BY <1>5, <3>3
    <3>6. SqlOK(q, results, l, "store")  BY <3>3, <3>4, <3>5 DEF SqlOK
    <3> QED  BY <3>2, <3>6
  <2>3. /\ rloc[q].lastRun \in 0..Len(results)
        /\ rloc[q].lastRun = 0 \/ results[rloc[q].lastRun].type = RunResult
    BY <1>1 DEF TurnOK
  <2> QED  BY <1>4, <1>5, <2>1, <2>2, <2>3 DEF TurnOK
(* ... and takes its step.                                                 *)
<1>6. ASSUME NEW outs \in Seq(RowData \cup {ToolError}), NEW cached \in RowData,
             rloc' = [rloc EXCEPT ![q].outs = outs, ![q].cached = cached],
             NEW reg, regular' = reg, reg \subseteq regular,
             TurnOK(q, results, new(outs, cached), "store", reg)
      PROVE  ResIInv'
  <2>1. rloc' = [rloc EXCEPT ![q] = new(outs, cached)] /\ new(outs, cached).n \in 0..asked'
    BY <1>2, <1>4, <1>6
  <2> QED  BY <1>1, <1>2, <1>6, <2>1, TurnStepsAlone
<1>7. PICK first \in 1..n : \E out1 \in Returns(q, first, rloc[q].cached) :
        LET cached1 == IF Caches(q, first, out1) THEN out1 ELSE rloc[q].cached
            second == n + 1 - first IN
        IF n = 1
          THEN /\ rloc' = [rloc EXCEPT ![q].outs = <<out1>>, ![q].cached = cached1]
               /\ regular' = IF out1 = Refused THEN regular \ {q} ELSE regular
          ELSE \E out2 \in Returns(q, second, cached1) :
               /\ rloc' = [rloc EXCEPT
                    ![q].outs = [i \in 1..2 |-> IF i = first THEN out1 ELSE out2],
                    ![q].cached = IF Caches(q, second, out2) THEN out2 ELSE cached1]
               /\ UNCHANGED regular
  BY DEF Execute
<1> DEFINE cached(out1) == IF Caches(q, first, out1) THEN out1 ELSE rloc[q].cached
           second == n + 1 - first
<1>8. PICK out1 \in Returns(q, first, rloc[q].cached) :
        IF n = 1
          THEN /\ rloc' = [rloc EXCEPT ![q].outs = <<out1>>, ![q].cached = cached(out1)]
               /\ regular' = IF out1 = Refused THEN regular \ {q} ELSE regular
          ELSE \E out2 \in Returns(q, second, cached(out1)) :
               /\ rloc' = [rloc EXCEPT
                    ![q].outs = [i \in 1..2 |-> IF i = first THEN out1 ELSE out2],
                    ![q].cached = IF Caches(q, second, out2) THEN out2 ELSE cached(out1)]
               /\ UNCHANGED regular
  BY <1>7
<1>9. first \in DOMAIN rloc[q].calls  BY <1>1
<1>10. /\ out1 \in RowData \cup {ToolError} /\ cached(out1) \in RowData
       /\ IsRun(rloc[q].calls[first]) /\ out1 \notin {ToolError, Refused} =>
            HasSql(rloc[q].calls[first]) /\ out1 = <<q, rloc[q].n, first>>
  BY <1>1, <1>3, <1>9, Returned
<1>11. CASE n = 1
  <2> DEFINE outs == <<out1>>
             reg == IF out1 = Refused THEN regular \ {q} ELSE regular
             l == new(outs, cached(out1))
  <2>1. rloc' = [rloc EXCEPT ![q].outs = outs, ![q].cached = cached(out1)] /\ regular' = reg
    BY <1>8, <1>11
  <2>2. outs \in Seq(RowData \cup {ToolError}) /\ Len(outs) = n /\ first = 1 /\ outs[1] = out1
    BY <1>10, <1>11
  <2>3. \A i \in 1..n : i = first  BY <1>11
  <2>4. ASSUME q \in reg \cap ResTurn
        PROVE  CacheOK(results, l, "store")
    <3>1. q \in regular /\ out1 # Refused /\ q \in ResTurn  BY <2>4
    <3>2. n = 1 /\ rloc[q].calls[1] # "query" /\ Tied(rloc[q], results)
      BY <1>1, <3>1 DEF TurnOK, CacheOK
    <3>3. /\ l.calls = rloc[q].calls /\ l.outs = outs /\ l.cached = cached(out1)
          /\ l.lastRun = rloc[q].lastRun
      BY <1>4, <1>10, <2>2
    <3>4. rloc[q].calls[1] \in Kind  BY <1>9, <2>2, <1>1, Known, Hand
    <3>5. /\ rloc[q].calls[1] = "chart" => out1 \in {ToolError, Empty, rloc[q].cached}
          /\ rloc[q].calls[1] = "no query" => out1 \in {ToolError, Refused}
          /\ Caches(q, 1, out1) => rloc[q].calls[1] = "chart query"
          /\ rloc[q].calls[1] = "chart query" => out1 = ToolError \/ Caches(q, 1, out1)
      <4>1. /\ rloc[q].calls[first] = "chart" => out1 \in {ToolError, Empty, rloc[q].cached}
            /\ rloc[q].calls[first] = "no query" => out1 \in {ToolError, Refused}
            /\ Caches(q, first, out1) => rloc[q].calls[first] = "chart query"
            /\ q \in ResTurn /\ rloc[q].calls[first] = "chart query" /\ out1 # Refused =>
                 out1 = ToolError \/ Caches(q, first, out1)
        BY <1>1, <1>3, <1>9, Returned
      <4> QED  BY <2>2, <3>1, <4>1
    <3>6. out1 = ToolError => ~ Caches(q, 1, out1)  BY DEF Caches, IsRows
    <3>7. cached(out1) = IF Caches(q, 1, out1) THEN out1 ELSE rloc[q].cached  BY <2>2
    <3> HIDE DEF l, cached, outs
    <3>8. ~ Caches(q, 1, out1) => Tied(l, results)  BY <3>2, <3>3, <3>7 DEF Tied
    <3>9. Tied(l, results) \/ l.calls[1] = "chart query"  BY <3>3, <3>5, <3>8
    <3>10. Len(l.calls) = 1 /\ l.calls[1] # "query"  BY <3>2, <3>3
    <3>11. l.calls[1] = "chart query" => \/ l.outs[1] = l.cached /\ l.outs[1] # ToolError
                                         \/ l.outs[1] = ToolError /\ Tied(l, results)
      BY <2>2, <3>3, <3>5, <3>6, <3>7, <3>8
    <3>12. l.calls[1] = "chart" => l.outs[1] \in {ToolError, Empty, l.cached}
      BY <2>2, <3>3, <3>5, <3>7
    <3>13. l.calls[1] \notin {"chart query", "chart"} => l.outs[1] = ToolError
      BY <2>2, <3>1, <3>2, <3>3, <3>4, <3>5 DEF Kind
    <3> QED  BY <3>9, <3>10, <3>11, <3>12, <3>13 DEF CacheOK
  <2> HIDE DEF outs, reg, l, cached
  <2>5. TurnOK(q, results, l, "store", reg)
    BY <1>5, <1>10, <2>2, <2>3, <2>4 DEF l
  <2>6. reg \subseteq regular  BY DEF reg
  <2> QED  BY <1>6, <1>10, <2>1, <2>2, <2>5, <2>6 DEF l
<1>12. CASE n # 1
  <2>1. n = 2 /\ first \in {1, 2} /\ second \in {1, 2} /\ second # first
    <3>1. n = 2  BY <1>1, <1>12
    <3>2. first \in 1..2  BY <3>1
    <3> HIDE DEF n
    <3> QED  BY <3>1, <3>2
  <2>2. PICK out2 \in Returns(q, second, cached(out1)) :
          /\ rloc' = [rloc EXCEPT
               ![q].outs = [i \in 1..2 |-> IF i = first THEN out1 ELSE out2],
               ![q].cached = IF Caches(q, second, out2) THEN out2 ELSE cached(out1)]
          /\ UNCHANGED regular
    BY <1>8, <1>12
  <2> DEFINE outs == [i \in 1..2 |-> IF i = first THEN out1 ELSE out2]
             cached2 == IF Caches(q, second, out2) THEN out2 ELSE cached(out1)
  <2>3. second \in DOMAIN rloc[q].calls  BY <1>1, <2>1
  <2>4. /\ out2 \in RowData \cup {ToolError} /\ cached2 \in RowData
        /\ IsRun(rloc[q].calls[second]) /\ out2 \notin {ToolError, Refused} =>
             HasSql(rloc[q].calls[second]) /\ out2 = <<q, rloc[q].n, second>>
    <3>1. PICK c : c = cached(out1)  OBVIOUS
    <3>2. c \in RowData /\ out2 \in Returns(q, second, c)  BY <1>10, <3>1
    <3> HIDE DEF cached, second
    <3>3. /\ out2 \in RowData \cup {ToolError}
          /\ (IF Caches(q, second, out2) THEN out2 ELSE c) \in RowData
          /\ IsRun(rloc[q].calls[second]) /\ out2 \notin {ToolError, Refused} =>
               HasSql(rloc[q].calls[second]) /\ out2 = <<q, rloc[q].n, second>>
      BY <1>1, <2>3, <3>2, Returned
    <3> QED  BY <3>1, <3>3
  <2> HIDE DEF second, cached, cached2
  <2>5. outs \in Seq(RowData \cup {ToolError}) /\ Len(outs) = n
    <3>1. outs \in [1..2 -> RowData \cup {ToolError}]  BY <1>10, <2>4
    <3> QED  BY <2>1, <3>1
  <2>6. outs[first] = out1 /\ outs[second] = out2  BY <2>1
  <2>7. \A i \in 1..n : i = first \/ i = second  BY <2>1
  <2>8. q \notin regular \cap ResTurn  BY <1>1, <2>1 DEF TurnOK, CacheOK
  <2> HIDE DEF outs
  <2>9. TurnOK(q, results, new(outs, cached2), "store", regular)
    BY <1>5, <1>10, <2>4, <2>5, <2>6, <2>7, <2>8
  <2> QED  BY <1>6, <2>2, <2>4, <2>5, <2>9 DEF outs, cached2
<1> QED  BY <1>11, <1>12

(* The rows of outputs: where they stand, and what they are.               *)
Extended(q, m) == results \o Outputs(q, m)
LEMMA Stored ==
    ASSUME ResIInv, NEW q \in AnyTurn, rpc[q] = "store", NEW m \in 0..Len(rloc[q].calls)
    PROVE  LET t == Extended(q, m) IN
           /\ Outputs(q, m) \in Seq(TableRow) /\ t \in Seq(TableRow)
           /\ Len(t) = Len(results) + Len(Outputs(q, m)) /\ Len(Outputs(q, m)) \in Nat
           /\ \A k \in 1..Len(results) : t[k] = results[k]
           /\ \A i \in Kept(q, m) :
                /\ Place(Kept(q, m), i) \in (Len(results) + 1)..Len(t)
                /\ t[Place(Kept(q, m), i)] = OutputRow(q, Kept(q, m), i)
           /\ \A p \in 1..Len(Outputs(q, m)) : \E i \in Kept(q, m) :
                Place(Kept(q, m), i) = Len(results) + p
           /\ \A i \in Kept(q, m) :
                /\ i \in DOMAIN rloc[q].calls /\ i \in {1, 2}
                /\ rloc[q].outs[i] \in RowData /\ rloc[q].outs[i] # ToolError
                /\ OutputRow(q, Kept(q, m), i).turn = q
                /\ OutputRow(q, Kept(q, m), i).data = rloc[q].outs[i]
                /\ OutputRow(q, Kept(q, m), i).type = IF IsRun(rloc[q].calls[i]) THEN RunResult ELSE Chart
                /\ OutputRow(q, Kept(q, m), i).link =
                     IF q \in SyncTurn \/ IsRun(rloc[q].calls[i]) THEN 0 ELSE LastRun(q, Kept(q, m), i)
<1>1. /\ ResTypeOK /\ InHand /\ results \in Seq(TableRow) /\ Len(results) \in Nat
      /\ rloc[q] \in RLocal /\ TurnOK(q, results, rloc[q], "store", regular)
  BY Known
<1> DEFINE n == Len(results)
           S == Kept(q, m)
           rows == Outputs(q, m)
           t == Extended(q, m)
<1>2. /\ Len(rows) = Cardinality(S) /\ Cardinality(S) \in Nat
      /\ \A i \in S : Place(S, i) - n \in 1..Len(rows) /\ rows[Place(S, i) - n] = OutputRow(q, S, i)
      /\ \A i, h \in S : h < i => Place(S, h) < Place(S, i)
      /\ \A p \in 1..Len(rows) : \E i \in S : Place(S, i) = n + p /\ rows[p] = OutputRow(q, S, i)
  BY <1>1, OutputsAre
<1>3. \A i : Place(S, i) = n + Cardinality({j \in S : j <= i})  BY DEF Place
<1>4. \A i \in S : /\ i \in DOMAIN rloc[q].calls /\ i \in {1, 2} /\ i \in 1..Len(rloc[q].outs)
                   /\ rloc[q].outs[i] # ToolError
  <2>1. /\ Len(rloc[q].calls) \in {1, 2} /\ DOMAIN rloc[q].calls = 1..Len(rloc[q].calls)
        /\ Len(rloc[q].outs) = Len(rloc[q].calls)
    BY <1>1, Hand DEF TurnOK, HandOK
  <2>2. m \in {0, 1, 2} /\ m <= Len(rloc[q].calls)  BY <2>1, UpTo
  <2> QED  BY <2>1, <2>2 DEF Kept
<1>5. \A i \in S : rloc[q].outs[i] \in RowData
  <2>1. rloc[q].outs \in Seq(RowData \cup {ToolError})  BY <1>1 DEF RLocal
  <2> QED  BY <1>4, <2>1
<1>6. \A i \in S : /\ OutputRow(q, S, i).turn = q /\ OutputRow(q, S, i).data = rloc[q].outs[i]
                   /\ OutputRow(q, S, i).type = IF IsRun(rloc[q].calls[i]) THEN RunResult ELSE Chart
                   /\ OutputRow(q, S, i).link =
                        IF q \in SyncTurn \/ IsRun(rloc[q].calls[i]) THEN 0 ELSE LastRun(q, S, i)
  <2> SUFFICES ASSUME NEW i \in S
               PROVE  /\ OutputRow(q, S, i).turn = q /\ OutputRow(q, S, i).data = rloc[q].outs[i]
                      /\ OutputRow(q, S, i).type = IF IsRun(rloc[q].calls[i]) THEN RunResult ELSE Chart
                      /\ OutputRow(q, S, i).link =
                           IF q \in SyncTurn \/ IsRun(rloc[q].calls[i]) THEN 0 ELSE LastRun(q, S, i)
    OBVIOUS
  <2> HIDE DEF S
  <2> QED  BY DEF OutputRow, SyncRow, ResultRow
<1> HIDE DEF S, rows, n, t
<1>7. n \in Nat  BY <1>1 DEF n
<1>8. \A j \in S : Place(S, j) \in Nat
  <2> DEFINE rank(i) == Cardinality({j \in S : j <= i})
  <2>1. \A j \in S : rank(j) \in Nat
    <3>1. Len(rloc[q].calls) \in {1, 2}  BY <1>1, Hand
    <3>2. m \in {0, 1, 2} /\ S \subseteq 1..m  BY <3>1, UpTo DEF Kept, S
    <3>3. S \in {{}, {1}, {2}, {1, 2}}  BY <3>2, FewSubsets
    <3>4. Cardinality(S) \in {0, 1, 2} /\ \A i \in S : Cardinality({j \in S : j <= i}) \in 1..Cardinality(S)
      BY <3>3, Ranks
    <3>5. \A i \in S : rank(i) \in 1..Cardinality(S)  BY <3>4
    <3> HIDE DEF rank
    <3> QED  BY <3>4, <3>5
  <2>2. \A j : Place(S, j) = n + rank(j)  BY <1>3
  <2> HIDE DEF rank
  <2> QED  BY <2>2, <1>7, <2>1
<1>9. \A i \in S : LastRun(q, S, i) \in Nat
  <2> SUFFICES ASSUME NEW i \in S PROVE LastRun(q, S, i) \in Nat  OBVIOUS
  <2>1. i \in 1..3  BY <1>4
  <2>2. \/ LastRun(q, S, i) = rloc[q].lastRun
        \/ \E j \in S : LastRun(q, S, i) = Place(S, j)
    BY <1>1, <2>1, LastRunIs DEF S
  <2>3. rloc[q].lastRun \in Nat  BY <1>1 DEF RLocal
  <2> QED  BY <1>8, <2>2, <2>3
<1>10. \A i \in S : OutputRow(q, S, i) \in TableRow
  <2> SUFFICES ASSUME NEW i \in S PROVE OutputRow(q, S, i) \in TableRow  OBVIOUS
  <2>1. q \in AnyTurn /\ rloc[q].outs[i] \in RowData /\ LastRun(q, S, i) \in Nat  BY <1>5, <1>9
  <2> QED  BY <2>1 DEF OutputRow, SyncRow, ResultRow, TableRow, RunResult, Chart, SqlString
<1>11. rows \in Seq(TableRow)
  <2>1. rows = [p \in 1..Cardinality(S) |-> rows[p]]  BY DEF rows, Outputs, S
  <2>2. \A p \in 1..Cardinality(S) : rows[p] \in TableRow  BY <1>2, <1>10
  <2>3. rows \in [1..Cardinality(S) -> TableRow]  BY <2>1, <2>2
  <2> QED  BY <1>2, <2>3
<1>12. /\ t \in Seq(TableRow) /\ Len(t) = n + Len(rows) /\ Len(rows) \in Nat
       /\ \A k \in 1..n : t[k] = results[k]
       /\ \A p \in 1..Len(rows) : t[n + p] = rows[p]
  <2>1. t = results \o rows /\ n = Len(results)  BY DEF rows, n, t, Extended
  <2> QED  BY <1>1, <1>2, <1>11, <2>1, Inserted
<1>13. ASSUME NEW i \in S
       PROVE  Place(S, i) \in (n + 1)..Len(t) /\ t[Place(S, i)] = OutputRow(q, S, i)
  <2>1. PICK p \in 1..Len(rows) : p = Place(S, i) - n  BY <1>2
  <2>2. n + p = Place(S, i) /\ Place(S, i) \in (n + 1)..Len(t)  BY <1>7, <1>8, <1>12, <2>1
  <2> QED  BY <1>2, <1>12, <2>1, <2>2
<1> QED  BY <1>2, <1>4, <1>5, <1>6, <1>11, <1>12, <1>13 DEF S, rows, n, t

LEMMA StoreOutputStep == ASSUME ResIInv, NEW q \in AnyTurn, StoreOutput(q) PROVE ResIInv'
<1> DEFINE l == rloc[q]
<1>1. PICK m \in 0..Len(l.calls) :
        /\ results' = results \o Outputs(q, m)
        /\ RGoto(q, IF m = Len(l.calls) THEN "llm" ELSE "done")
        /\ rloc' = [rloc EXCEPT ![q] =
             IF m = Len(l.calls)
               THEN [@ EXCEPT !.lastRun = LastRun(q, Kept(q, m), Len(l.calls) + 1), !.calls = <<>>, !.outs = <<>>]
               ELSE NoRLocal]
  BY DEF StoreOutput, Outputs
<1>2. /\ Globals /\ ResTypeOK /\ InHand /\ rpc[q] = "store" /\ asked \in Nat
      /\ results \in Seq(TableRow) /\ Len(results) \in Nat
      /\ l \in RLocal /\ TurnOK(q, results, l, "store", regular) /\ UNCHANGED <<asked, outcome, regular>>
  BY Known DEF StoreOutput
<1>3. asked' \in Nat /\ asked <= asked' /\ asked' <= MaxToolCalls /\ rloc[q].n \in 0..asked'
  <2>1. asked' = asked /\ asked \in 0..MaxToolCalls /\ MaxToolCalls \in Nat /\ rloc[q].n \in 0..asked
    BY <1>2, Known DEF Globals
  <2> QED  BY <1>2, <2>1
<1> DEFINE S == Kept(q, m)
           rows == Outputs(q, m)
           t == Extended(q, m)
<1>4. /\ rows \in Seq(TableRow) /\ t \in Seq(TableRow)
      /\ Len(t) = Len(results) + Len(rows) /\ Len(rows) \in Nat
      /\ \A k \in 1..Len(results) : t[k] = results[k]
  BY <1>2, Stored
<1>5. \A i \in S : /\ Place(S, i) \in (Len(results) + 1)..Len(t)
                   /\ t[Place(S, i)] = OutputRow(q, S, i)
  BY <1>2, Stored
<1>6. \A p \in 1..Len(rows) : \E i \in S : Place(S, i) = Len(results) + p
  BY <1>2, Stored
<1>7. \A i \in S :
        /\ i \in DOMAIN l.calls /\ i \in {1, 2} /\ l.outs[i] \in RowData /\ l.outs[i] # ToolError
        /\ t[Place(S, i)].turn = q /\ t[Place(S, i)].data = l.outs[i]
        /\ t[Place(S, i)].type = IF IsRun(l.calls[i]) THEN RunResult ELSE Chart
        /\ t[Place(S, i)].link = IF q \in SyncTurn \/ IsRun(l.calls[i]) THEN 0 ELSE LastRun(q, S, i)
  BY <1>2, <1>5, Stored
<1>8. \A i \in 1..3 :
        \/ LastRun(q, S, i) = l.lastRun /\ \A j \in S : j < i => ~ IsRun(l.calls[j])
        \/ \E j \in S : j < i /\ IsRun(l.calls[j]) /\ LastRun(q, S, i) = Place(S, j)
  BY <1>2, LastRunIs
<1>9. \A i, h \in S : h < i => Place(S, h) < Place(S, i)  BY <1>2, OutputsAre
<1>10. results' = t /\ t = results \o rows  BY <1>1 DEF Extended
<1>11. Len(l.calls) \in {1, 2} /\ Len(l.calls) + 1 \in 1..3
  <2>1. Len(l.calls) \in {1, 2}  BY <1>2, Hand
  <2>2. \A n \in {1, 2} : n + 1 \in 1..3  OBVIOUS
  <2> QED  BY <2>1, <2>2
<1> HIDE DEF S, rows, t, l
<1>12. Same(results, t)  BY <1>2, <1>4 DEF Same
(* last_run_result_id names no row or one with a run result, anywhere in the message. *)
<1>13. ASSUME NEW i \in 1..3
       PROVE  /\ LastRun(q, S, i) \in 0..Len(t)
              /\ LastRun(q, S, i) = 0 \/ t[LastRun(q, S, i)].type = RunResult
  <2>1. CASE LastRun(q, S, i) = l.lastRun
    <3>1. l.lastRun \in 0..Len(results) /\ (l.lastRun = 0 \/ results[l.lastRun].type = RunResult)
      BY <1>2 DEF TurnOK
    <3> QED  BY <1>2, <1>4, <2>1, <3>1
  <2>2. CASE \E j \in S : IsRun(l.calls[j]) /\ LastRun(q, S, i) = Place(S, j)
    BY <1>2, <1>4, <1>5, <1>7, <2>2
  <2> QED  BY <1>8, <2>1, <2>2
(* In a regular turn there is one call, and it shows what it is linked to. *)
<1>14. q \in regular \cap ResTurn => CacheOK(results, l, "store")  BY <1>2 DEF TurnOK
<1>15. q \in ResTurn => q \notin SyncTurn  BY ResAssumption
<1>16. ASSUME NEW p \in 1..Len(rows) PROVE RowOK(t, Len(results) + p, regular)
  <2>1. PICK i \in S : Place(S, i) = Len(results) + p  BY <1>6
  <2> DEFINE k == Len(results) + p
  <2>2. /\ t[k].turn = q /\ t[k].data = l.outs[i]
        /\ t[k].type = IF IsRun(l.calls[i]) THEN RunResult ELSE Chart
        /\ t[k].link = IF q \in SyncTurn \/ IsRun(l.calls[i]) THEN 0 ELSE LastRun(q, S, i)
        /\ i \in DOMAIN l.calls /\ i \in 1..3 /\ l.outs[i] # ToolError
    BY <1>7, <2>1
  <2>3. k \in Nat /\ 0 < k /\ k <= Len(t) /\ k - 1 \in Nat /\ Len(results) <= k - 1
    BY <1>2, <1>4
  <2> HIDE DEF k
  <2>4. t[k].link < k /\ (t[k].link = 0 \/ (t[k].type = Chart /\ t[t[k].link].type = RunResult))
    <3>1. CASE q \in SyncTurn \/ IsRun(l.calls[i])  BY <2>2, <2>3, <3>1
    <3>2. CASE ~ (q \in SyncTurn \/ IsRun(l.calls[i]))
      <4>1. t[k].link = LastRun(q, S, i) /\ t[k].type = Chart  BY <2>2, <3>2
      <4>2. LastRun(q, S, i) = 0 \/ t[LastRun(q, S, i)].type = RunResult  BY <1>13, <2>2
      <4>3. LastRun(q, S, i) < k
        <5>1. CASE LastRun(q, S, i) = l.lastRun
          <6>1. l.lastRun \in 0..Len(results)  BY <1>2 DEF TurnOK
          <6> QED  BY <1>2, <2>3, <5>1, <6>1
        <5>2. CASE \E j \in S : j < i /\ LastRun(q, S, i) = Place(S, j)
          BY <1>9, <2>1, <5>2 DEF k
        <5> QED  BY <1>8, <2>2, <5>1, <5>2
      <4> QED  BY <4>1, <4>2, <4>3
    <3> QED  BY <3>1, <3>2
  <2>5. ASSUME t[k].type = RunResult, t[k].data # Refused
        PROVE  SqlOf(t, t[k].turn, t[k].data, k - 1)
    <3>1. IsRun(l.calls[i])  BY <2>2, <2>5 DEF RunResult, Chart
    <3>2. HasSql(l.calls[i]) /\ l.outs[i] = <<q, l.n, i>>
      BY <1>2, <2>2, <2>5, <3>1 DEF TurnOK, SqlOK
    <3>3. SqlOf(results, q, <<q, l.n, i>>, Len(results))
      BY <1>2, <2>2, <3>2 DEF TurnOK, SqlOK
    <3>4. Len(results) \in 0..Len(results) /\ Len(t) \in Nat  BY <1>2, <1>4
    <3>5. SqlOf(t, q, <<q, l.n, i>>, k - 1)  BY <1>2, <1>12, <2>3, <3>3, <3>4, SqlStays
    <3> QED  BY <2>2, <3>2, <3>5
  <2>6. ASSUME t[k].type = Chart, t[k].turn \in regular \cap ResTurn, t[k].data # Empty
        PROVE  t[k].link # 0 /\ t[t[k].link].data = t[k].data
    <3>1. q \in regular \cap ResTurn /\ q \notin SyncTurn /\ ~ IsRun(l.calls[i])
      BY <1>15, <2>2, <2>6 DEF RunResult, Chart
    <3>2. CacheOK(results, l, "store") /\ Len(l.calls) = 1
      BY <1>14, <3>1 DEF CacheOK
    <3>3. i = 1
      <4>1. DOMAIN l.calls = 1..Len(l.calls)  BY <1>2, Hand DEF l
      <4> QED  BY <2>2, <3>2, <4>1
    <3>4. l.calls[1] = "chart"
      <4>1. l.calls[1] \in Kind  BY <1>2, <2>2, <3>3, Hand DEF l
      <4> QED  BY <3>1, <3>3, <4>1 DEF Kind, IsRun, HasSql
    <3>5. l.outs[1] = l.cached /\ Tied(l, results) /\ l.cached # Empty
      BY <2>2, <2>6, <3>2, <3>3, <3>4 DEF CacheOK
    <3>6. l.lastRun \in 1..Len(results) /\ results[l.lastRun].data = l.cached
      <4>1. l.lastRun \in 0..Len(results)  BY <1>2 DEF TurnOK
      <4> QED  BY <1>2, <3>5, <4>1 DEF Tied
    <3>7. LastRun(q, S, i) = l.lastRun
      <4>1. \A j \in S : ~ (j < i)  BY <1>7, <3>3
      <4> QED  BY <1>8, <2>2, <4>1
    <3> QED  BY <1>2, <1>4, <2>2, <3>1, <3>3, <3>5, <3>6, <3>7
  <2>7. RowOK(t, k, regular)  BY <2>4, <2>5, <2>6 DEF RowOK
  <2> QED  BY <2>7 DEF k
<1>17. CASE m = Len(l.calls)
  <2> DEFINE last == LastRun(q, S, Len(l.calls) + 1)
             new == [l EXCEPT !.lastRun = last, !.calls = <<>>, !.outs = <<>>]
  <2>1. rloc' = [rloc EXCEPT ![q] = new]
    BY <1>1, <1>17 DEF l, S
  <2>2. /\ last \in 0..Len(t) /\ (last = 0 \/ t[last].type = RunResult) /\ last \in Nat
    BY <1>4, <1>11, <1>13
  <2> HIDE DEF last
  <2>3. /\ new \in RLocal /\ new.lastRun = last /\ new.calls = <<>> /\ new.n = l.n
        /\ new.cached = l.cached
    <3>1. <<>> \in Seq({"query", "chart query", "no query", "chart"}) /\ <<>> \in Seq(RowData \cup {ToolError})
      OBVIOUS
    <3> QED  BY <1>2, <2>2, <3>1 DEF RLocal
  <2> HIDE DEF new
  <2>4. ASSUME q \in regular \cap ResTurn PROVE Tied(new, t)
    <3>1. CacheOK(results, l, "store") /\ Len(l.calls) = 1 /\ l.calls[1] # "query"
      BY <1>14, <2>4 DEF CacheOK
    <3>2. 1 \in DOMAIN l.calls /\ l.calls[1] \in Kind
      BY <1>2, <3>1, Hand DEF l
    <3>3. \A j \in S : j = 1
      <4>1. DOMAIN l.calls = 1..Len(l.calls)  BY <1>2, Hand DEF l
      <4> QED  BY <1>7, <3>1, <4>1
    <3>4. ASSUME Tied(l, results), last = l.lastRun PROVE Tied(new, t)
      <4>1. l.lastRun \in 0..Len(results)  BY <1>2 DEF TurnOK
      <4> QED  BY <1>2, <1>4, <2>3, <3>4, <4>1 DEF Tied
    <3>5. \/ last = l.lastRun /\ \A j \in S : j < 2 => ~ IsRun(l.calls[j])
          \/ \E j \in S : IsRun(l.calls[j]) /\ last = Place(S, j)
      <4>1. Len(l.calls) + 1 = 2  BY <3>1
      <4> QED  BY <1>8, <1>11, <4>1 DEF last
    <3>6. CASE l.calls[1] = "chart query" /\ l.outs[1] # ToolError
      <4>1. l.outs[1] = l.cached  BY <3>1, <3>6 DEF CacheOK
      <4>2. 1 \in S
        <5>1. m = 1  BY <1>17, <3>1
        <5>2. 1 \in 1..m  BY <5>1
        <5>3. rloc[q].outs[1] # ToolError  BY <3>6 DEF l
        <5> QED  BY <5>2, <5>3 DEF S, Kept
      <4>3. IsRun(l.calls[1])  BY <3>6 DEF IsRun, HasSql
      <4>4. last = Place(S, 1)  BY <3>3, <3>5, <4>2, <4>3
      <4>5. t[last].data = l.cached /\ last # 0  BY <1>2, <1>5, <1>7, <4>1, <4>2, <4>4
      <4> QED  BY <2>3, <4>5 DEF Tied
    <3>7. CASE l.outs[1] = ToolError
      <4>1. Tied(l, results)
        BY <3>1, <3>7 DEF CacheOK
      <4>2. S = {}  BY <1>7, <3>3, <3>7
      <4> QED  BY <3>4, <3>5, <4>1, <4>2
    <3>8. CASE l.calls[1] = "chart"
      <4>1. Tied(l, results)  BY <3>1, <3>8 DEF CacheOK
      <4>2. ~ IsRun(l.calls[1])  BY <3>8 DEF IsRun, HasSql
      <4> QED  BY <3>3, <3>4, <3>5, <4>1, <4>2
    <3>9. CASE l.calls[1] = "no query"  BY <3>1, <3>7, <3>9 DEF CacheOK
    <3> QED  BY <3>1, <3>2, <3>6, <3>7, <3>8, <3>9 DEF Kind
  <2>5. TurnOK(q, t, new, "llm", regular)
    <3>1. q \in regular \cap ResTurn => CacheOK(t, new, "llm")  BY <2>4 DEF CacheOK
    <3>2. SqlOK(q, t, new, "llm") /\ HandOK(new, "llm")  BY DEF SqlOK, HandOK
    <3> QED  BY <2>2, <2>3, <3>1, <3>2 DEF TurnOK
  <2>6. RGoto(q, "llm") /\ new.n \in 0..asked'  BY <1>1, <1>3, <1>17, <2>3 DEF l
  <2> QED  BY <1>2, <1>3, <1>4, <1>10, <1>16, <2>1, <2>5, <2>6, TurnStep DEF t
<1>18. CASE m # Len(l.calls)
  <2>1. TurnOK(q, t, NoRLocal, "done", regular)  BY <1>4, Ended
  <2>2. NoRLocal.n \in 0..asked'  BY <1>3 DEF NoRLocal
  <2>3. RGoto(q, "done") /\ rloc' = [rloc EXCEPT ![q] = NoRLocal]  BY <1>1, <1>18 DEF l
  <2> QED  BY <1>2, <1>3, <1>4, <1>10, <1>16, <2>1, <2>2, <2>3, TurnStep DEF t
<1> QED  BY <1>17, <1>18

-----------------------------------------------------------------------------
(* The requests, the initial state and the theorems *)

LEMMA Nothing == \A n \in Nat : (n + 1)..n = {}
OBVIOUS

LEMMA Table ==
    ASSUME ResIInv
    PROVE  results \in Seq(TableRow) /\ Len(results) \in Nat /\ DOMAIN results = 1..Len(results)
<1>1. results \in Seq(TableRow)  BY Split DEF Globals
<1> QED  BY <1>1

LEMMA RequestStep ==
    ASSUME ResIInv, NEW p \in ResRequest, RGoto(p, "done"), UNCHANGED <<asked, rloc, regular>>,
           results' \in Seq(TableRow), Len(results') = Len(results), Same(results, results'),
           outcome' \in [ResRequest -> {"none", "saved", "no link", "not found", "refreshed", "failed"}]
    PROVE  ResIInv'
<1>1. Globals /\ p \notin AnyTurn /\ Len(results) \in Nat
  <2>1. Globals /\ Len(results) \in Nat  BY Split, Table
  <2>2. p \notin AnyTurn  BY ResAssumption
  <2> QED  BY <2>1, <2>2
<1>2. /\ rpc' \in [AnyTurn \cup ResRequest -> {"llm", "agent", "tools", "store", "idle", "done"}]
      /\ \A h \in (AnyTurn \cup ResRequest) \ {p} : rpc'[h] = rpc[h]
  BY <1>1 DEF Globals, RGoto
<1>3. Globals'  BY <1>1, <1>2 DEF Globals
<1>4. (Len(results) + 1)..Len(results') = {}  BY <1>1, Nothing
<1> QED  BY <1>1, <1>2, <1>3, <1>4, Locally

LEMMA Outcomes ==
    ASSUME ResIInv, NEW p \in ResRequest,
           NEW o \in {"none", "saved", "no link", "not found", "refreshed", "failed"}
    PROVE  [outcome EXCEPT ![p] = o]
             \in [ResRequest -> {"none", "saved", "no link", "not found", "refreshed", "failed"}]
<1>1. outcome \in [ResRequest -> {"none", "saved", "no link", "not found", "refreshed", "failed"}]
  BY Split DEF Globals
<1> QED  BY <1>1

(* No run result is linked to anything, so an edit finds no chart.         *)
LEMMA NoRunIsLinked ==
    ASSUME ResIInv, NEW k \in DOMAIN results
    PROVE  Linked(k, RunResult) = {{}}
<1>1. results \in Seq(TableRow) /\ DOMAIN results = 1..Len(results)  BY Table
<1>2. ASSUME NEW j \in DOMAIN results, results[j].type = RunResult PROVE results[j].link # k
  <2>1. RowOK(results, j, regular)  BY <1>1, Split
  <2>2. results[j].link = 0  BY <1>2, <2>1 DEF RowOK, RunResult, Chart
  <2>3. k # 0  BY <1>1
  <2> QED  BY <2>2, <2>3
<1>3. {j \in DOMAIN results : results[j].type = RunResult /\ results[j].link = k} = {}  BY <1>2
<1> QED  BY <1>3 DEF Linked

LEMMA EditSqlStep == ASSUME ResIInv, NEW p \in ResRequest, EditSql(p) PROVE ResIInv'
<1> DEFINE edited(k, charts) ==
             [j \in DOMAIN results |->
                IF j \in {k} \cup charts THEN [results[j] EXCEPT !.data = <<p, 0, 0>>] ELSE results[j]]
<1>1. PICK k \in DOMAIN results :
        /\ results[k].type = SqlString
        /\ \E runs \in Linked(k, RunResult) :
             \E charts \in UNION {Linked(j, Chart) : j \in runs} \cup {{}} :
                /\ results' = edited(k, charts)
                /\ outcome' = [outcome EXCEPT ![p] = IF charts = {} THEN "saved" ELSE "refreshed"]
  BY DEF EditSql
<1>2. Linked(k, RunResult) = {{}}  BY NoRunIsLinked
<1>3. results' = edited(k, {}) /\ outcome' = [outcome EXCEPT ![p] = "saved"]
  <2>1. \E charts \in UNION {Linked(j, Chart) : j \in {}} \cup {{}} :
          /\ results' = edited(k, charts)
          /\ outcome' = [outcome EXCEPT ![p] = IF charts = {} THEN "saved" ELSE "refreshed"]
    BY <1>1, <1>2, Zenon
  <2>2. UNION {Linked(j, Chart) : j \in {}} = {}  OBVIOUS
  <2> QED  BY <2>1, <2>2, Zenon
<1> HIDE DEF edited
<1>4. results \in Seq(TableRow) /\ Len(results) \in Nat /\ DOMAIN results = 1..Len(results)  BY Table
<1>5. <<p, 0, 0>> \in RowData /\ <<p, 0, 0>>[1] \in ResRequest
  <2>1. 0 \in 0..MaxToolCalls  BY ResAssumption
  <2> QED  BY <2>1 DEF RowData, RowName
<1>6. \A j \in 1..Len(results) :
        /\ edited(k, {})[j] \in TableRow
        /\ edited(k, {})[j].type = results[j].type /\ edited(k, {})[j].turn = results[j].turn
        /\ edited(k, {})[j].link = results[j].link
        /\ edited(k, {})[j].data = results[j].data
           \/ (results[j].type = SqlString /\ edited(k, {})[j].data[1] \in ResRequest)
  <2> SUFFICES ASSUME NEW j \in 1..Len(results)
               PROVE  /\ edited(k, {})[j] \in TableRow
                      /\ edited(k, {})[j].type = results[j].type /\ edited(k, {})[j].turn = results[j].turn
                      /\ edited(k, {})[j].link = results[j].link
                      /\ edited(k, {})[j].data = results[j].data
                         \/ (results[j].type = SqlString /\ edited(k, {})[j].data[1] \in ResRequest)
    OBVIOUS
  <2>1. results[j] \in TableRow  BY <1>4
  <2>2. edited(k, {})[j] = IF j = k THEN [results[j] EXCEPT !.data = <<p, 0, 0>>] ELSE results[j]
    BY <1>4 DEF edited
  <2> DEFINE name == <<p, 0, 0>>
  <2>3. name \in RowData /\ name[1] \in ResRequest  BY <1>5
  <2> HIDE DEF name
  <2>4. edited(k, {})[j] = IF j = k THEN [results[j] EXCEPT !.data = name] ELSE results[j]
    BY <2>2 DEF name
  <2> QED  BY <1>1, <2>1, <2>3, <2>4 DEF TableRow
<1>7. results' \in Seq(TableRow) /\ Len(results') = Len(results)
  <2>1. DOMAIN edited(k, {}) = 1..Len(results) /\ edited(k, {}) = [j \in 1..Len(results) |-> edited(k, {})[j]]
    BY <1>4 DEF edited
  <2>2. edited(k, {}) \in [1..Len(results) -> TableRow]  BY <1>6, <2>1
  <2> QED  BY <1>3, <1>4, <2>2
<1>8. Same(results, results')  BY <1>3, <1>4, <1>6, <1>7 DEF Same
<1>9. outcome' \in [ResRequest -> {"none", "saved", "no link", "not found", "refreshed", "failed"}]
  BY <1>3, Outcomes
<1>10. RGoto(p, "done") /\ UNCHANGED <<asked, rloc, regular>>  BY DEF EditSql
<1> QED  BY <1>7, <1>8, <1>9, <1>10, RequestStep

LEMMA ReadingStep ==
    ASSUME ResIInv, NEW p \in ResRequest, RGoto(p, "done"), UNCHANGED <<results, asked, rloc, regular>>,
           NEW o \in {"none", "saved", "no link", "not found", "refreshed", "failed"},
           outcome' = outcome \/ outcome' = [outcome EXCEPT ![p] = o]
    PROVE  ResIInv'
<1>1. /\ results \in Seq(TableRow)
      /\ outcome \in [ResRequest -> {"none", "saved", "no link", "not found", "refreshed", "failed"}]
  BY Split DEF Globals
<1>2. Same(results, results')  BY <1>1, SameTable
<1>3. outcome' \in [ResRequest -> {"none", "saved", "no link", "not found", "refreshed", "failed"}]
  BY <1>1, Outcomes
<1> QED  BY <1>1, <1>2, <1>3, RequestStep

(* No chart is linked to SQL, so a refresh changes none.                   *)
LEMMA RefreshChartStep == ASSUME ResIInv, NEW p \in ResRequest, RefreshChart(p) PROVE ResIInv'
<1> DEFINE found(k) == results[k].link # 0 /\ results[results[k].link].type = SqlString
           o(k, ok) == IF results[k].link = 0 THEN "no link" ELSE IF ~found(k) THEN "not found"
                       ELSE IF ok THEN "refreshed" ELSE "failed"
<1>1. PICK k \in DOMAIN results, ok \in BOOLEAN :
        /\ results' = IF found(k) /\ ok THEN [results EXCEPT ![k].data = results[results[k].link].data]
                                        ELSE results
        /\ outcome' = [outcome EXCEPT ![p] = o(k, ok)]
  BY DEF RefreshChart
<1>2. results \in Seq(TableRow) /\ DOMAIN results = 1..Len(results)  BY Table
<1>3. ~ found(k)
  <2>1. RowOK(results, k, regular)  BY <1>2, Split
  <2> QED  BY <2>1 DEF RowOK, RunResult, SqlString
<1>4. UNCHANGED results  BY <1>1, <1>3
<1>5. o(k, ok) \in {"none", "saved", "no link", "not found", "refreshed", "failed"}  OBVIOUS
<1> HIDE DEF o, found
<1>6. RGoto(p, "done") /\ UNCHANGED <<asked, rloc, regular>>  BY DEF RefreshChart
<1> QED  BY <1>1, <1>4, <1>5, <1>6, ReadingStep

LEMMA Start == ASSUME ResInit PROVE ResIInv
<1>1. asked = 0 /\ 0 \in 0..MaxToolCalls  BY ResAssumption DEF ResInit
<1>2. NoRLocal \in RLocal /\ NoRLocal.lastRun = 0 /\ NoRLocal.n = 0 /\ NoRLocal.calls = <<>>
      /\ NoRLocal.cached = Empty
  BY NoLocal DEF NoRLocal
<1>3. results = <<>> /\ results \in Seq(TableRow) /\ DOMAIN results = {} /\ Len(results) = 0
  BY DEF ResInit
<1>4. \A q \in AnyTurn : rloc[q] = NoRLocal /\ rpc[q] = "llm"  BY DEF ResInit
<1>5. ResTypeOK
  <2>1. rpc \in [AnyTurn \cup ResRequest -> {"llm", "agent", "tools", "store", "idle", "done"}]
    BY DEF ResInit
  <2>2. rloc \in [AnyTurn -> RLocal]  BY <1>2 DEF ResInit
  <2>3. outcome \in [ResRequest -> {"none", "saved", "no link", "not found", "refreshed", "failed"}]
    BY DEF ResInit
  <2>4. regular \subseteq AnyTurn  BY DEF ResInit
  <2>5. \A q \in AnyTurn : rloc[q].n \in 0..asked /\ rloc[q].lastRun \in 0..Len(results)
    BY <1>1, <1>2, <1>3, <1>4
  <2> QED  BY <1>1, <1>3, <2>1, <2>2, <2>3, <2>4, <2>5 DEF ResTypeOK
<1>6. InHand
  <2>1. \A p \in AnyTurn \cup ResRequest : rpc[p] = "idle" => p \in ResRequest  BY <1>4
  <2> QED  BY <1>4, <2>1 DEF InHand
<1>7. LinksAreToRuns  BY <1>2, <1>3, <1>4 DEF LinksAreToRuns
<1>8. SqlComesFirst  BY <1>4 DEF SqlComesFirst
<1>9. CacheIsLinked  BY <1>2, <1>4 DEF CacheIsLinked, Tied, ResInit
<1> QED  BY <1>3, <1>5, <1>6, <1>7, <1>8, <1>9 DEF ResIInv, RunHasItsSql, ChartShowsLinkedRun

LEMMA Step == ASSUME ResIInv, [ResNext]_resVars PROVE ResIInv'
<1>1. ASSUME UNCHANGED resVars PROVE ResIInv'
  BY <1>1 DEF resVars, ResIInv, ResTypeOK, InHand, LinksAreToRuns, SqlComesFirst, CacheIsLinked,
              RunHasItsSql, ChartShowsLinkedRun
<1>2. ASSUME NEW q \in AnyTurn,
             AskTools(q) \/ EndTurn(q) \/ StoreSql(q) \/ Execute(q) \/ StoreOutput(q)
      PROVE  ResIInv'
  BY <1>2, AskToolsStep, EndTurnStep, StoreSqlStep, ExecuteStep, StoreOutputStep
<1>3. ASSUME NEW p \in ResRequest, ExportCsv(p) \/ RunSql(p) PROVE ResIInv'
  <2>1. RGoto(p, "done") /\ UNCHANGED <<results, asked, rloc, outcome, regular>>
    BY <1>3 DEF ExportCsv, RunSql, AnswerRows
  <2>2. "none" \in {"none", "saved", "no link", "not found", "refreshed", "failed"}  OBVIOUS
  <2> QED  BY <2>1, <2>2, ReadingStep
<1>4. ASSUME NEW p \in ResRequest, EditSql(p) \/ RefreshChart(p) PROVE ResIInv'
  BY <1>4, EditSqlStep, RefreshChartStep
<1> QED  BY <1>1, <1>2, <1>3, <1>4 DEF ResNext

LEMMA LinksInvariant == ResSpec => []ResIInv
<1> QED  BY Start, Step, PTL DEF ResSpec

(* sql_agent.py and sql_graph.py store the SQL of a message before its     *)
(* tools run: a run result never stands in the table before the query that *)
(* returned it, of the same turn, whatever other turns stored in between   *)
(* and wherever the stream broke.                                          *)
THEOREM RunsHaveSql == ResSpec => []RunHasItsSql
<1>1. ResIInv => RunHasItsSql  BY DEF ResIInv
<1> QED  BY <1>1, LinksInvariant, PTL

(* last_chart_data of the tools and last_run_result_id of the loop are     *)
(* kept apart, yet agree: in a turn of well-formed single calls a chart    *)
(* that shows rows is linked to the run result that has them, whichever    *)
(* queries failed and whichever requests edited or refreshed.              *)
THEOREM ChartsShowTheirRun == ResSpec => []ChartShowsLinkedRun
<1>1. ResIInv => ChartShowsLinkedRun  BY DEF ResIInv
<1> QED  BY <1>1, LinksInvariant, PTL

(* What the links are to, for all turns: only charts have one, and to run  *)
(* results; so EditSql finds no run result that is linked to the SQL, and  *)
(* RefreshChart no SQL that a chart is linked to.                          *)
THEOREM OnlyRunsAreLinkedTo == ResSpec => []LinksAreToRuns
<1>1. ResIInv => LinksAreToRuns  BY DEF ResIInv
<1> QED  BY <1>1, LinksInvariant, PTL
=============================================================================
