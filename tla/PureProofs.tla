----------------------------- MODULE PureProofs -----------------------------
(***************************************************************************)
(* What the pure algorithms compute, for inputs of every length: the       *)
(* validators of SchemaChecks and the readers of HistoryFormat.            *)
(*                                                                         *)
(* Each is a fold over a sequence, which its definition reaches through a  *)
(* function on sets of positions.  The function exists (FoldExists) and    *)
(* its value on 1..k + 1 is one step from that on 1..k (the lemmas named   *)
(* ...Runs); an invariant of the loop, from one k to the next, then says   *)
(* what the result is.  The induction over k is Induct, which follows from *)
(* the well-foundedness of < on Nat.                                       *)
(***************************************************************************)
EXTENDS HistoryFormat, SchemaChecks, WellFoundedInduction, TLAPS

-----------------------------------------------------------------------------
(* Induction, and folds over the positions 1..n *)

(* Induction over Nat, as a fact about a set: the library states it with an operator parameter. *)
LEMMA Induct ==
    ASSUME NEW T, 0 \in T, \A n \in Nat : n \in T => n + 1 \in T
    PROVE  Nat \subseteq T
<1> SUFFICES ASSUME Nat \ T # {} PROVE FALSE
  OBVIOUS
<1>1. PICK x \in Nat \ T : \A y \in Nat \ T : <<y, x>> \notin OpToRel(<, Nat)
  BY NatLessThanWellFounded, WFMin
<1>2. x # 0 /\ x - 1 \in Nat /\ x - 1 < x
  OBVIOUS
<1>3. <<x - 1, x>> \in OpToRel(<, Nat)
  BY <1>2 DEF OpToRel
<1>4. x - 1 \in T
  BY <1>1, <1>2, <1>3
<1>5. (x - 1) + 1 = x
  BY <1>2
<1> QED
  BY <1>1, <1>2, <1>4, <1>5

(* The greatest of some of the positions 1..k. *)
LEMMA MaxIs ==
    ASSUME NEW k \in Nat, NEW s \in SUBSET (1..k), k \in s
    PROVE  Max(s) = k
<1> DEFINE P(x) == \A y \in s : x >= y
<1>1. k \in s /\ P(k)  OBVIOUS
<1>2. PICK m \in s : m = Max(s) /\ P(m)
  BY <1>1, Zenon DEF Max
<1> QED  BY <1>1, <1>2

LEMMA UpToNext ==
    ASSUME NEW k \in Nat, NEW s \in SUBSET (1..(k + 1))
    PROVE  /\ k + 1 \in s => Max(s) = k + 1 /\ s \ {k + 1} \in SUBSET (1..k) /\ s # {}
           /\ k + 1 \notin s => s \in SUBSET (1..k)
<1>1. k + 1 \in s => Max(s) = k + 1  BY MaxIs
<1>2. \A i \in s : i \in 1..(k + 1)  OBVIOUS
<1>3. \A i \in 1..(k + 1) : i # k + 1 => i \in 1..k  OBVIOUS
<1> QED  BY <1>1, <1>2, <1>3

LEMMA MaxIn ==
    ASSUME NEW k \in Nat, NEW s \in SUBSET (1..k), s # {}
    PROVE  Max(s) \in s
<1> DEFINE T == {i \in Nat : \A z \in SUBSET (1..i) : z # {} => \E x \in z : \A y \in z : x >= y}
<1>1. 0 \in T
  <2>1. \A z \in SUBSET (1..0) : z = {}  OBVIOUS
  <2> QED  BY <2>1
<1>2. ASSUME NEW i \in Nat, i \in T PROVE i + 1 \in T
  <2>1. ASSUME NEW z \in SUBSET (1..(i + 1)), z # {}
        PROVE  \E x \in z : \A y \in z : x >= y
    <3>1. CASE i + 1 \in z
      <4>1. \A y \in z : i + 1 >= y  OBVIOUS
      <4> QED  BY <3>1, <4>1
    <3>2. CASE i + 1 \notin z
      <4>1. z \in SUBSET (1..i)  BY <3>2, UpToNext
      <4> QED  BY <1>2, <2>1, <4>1
    <3> QED  BY <3>1, <3>2
  <2> QED  BY <2>1
<1>3. k \in T  BY <1>1, <1>2, Induct
<1>4. \E x \in s : \A y \in s : x >= y  BY <1>3
<1> QED  BY <1>4, Zenon DEF Max

Folds(f, G, base, k) ==
    \A s \in SUBSET (1..k) : f[s] = IF s = {} THEN base ELSE G[<<f[s \ {Max(s)}], Max(s)>>]

(* The function of a fold exists: MapThenFoldSet of the library chooses one. *)
LEMMA FoldExists ==
    ASSUME NEW V, NEW base \in V, NEW n \in Nat, NEW G,
           \A v \in V, i \in 1..n : G[<<v, i>>] \in V
    PROVE  \E f \in [SUBSET (1..n) -> V] : Folds(f, G, base, n)
<1> DEFINE Runs(k) == \E f \in [SUBSET (1..k) -> V] : Folds(f, G, base, k)
           T == {k \in Nat : k <= n => Runs(k)}
<1>1. 0 \in T
  <2> DEFINE f == [s \in SUBSET (1..0) |-> base]
  <2>1. \A s \in SUBSET (1..0) : s = {}  OBVIOUS
  <2>2. f \in [SUBSET (1..0) -> V] /\ Folds(f, G, base, 0)  BY <2>1 DEF Folds
  <2> QED  BY <2>2
<1>2. ASSUME NEW k \in Nat, k \in T PROVE k + 1 \in T
  <2> SUFFICES ASSUME k + 1 <= n PROVE Runs(k + 1)
    <3> HIDE DEF Runs
    <3> QED  OBVIOUS
  <2>1. k <= n /\ k + 1 \in 1..n  OBVIOUS
  <2>2. PICK f \in [SUBSET (1..k) -> V] : Folds(f, G, base, k)
    BY <1>2, <2>1
  <2> DEFINE h == [s \in SUBSET (1..(k + 1)) |->
                     IF k + 1 \in s THEN G[<<f[s \ {k + 1}], k + 1>>] ELSE f[s]]
  <2>3. ASSUME NEW s \in SUBSET (1..(k + 1)) PROVE h[s] \in V
    BY <2>1, UpToNext
  <2>4. ASSUME NEW s \in SUBSET (1..(k + 1))
        PROVE  h[s] = IF s = {} THEN base ELSE G[<<h[s \ {Max(s)}], Max(s)>>]
    <3>1. CASE k + 1 \in s
      <4>1. Max(s) = k + 1 /\ s \ {k + 1} \in SUBSET (1..k) /\ s # {}  BY <3>1, UpToNext
      <4>2. s \ {k + 1} \in SUBSET (1..(k + 1))  OBVIOUS
      <4>3. h[s \ {k + 1}] = f[s \ {k + 1}]  BY <4>2
      <4> QED  BY <3>1, <4>1, <4>3
    <3>2. CASE k + 1 \notin s /\ s # {}
      <4>1. s \in SUBSET (1..k)  BY <3>2, UpToNext
      <4>2. Max(s) \in s  BY <3>2, <4>1, MaxIn
      <4>3. s \ {Max(s)} \in SUBSET (1..k) /\ s \ {Max(s)} \in SUBSET (1..(k + 1))
            /\ k + 1 \notin s \ {Max(s)}
        BY <3>2, <4>1
      <4>4. h[s] = f[s] /\ h[s \ {Max(s)}] = f[s \ {Max(s)}]  BY <3>2, <4>3
      <4> QED  BY <2>2, <3>2, <4>1, <4>4 DEF Folds
    <3>3. CASE s = {}
      <4>1. h[{}] = f[{}]  OBVIOUS
      <4>2. f[{}] = base  BY <2>2 DEF Folds
      <4> QED  BY <3>3, <4>1, <4>2
    <3> QED  BY <3>1, <3>2, <3>3
  <2>5. h \in [SUBSET (1..(k + 1)) -> V]  BY <2>3
  <2> HIDE DEF h
  <2> QED  BY <2>4, <2>5 DEF Folds
<1> HIDE DEF Runs
<1>3. n \in T  BY <1>1, <1>2, Induct
<1>4. Runs(n)  BY <1>3
<1> QED  BY <1>4 DEF Runs

(* Reading the first k + 1 is reading the first k and one more. *)
LEMMA FirstOnes ==
    ASSUME NEW n \in Nat, NEW k \in Nat, k < n
    PROVE  /\ 1..(k + 1) \in SUBSET (1..n) /\ 1..(k + 1) # {}
           /\ Max(1..(k + 1)) = k + 1 /\ (1..(k + 1)) \ {k + 1} = 1..k
<1>1. k + 1 \in 1..(k + 1)  OBVIOUS
<1>2. \A i \in 1..(k + 1) : i \in 1..n  OBVIOUS
<1>3. Max(1..(k + 1)) = k + 1  BY <1>1, MaxIs
<1>4. (1..(k + 1)) \ {k + 1} = 1..k  OBVIOUS
<1> QED  BY <1>1, <1>2, <1>3, <1>4

-----------------------------------------------------------------------------
(* Sequences *)

(* Induction over sequences, element by element at the end. *)
LEMMA SeqInduct ==
    ASSUME NEW S, NEW T, <<>> \in T, \A s \in Seq(S), x \in S : s \in T => Append(s, x) \in T
    PROVE  Seq(S) \subseteq T
<1> DEFINE L == {n \in Nat : \A s \in Seq(S) : Len(s) = n => s \in T}
<1>1. 0 \in L
  <2>1. \A s \in Seq(S) : Len(s) = 0 => s = <<>>  OBVIOUS
  <2> QED  BY <2>1
<1>2. ASSUME NEW n \in Nat, n \in L PROVE n + 1 \in L
  <2>1. ASSUME NEW s \in Seq(S), Len(s) = n + 1 PROVE s \in T
    <3> DEFINE front == SubSeq(s, 1, n)
    <3>1. front \in Seq(S) /\ Len(front) = n /\ s[n + 1] \in S  BY <2>1
    <3>2. s = Append(front, s[n + 1])  BY <2>1, <3>1
    <3>3. front \in T  BY <1>2, <3>1
    <3> HIDE DEF front
    <3> QED  BY <3>1, <3>2, <3>3
  <2> QED  BY <2>1
<1>3. Nat \subseteq L  BY <1>1, <1>2, Induct
<1> QED  BY <1>3

Flat(seqs) == CHOOSE flatten : flatten =
    [i \in 1..Len(seqs) |-> IF i = 1 THEN seqs[i] ELSE flatten[i - 1] \o seqs[i]]

(* FlattenSeq of the library, which is a function that refers to itself. *)
LEMMA FlatRun ==
    ASSUME NEW S, NEW seqs \in Seq(S)
    PROVE  /\ Len(seqs) # 0 => FlattenSeq(seqs) = Flat(seqs)[Len(seqs)]
           /\ Len(seqs) # 0 => Flat(seqs)[1] = seqs[1]
           /\ \A k \in 1..Len(seqs) : k + 1 <= Len(seqs) => Flat(seqs)[k + 1] = Flat(seqs)[k] \o seqs[k + 1]
<1> DEFINE n == Len(seqs)
           Is(f, k) == f = [i \in 1..k |-> IF i = 1 THEN seqs[i] ELSE f[i - 1] \o seqs[i]]
           Runs(k) == \E f : Is(f, k)
           T == {k \in Nat : Runs(k)}
<1>1. 0 \in T
  <2>1. Is([i \in 1..0 |-> i], 0)
    <3>1. \A i : i \notin 1..0  OBVIOUS
    <3> QED  BY <3>1
  <2> QED  BY <2>1
<1>2. ASSUME NEW k \in Nat, k \in T PROVE k + 1 \in T
  <2>1. PICK f : Is(f, k)  BY <1>2
  <2> DEFINE h == [i \in 1..(k + 1) |-> IF i = 1 THEN seqs[i] ELSE f[i - 1] \o seqs[i]]
  <2>2. \A i \in 1..k : f[i] = IF i = 1 THEN seqs[i] ELSE f[i - 1] \o seqs[i]  BY <2>1
  <2>3. ASSUME NEW i \in 1..(k + 1), i # 1 PROVE h[i - 1] = f[i - 1]
    <3>1. i - 1 \in 1..k /\ i - 1 \in 1..(k + 1)  BY <2>3
    <3> QED  BY <2>2, <3>1
  <2>4. h = [i \in 1..(k + 1) |-> IF i = 1 THEN seqs[i] ELSE h[i - 1] \o seqs[i]]
    BY <2>3
  <2> HIDE DEF h
  <2>5. Is(h, k + 1)  BY <2>4
  <2>6. Runs(k + 1)  BY <2>5
  <2> HIDE DEF Runs
  <2> QED  BY <2>6
<1>3. n \in Nat  OBVIOUS
<1>4. n \in T  BY <1>1, <1>2, <1>3, Induct
<1>5. Is(Flat(seqs), n)  BY <1>4 DEF Flat
<1>6. n # 0 => FlattenSeq(seqs) = Flat(seqs)[n]  BY DEF FlattenSeq, Flat
<1>7. n # 0 => 1 \in 1..n  BY <1>3
<1>8. \A i \in 1..n : Flat(seqs)[i] = IF i = 1 THEN seqs[i] ELSE Flat(seqs)[i - 1] \o seqs[i]
  BY <1>5
<1>9. n # 0 => Flat(seqs)[1] = seqs[1]  BY <1>7, <1>8
<1>10. ASSUME NEW k \in 1..n, k + 1 <= n PROVE Flat(seqs)[k + 1] = Flat(seqs)[k] \o seqs[k + 1]
  <2>1. k + 1 \in 1..n /\ k + 1 # 1 /\ (k + 1) - 1 = k  BY <1>3, <1>10
  <2> QED  BY <1>8, <2>1
<1> QED  BY <1>6, <1>9, <1>10

(* Flattening one more sequence appends it. *)
LEMMA FlattenAppend ==
    ASSUME NEW S, NEW ss \in Seq(Seq(S)), NEW s \in Seq(S)
    PROVE  /\ FlattenSeq(ss) \in Seq(S) /\ FlattenSeq(<<>>) = <<>>
           /\ FlattenSeq(Append(ss, s)) = FlattenSeq(ss) \o s
<1> DEFINE n == Len(ss)
           all == Append(ss, s)
           f == Flat(ss)
           g == Flat(all)
           T == {k \in Nat : k + 1 <= n => f[k + 1] \in Seq(S) /\ g[k + 1] = f[k + 1]}
<1>1. FlattenSeq(<<>>) = <<>>  BY DEF FlattenSeq
<1>2. n \in Nat /\ all \in Seq(Seq(S)) /\ Len(all) = n + 1 /\ all[n + 1] = s
      /\ \A i \in 1..n : all[i] = ss[i] /\ ss[i] \in Seq(S)
  OBVIOUS
<1>3. /\ n # 0 => FlattenSeq(ss) = f[n] /\ f[1] = ss[1]
      /\ \A k \in 1..n : k + 1 <= n => f[k + 1] = f[k] \o ss[k + 1]
  BY FlatRun
<1>4. /\ FlattenSeq(all) = g[n + 1] /\ g[1] = all[1]
      /\ \A k \in 1..(n + 1) : k + 1 <= n + 1 => g[k + 1] = g[k] \o all[k + 1]
  <2> HIDE DEF all, g
  <2>1. Len(all) # 0  BY <1>2
  <2> QED  BY <1>2, <2>1, FlatRun DEF g
<1> HIDE DEF n, all, f, g
<1>5. 0 \in T  BY <1>2, <1>3, <1>4
<1>6. ASSUME NEW k \in Nat, k \in T PROVE k + 1 \in T
  <2> SUFFICES ASSUME (k + 1) + 1 <= n
               PROVE  f[(k + 1) + 1] \in Seq(S) /\ g[(k + 1) + 1] = f[(k + 1) + 1]
    OBVIOUS
  <2>1. k + 1 <= n /\ k + 1 \in 1..n /\ k + 1 \in 1..(n + 1) /\ (k + 1) + 1 \in 1..n
        /\ (k + 1) + 1 <= n + 1
    BY <1>2
  <2>2. f[k + 1] \in Seq(S) /\ g[k + 1] = f[k + 1]  BY <1>6, <2>1
  <2>3. f[(k + 1) + 1] = f[k + 1] \o ss[(k + 1) + 1]  BY <1>3, <2>1
  <2>4. g[(k + 1) + 1] = g[k + 1] \o all[(k + 1) + 1]  BY <1>4, <2>1
  <2>5. all[(k + 1) + 1] = ss[(k + 1) + 1] /\ ss[(k + 1) + 1] \in Seq(S)  BY <1>2, <2>1
  <2> QED  BY <2>2, <2>3, <2>4, <2>5
<1>7. Nat \subseteq T  BY <1>5, <1>6, Induct
<1>8. CASE n = 0
  <2>1. ss = <<>>  BY <1>8 DEF n
  <2>2. FlattenSeq(all) = s  BY <1>2, <1>4, <1>8
  <2>3. FlattenSeq(ss) = <<>> /\ <<>> \in Seq(S) /\ <<>> \o s = s  BY <1>1, <2>1
  <2> QED  BY <1>1, <2>2, <2>3 DEF all
<1>9. CASE n # 0
  <2>1. n - 1 \in Nat /\ (n - 1) + 1 = n /\ n \in 1..(n + 1)  BY <1>2, <1>9
  <2>2. f[n] \in Seq(S) /\ g[n] = f[n]
    <3>1. n - 1 \in T  BY <1>7, <2>1
    <3> QED  BY <1>2, <2>1, <3>1
  <2>3. g[n + 1] = g[n] \o s
    <3>1. n + 1 <= n + 1  BY <1>2
    <3>2. \A k \in 1..(n + 1) : k + 1 <= n + 1 => g[k + 1] = g[k] \o all[k + 1]  BY <1>4
    <3>3. g[n + 1] = g[n] \o all[n + 1]  BY <2>1, <3>1, <3>2
    <3> QED  BY <1>2, <3>3
  <2> QED  BY <1>1, <1>3, <1>4, <1>9, <2>2, <2>3 DEF all
<1> QED  BY <1>8, <1>9

LEMMA IsSeq ==
    ASSUME NEW S, NEW n \in Nat, NEW f \in [1..n -> S]
    PROVE  f \in Seq(S) /\ Len(f) = n
OBVIOUS

LEMMA Assoc ==
    ASSUME NEW S, NEW a \in Seq(S), NEW b \in Seq(S), NEW c \in Seq(S)
    PROVE  a \o (b \o c) = (a \o b) \o c
OBVIOUS

LEMMA Joined ==
    ASSUME NEW S, NEW p \in Seq(S), NEW q \in Seq(S), NEW x \in S
    PROVE  (p \o q) \o <<x>> = p \o Append(q, x) /\ p \o <<>> = p
OBVIOUS

(* What is behind a prefix is a suffix. *)
LEMMA SuffixIs ==
    ASSUME NEW S, NEW p \in Seq(S), NEW s \in Seq(S)
    PROVE  IsSuffix(s, p \o s)
<1> DEFINE t == p \o s
           a == Len(p)
           b == Len(s)
           x == Reverse(s)
           y == Reverse(t)
<1>1. t \in Seq(S) /\ Len(t) = a + b /\ a \in Nat /\ b \in Nat
      /\ \A i \in 1..b : t[a + i] = s[i]
  OBVIOUS
<1> HIDE DEF t, a, b
<1>2. x = [i \in 1..b |-> s[(b - i) + 1]] /\ y = [i \in 1..(a + b) |-> t[((a + b) - i) + 1]]
  BY <1>1 DEF Reverse, b
<1>3. \A i \in 1..b : s[(b - i) + 1] \in S
  <2> TAKE i \in 1..b
  <2>1. (b - i) + 1 \in 1..b  BY <1>1
  <2> QED  BY <2>1 DEF b
<1>4. \A i \in 1..(a + b) : t[((a + b) - i) + 1] \in S
  <2> TAKE i \in 1..(a + b)
  <2>1. ((a + b) - i) + 1 \in 1..(a + b)  BY <1>1
  <2> QED  BY <1>1, <2>1
<1>5. x \in Seq(S) /\ Len(x) = b
  BY <1>1, <1>2, <1>3, IsSeq
<1>6. y \in Seq(S) /\ Len(y) = a + b
  BY <1>1, <1>2, <1>4, IsSeq
<1>7. \A i \in 1..b : x[i] = y[i]
  <2> TAKE i \in 1..b
  <2>1. (b - i) + 1 \in 1..b /\ ((a + b) - i) + 1 = a + ((b - i) + 1) /\ i \in 1..(a + b)
    <3>1. a \in Nat /\ b \in Nat  BY <1>1
    <3> QED  BY <3>1
  <2>2. x[i] = s[(b - i) + 1] /\ y[i] = t[((a + b) - i) + 1]  BY <1>2, <2>1
  <2>3. t[a + ((b - i) + 1)] = s[(b - i) + 1]  BY <1>1, <2>1
  <2> QED  BY <2>1, <2>2, <2>3
<1> HIDE DEF x, y
<1>8. SubSeq(x, 1, b) = SubSeq(y, 1, b)
  <2>1. SubSeq(x, 1, b) = [i \in 1..b |-> x[i]] /\ SubSeq(y, 1, b) = [i \in 1..b |-> y[i]]
    BY <1>1, <1>5, <1>6
  <2> QED  BY <1>7, <2>1
<1>9. b <= a + b  BY <1>1
<1>10. IsPrefix(x, y)  BY <1>5, <1>6, <1>8, <1>9 DEF IsPrefix
<1> QED  BY <1>10 DEF IsSuffix, x, y, t

LEMMA MinIn ==
    ASSUME NEW s \in SUBSET Nat, s # {}
    PROVE  Min(s) \in s
<1>1. PICK x \in s : \A y \in s : <<y, x>> \notin OpToRel(<, Nat)
  BY NatLessThanWellFounded, WFMin
<1>2. \A y \in s : x <= y
  <2> TAKE y \in s
  <2>1. x \in Nat /\ y \in Nat /\ <<y, x>> \notin OpToRel(<, Nat)  BY <1>1
  <2>2. ~(y < x)  BY <2>1 DEF OpToRel
  <2>3. x \in Nat /\ y \in Nat  OBVIOUS
  <2> QED  BY <2>2, <2>3
<1>3. \E m \in s : \A y \in s : m <= y  BY <1>2
<1> QED  BY <1>3, Zenon DEF Min

-----------------------------------------------------------------------------
(* SchemaChecks: validate_schema_payload *)

What == {"name", "duplicate", "nullable key", "type", "table name", "duplicate table", "no columns", "no key"}
Issue == (What \X STRING) \cup (What \X STRING \X STRING)
ColumnsSeen == [issues : SUBSET Issue, seen : SUBSET STRING, pk : BOOLEAN]

LEMMA OneColumn ==
    ASSUME NEW t \in TableType, NEW acc \in ColumnsSeen, NEW c \in ColumnType
    PROVE  LET new == CheckColumn(t, acc, c) IN
           /\ new \in ColumnsSeen
           /\ new.seen = acc.seen \cup {c.name}
           /\ new.pk = (acc.pk \/ c.pk)
           /\ (new.issues = {}) <=> /\ acc.issues = {} /\ c.name \in Ident /\ c.name \notin acc.seen
                                  /\ c.typed /\ (c.pk => ~c.nullable)
<1> DEFINE A == {<<"name", t.name, n>> : n \in {c.name} \ Ident}
           B == {<<"duplicate", t.name, n>> : n \in {c.name} \cap acc.seen}
           C == {<<"nullable key", t.name, n>> : n \in IF c.pk /\ c.nullable THEN {c.name} ELSE {}}
           D == {<<"type", t.name, n>> : n \in IF c.typed THEN {} ELSE {c.name}}
           new == CheckColumn(t, acc, c)
<1>1. /\ new.issues = acc.issues \cup A \cup B \cup C \cup D
      /\ new.seen = acc.seen \cup {c.name} /\ new.pk = (acc.pk \/ c.pk)
      /\ new = [issues |-> new.issues, seen |-> new.seen, pk |-> new.pk]
  BY DEF CheckColumn
<1>2. t.name \in STRING /\ c.name \in STRING /\ c.pk \in BOOLEAN /\ c.typed \in BOOLEAN
      /\ acc.issues \in SUBSET Issue /\ acc.seen \in SUBSET STRING /\ acc.pk \in BOOLEAN
  BY DEF TableType, ColumnType, ColumnsSeen
<1>3. A \in SUBSET Issue /\ B \in SUBSET Issue /\ C \in SUBSET Issue /\ D \in SUBSET Issue
  <2>3. \A n \in {c.name} : /\ <<"name", t.name, n>> \in Issue /\ <<"duplicate", t.name, n>> \in Issue
                            /\ <<"nullable key", t.name, n>> \in Issue /\ <<"type", t.name, n>> \in Issue
    BY <1>2 DEF Issue, What
  <2>4. {c.name} \ Ident \subseteq {c.name} /\ {c.name} \cap acc.seen \subseteq {c.name}
    OBVIOUS
  <2>5. A \in SUBSET Issue  BY <2>3, <2>4
  <2>6. B \in SUBSET Issue  BY <2>3, <2>4
  <2>7. C \in SUBSET Issue  BY <2>3
  <2>8. D \in SUBSET Issue  BY <2>3
  <2> QED  BY <2>5, <2>6, <2>7, <2>8
<1>4. /\ A = {} <=> c.name \in Ident
      /\ B = {} <=> c.name \notin acc.seen
      /\ C = {} <=> (c.pk => ~c.nullable)
      /\ D = {} <=> c.typed
  OBVIOUS
<1> HIDE DEF A, B, C, D, new
<1>5. new \in ColumnsSeen  BY <1>1, <1>2, <1>3 DEF ColumnsSeen
<1>6. new.issues = {} <=> acc.issues = {} /\ A = {} /\ B = {} /\ C = {} /\ D = {}  BY <1>1
<1> QED  BY <1>1, <1>4, <1>5, <1>6 DEF new

ColumnRun(t) == CHOOSE iter : iter = [s \in SUBSET DOMAIN t.columns |->
    IF s = {} THEN NoColumns ELSE CheckColumn(t, iter[s \ {Max(s)}], t.columns[Max(s)])]

(* The loop over the columns of a table, column by column. *)
LEMMA ColumnsRun ==
    ASSUME NEW t \in TableType
    PROVE  LET n == Len(t.columns)  f == ColumnRun(t) IN
           /\ CheckColumns(t) = f[1..n]
           /\ f[{}] = NoColumns
           /\ \A k \in Nat : k < n => f[1..(k + 1)] = CheckColumn(t, f[1..k], t.columns[k + 1])
<1> DEFINE n == Len(t.columns)
           f == ColumnRun(t)
           G == [p \in ColumnsSeen \X (1..n) |-> CheckColumn(t, p[1], t.columns[p[2]])]
           Is(iter) == iter = [s \in SUBSET DOMAIN t.columns |->
              IF s = {} THEN NoColumns ELSE CheckColumn(t, iter[s \ {Max(s)}], t.columns[Max(s)])]
<1>1. n \in Nat /\ DOMAIN t.columns = 1..n /\ \A i \in 1..n : t.columns[i] \in ColumnType
  BY DEF TableType
<1>2. CheckColumns(t) = f[1..n]
  BY <1>1 DEF CheckColumns, FoldLeft, MapThenFoldSet, ColumnRun
<1>3. \E iter : Is(iter)
  <2>1. NoColumns \in ColumnsSeen  BY DEF NoColumns, ColumnsSeen
  <2>2. \A v \in ColumnsSeen, i \in 1..n : G[<<v, i>>] = CheckColumn(t, v, t.columns[i])
    OBVIOUS
  <2>3. \A v \in ColumnsSeen, i \in 1..n : G[<<v, i>>] \in ColumnsSeen
    BY <1>1, <2>2, OneColumn
  <2> HIDE DEF G, n
  <2>4. PICK g \in [SUBSET (1..n) -> ColumnsSeen] : Folds(g, G, NoColumns, n)
    BY <1>1, <2>1, <2>3, FoldExists
  <2>5. ASSUME NEW s \in SUBSET (1..n), s # {}
        PROVE  g[s] = CheckColumn(t, g[s \ {Max(s)}], t.columns[Max(s)])
    <3>1. Max(s) \in 1..n  BY <1>1, <2>5, MaxIn
    <3>2. g[s \ {Max(s)}] \in ColumnsSeen  OBVIOUS
    <3> QED  BY <2>2, <2>4, <2>5, <3>1, <3>2 DEF Folds
  <2>6. g[{}] = NoColumns  BY <2>4 DEF Folds
  <2>7. Is(g)  BY <1>1, <2>5, <2>6
  <2> QED  BY <2>7
<1>4. Is(f)  BY <1>3 DEF ColumnRun
<1>5. f[{}] = NoColumns  BY <1>4
<1>6. ASSUME NEW k \in Nat, k < n
      PROVE  f[1..(k + 1)] = CheckColumn(t, f[1..k], t.columns[k + 1])
  <2> HIDE DEF f, n
  <2>1. /\ 1..(k + 1) \in SUBSET (1..n) /\ 1..(k + 1) # {}
        /\ Max(1..(k + 1)) = k + 1 /\ (1..(k + 1)) \ {k + 1} = 1..k
    BY <1>1, <1>6, FirstOnes
  <2>2. ASSUME NEW s \in SUBSET (1..n), s # {}
        PROVE  f[s] = CheckColumn(t, f[s \ {Max(s)}], t.columns[Max(s)])
    BY <1>1, <1>4, <2>2
  <2> QED  BY <2>1, <2>2
<1> QED  BY <1>2, <1>5, <1>6

Sound(c) == c.name \in Ident /\ c.typed /\ (c.pk => ~c.nullable)
HasSeen(cols, k, acc) ==
    /\ acc \in ColumnsSeen
    /\ acc.seen = {cols[i].name : i \in 1..k}
    /\ acc.pk <=> \E i \in 1..k : cols[i].pk
    /\ acc.issues = {} <=> \A i \in 1..k : /\ Sound(cols[i])
                                           /\ \A j \in 1..k : cols[i].name = cols[j].name => i = j

(* What that loop finds out: the names, a key, and whether there is an issue. *)
LEMMA ColumnsMean ==
    ASSUME NEW t \in TableType
    PROVE  LET cols == CheckColumns(t) IN
           /\ cols \in ColumnsSeen /\ cols.seen = Names(t.columns)
           /\ cols.pk <=> \E i \in DOMAIN t.columns : t.columns[i].pk
           /\ cols.issues = {} <=>
                /\ NoRepeats(t.columns) /\ Names(t.columns) \subseteq Ident
                /\ \A i \in DOMAIN t.columns :
                     t.columns[i].typed /\ (t.columns[i].pk => ~t.columns[i].nullable)
<1> DEFINE c == t.columns
           n == Len(c)
           f == ColumnRun(t)
           T == {k \in Nat : k <= n => HasSeen(c, k, f[1..k])}
<1>1. n \in Nat /\ DOMAIN c = 1..n /\ \A i \in 1..n : c[i] \in ColumnType
  BY DEF TableType
<1>2. /\ CheckColumns(t) = f[1..n] /\ f[{}] = NoColumns
      /\ \A k \in Nat : k < n => f[1..(k + 1)] = CheckColumn(t, f[1..k], c[k + 1])
  BY ColumnsRun
<1> HIDE DEF c, n, f
<1>3. 0 \in T
  <2>1. 1..0 = {}  OBVIOUS
  <2>2. HasSeen(c, 0, NoColumns)  BY <2>1 DEF HasSeen, NoColumns, ColumnsSeen
  <2> QED  BY <1>2, <2>1, <2>2
<1>4. ASSUME NEW k \in Nat, k \in T PROVE k + 1 \in T
  <2> SUFFICES ASSUME k + 1 <= n PROVE HasSeen(c, k + 1, f[1..(k + 1)])
    <3> HIDE DEF HasSeen
    <3> QED  OBVIOUS
  <2> DEFINE acc == f[1..k]
             new == f[1..(k + 1)]
  <2>1. HasSeen(c, k, acc) /\ k < n
    <3>1. k < n /\ k <= n  BY <1>1
    <3> HIDE DEF HasSeen
    <3> QED  BY <1>4, <3>1
  <2>2. new = CheckColumn(t, acc, c[k + 1]) /\ c[k + 1] \in ColumnType
    BY <1>1, <1>2, <2>1
  <2> HIDE DEF acc, new
  <2>3. acc \in ColumnsSeen  BY <2>1 DEF HasSeen
  <2>4. /\ new \in ColumnsSeen /\ new.seen = acc.seen \cup {c[k + 1].name}
        /\ new.pk = (acc.pk \/ c[k + 1].pk)
        /\ (new.issues = {}) <=> (acc.issues = {} /\ Sound(c[k + 1]) /\ c[k + 1].name \notin acc.seen)
    BY <2>2, <2>3, OneColumn DEF Sound
  <2>5. 1..(k + 1) = (1..k) \cup {k + 1}  OBVIOUS
  <2>6. new.seen = {c[i].name : i \in 1..(k + 1)}
    BY <2>1, <2>4, <2>5 DEF HasSeen
  <2>7. new.pk <=> \E i \in 1..(k + 1) : c[i].pk
    BY <2>1, <2>4, <2>5 DEF HasSeen
  <2>8. c[k + 1].name \notin acc.seen <=> \A i \in 1..k : c[i].name # c[k + 1].name
    BY <2>1 DEF HasSeen
  <2>9. new.issues = {} <=> \A i \in 1..(k + 1) :
          /\ Sound(c[i])
          /\ \A j \in 1..(k + 1) : c[i].name = c[j].name => i = j
    <3>1. k + 1 \notin 1..k  OBVIOUS
    <3>2. acc.issues = {} <=> \A i \in 1..k : /\ Sound(c[i])
                                              /\ \A j \in 1..k : c[i].name = c[j].name => i = j
      BY <2>1 DEF HasSeen
    <3> QED  BY <2>4, <2>5, <2>8, <3>1, <3>2
  <2> QED  BY <2>4, <2>6, <2>7, <2>9 DEF HasSeen, new
<1>5. n \in T  BY <1>1, <1>3, <1>4, Induct
<1>6. HasSeen(c, n, CheckColumns(t))  BY <1>1, <1>2, <1>5
<1> QED  BY <1>1, <1>6 DEF HasSeen, Sound, Names, NoRepeats, c

-----------------------------------------------------------------------------
TablesSeen == [issues : SUBSET Issue, columns : UNION {[D -> SUBSET STRING] : D \in SUBSET STRING}]

TableSound(t) ==
    /\ t.name \in Ident /\ NoRepeats(t.columns) /\ Names(t.columns) \subseteq Ident
    /\ \E c \in DOMAIN t.columns : t.columns[c].pk
    /\ \A c \in DOMAIN t.columns : t.columns[c].typed /\ (t.columns[c].pk => ~t.columns[c].nullable)

(* What the first loop over the tables does with one more. *)
LEMMA OneTable ==
    ASSUME NEW acc \in TablesSeen, NEW t \in TableType
    PROVE  LET new == CheckTable(acc, t) IN
           /\ new \in TablesSeen
           /\ DOMAIN new.columns = DOMAIN acc.columns \cup {t.name}
           /\ new.columns[t.name] = Names(t.columns)
           /\ \A n \in DOMAIN acc.columns : n # t.name => new.columns[n] = acc.columns[n]
           /\ (new.issues = {}) <=> (acc.issues = {} /\ TableSound(t) /\ t.name \notin DOMAIN acc.columns)
<1> DEFINE cols == CheckColumns(t)
           A == {<<"table name", n>> : n \in {t.name} \ Ident}
           B == {<<"duplicate table", n>> : n \in {t.name} \cap DOMAIN acc.columns}
           C == IF t.columns = <<>> THEN {<<"no columns", t.name>>}
                ELSE IF ~cols.pk THEN {<<"no key", t.name>>} ELSE {}
           D == DOMAIN acc.columns \cup {t.name}
           m == [n \in D |-> IF n = t.name THEN cols.seen ELSE acc.columns[n]]
           new == CheckTable(acc, t)
<1>1. /\ cols \in ColumnsSeen /\ cols.seen = Names(t.columns)
      /\ cols.pk <=> \E i \in DOMAIN t.columns : t.columns[i].pk
      /\ cols.issues = {} <=>
           /\ NoRepeats(t.columns) /\ Names(t.columns) \subseteq Ident
           /\ \A i \in DOMAIN t.columns :
                t.columns[i].typed /\ (t.columns[i].pk => ~t.columns[i].nullable)
  BY ColumnsMean
<1>2. /\ new = [issues |-> acc.issues \cup cols.issues \cup A \cup B \cup C, columns |-> m]
  BY DEF CheckTable
<1>3. t.name \in STRING /\ t.columns \in Seq(ColumnType)  BY DEF TableType
<1>4. PICK E \in SUBSET STRING : acc.columns \in [E -> SUBSET STRING]  BY DEF TablesSeen
<1>5. cols.seen \in SUBSET STRING /\ cols.issues \in SUBSET Issue /\ acc.issues \in SUBSET Issue
      /\ cols.pk \in BOOLEAN
  BY <1>1 DEF ColumnsSeen, TablesSeen
<1> HIDE DEF cols
<1>6. A \in SUBSET Issue /\ B \in SUBSET Issue /\ C \in SUBSET Issue
  <2>1. \A n \in {t.name} : /\ <<"table name", n>> \in Issue /\ <<"duplicate table", n>> \in Issue
                            /\ <<"no columns", n>> \in Issue /\ <<"no key", n>> \in Issue
    BY <1>3 DEF Issue, What
  <2>2. {t.name} \ Ident \subseteq {t.name} /\ {t.name} \cap DOMAIN acc.columns \subseteq {t.name}
    OBVIOUS
  <2>3. A \in SUBSET Issue  BY <2>1, <2>2
  <2>4. B \in SUBSET Issue  BY <2>1, <2>2
  <2>5. C \in SUBSET Issue  BY <2>1
  <2> QED  BY <2>3, <2>4, <2>5
<1>7. m \in [D -> SUBSET STRING] /\ D \in SUBSET STRING
  BY <1>3, <1>4, <1>5
<1>8. new.columns = m /\ new.issues = acc.issues \cup cols.issues \cup A \cup B \cup C
      /\ new = [issues |-> new.issues, columns |-> m]
  <2> HIDE DEF m, A, B, C, new
  <2> QED  BY <1>2
<1>9. /\ A = {} <=> t.name \in Ident
      /\ B = {} <=> t.name \notin DOMAIN acc.columns
      /\ C = {} <=> cols.pk
  <2>1. t.columns = <<>> => DOMAIN t.columns = {}  BY <1>3
  <2>2. C = {} <=> cols.pk  BY <1>1, <1>5, <2>1
  <2> QED  BY <2>2
<1> HIDE DEF A, B, C, new
<1>10. new \in TablesSeen  BY <1>5, <1>6, <1>7, <1>8 DEF TablesSeen
<1>11. /\ DOMAIN new.columns = DOMAIN acc.columns \cup {t.name}
       /\ new.columns[t.name] = Names(t.columns)
       /\ \A n \in DOMAIN acc.columns : n # t.name => new.columns[n] = acc.columns[n]
  BY <1>1, <1>8
<1>12. (new.issues = {}) <=> (acc.issues = {} /\ TableSound(t) /\ t.name \notin DOMAIN acc.columns)
  <2>1. new.issues = {} <=> acc.issues = {} /\ cols.issues = {} /\ A = {} /\ B = {} /\ C = {}
    BY <1>8
  <2> QED  BY <1>1, <1>9, <2>1 DEF TableSound
<1> QED  BY <1>10, <1>11, <1>12 DEF new

TableRun(tables) == CHOOSE iter : iter = [s \in SUBSET DOMAIN tables |->
    IF s = {} THEN NoTables ELSE CheckTable(iter[s \ {Max(s)}], tables[Max(s)])]

(* The loop over the tables, table by table. *)
LEMMA TablesRun ==
    ASSUME NEW tables \in Seq(TableType)
    PROVE  LET n == Len(tables)  f == TableRun(tables) IN
           /\ CheckTables(tables) = f[1..n]
           /\ f[{}] = NoTables
           /\ \A k \in Nat : k < n => f[1..(k + 1)] = CheckTable(f[1..k], tables[k + 1])
<1> DEFINE n == Len(tables)
           f == TableRun(tables)
           G == [p \in TablesSeen \X (1..n) |-> CheckTable(p[1], tables[p[2]])]
           Is(iter) == iter = [s \in SUBSET DOMAIN tables |->
              IF s = {} THEN NoTables ELSE CheckTable(iter[s \ {Max(s)}], tables[Max(s)])]
<1>1. n \in Nat /\ DOMAIN tables = 1..n /\ \A i \in 1..n : tables[i] \in TableType
  OBVIOUS
<1>2. CheckTables(tables) = f[1..n]
  BY <1>1 DEF CheckTables, FoldLeft, MapThenFoldSet, TableRun
<1>3. \E iter : Is(iter)
  <2>1. NoTables \in TablesSeen
    <3>1. [n0 \in {} |-> {}] \in [{} -> SUBSET STRING] /\ {} \in SUBSET STRING  OBVIOUS
    <3> QED  BY <3>1 DEF NoTables, TablesSeen
  <2>2. \A v \in TablesSeen, i \in 1..n : G[<<v, i>>] = CheckTable(v, tables[i])
    OBVIOUS
  <2>3. \A v \in TablesSeen, i \in 1..n : G[<<v, i>>] \in TablesSeen
    BY <1>1, <2>2, OneTable
  <2> HIDE DEF G, n
  <2>4. PICK g \in [SUBSET (1..n) -> TablesSeen] : Folds(g, G, NoTables, n)
    BY <1>1, <2>1, <2>3, FoldExists
  <2>5. ASSUME NEW s \in SUBSET (1..n), s # {}
        PROVE  g[s] = CheckTable(g[s \ {Max(s)}], tables[Max(s)])
    <3>1. Max(s) \in 1..n  BY <1>1, <2>5, MaxIn
    <3>2. g[s \ {Max(s)}] \in TablesSeen  OBVIOUS
    <3> QED  BY <2>2, <2>4, <2>5, <3>1, <3>2 DEF Folds
  <2>6. g[{}] = NoTables  BY <2>4 DEF Folds
  <2>7. Is(g)  BY <1>1, <2>5, <2>6
  <2> QED  BY <2>7
<1>4. Is(f)  BY <1>3 DEF TableRun
<1>5. f[{}] = NoTables  BY <1>4
<1>6. ASSUME NEW k \in Nat, k < n
      PROVE  f[1..(k + 1)] = CheckTable(f[1..k], tables[k + 1])
  <2> HIDE DEF f, n
  <2>1. /\ 1..(k + 1) \in SUBSET (1..n) /\ 1..(k + 1) # {}
        /\ Max(1..(k + 1)) = k + 1 /\ (1..(k + 1)) \ {k + 1} = 1..k
    BY <1>1, <1>6, FirstOnes
  <2>2. ASSUME NEW s \in SUBSET (1..n), s # {}
        PROVE  f[s] = CheckTable(f[s \ {Max(s)}], tables[Max(s)])
    BY <1>1, <1>4, <2>2
  <2> QED  BY <2>1, <2>2
<1> QED  BY <1>2, <1>5, <1>6

\* The pass has looked at k tables.
HasChecked(tables, k, acc) ==
    /\ acc \in TablesSeen
    /\ DOMAIN acc.columns = {tables[i].name : i \in 1..k}
    /\ acc.issues = {} <=> \A i \in 1..k : /\ TableSound(tables[i])
                                           /\ \A j \in 1..k : tables[i].name = tables[j].name => i = j
    /\ acc.issues = {} => \A i \in 1..k : acc.columns[tables[i].name] = Names(tables[i].columns)

(* What it finds out: the columns of each name, and whether there is an issue. *)
LEMMA TablesMean ==
    ASSUME NEW tables \in Seq(TableType)
    PROVE  HasChecked(tables, Len(tables), CheckTables(tables))
<1> DEFINE n == Len(tables)
           f == TableRun(tables)
           T == {k \in Nat : k <= n => HasChecked(tables, k, f[1..k])}
<1>1. n \in Nat /\ \A i \in 1..n : tables[i] \in TableType
  OBVIOUS
<1>2. /\ CheckTables(tables) = f[1..n] /\ f[{}] = NoTables
      /\ \A k \in Nat : k < n => f[1..(k + 1)] = CheckTable(f[1..k], tables[k + 1])
  BY TablesRun
<1> HIDE DEF n, f
<1>3. 0 \in T
  <2>1. 1..0 = {}  OBVIOUS
  <2>2. [n0 \in {} |-> {}] \in [{} -> SUBSET STRING] /\ {} \in SUBSET STRING  OBVIOUS
  <2>3. HasChecked(tables, 0, NoTables)  BY <2>1, <2>2 DEF HasChecked, NoTables, TablesSeen
  <2> QED  BY <1>2, <2>1, <2>3
<1>4. ASSUME NEW k \in Nat, k \in T PROVE k + 1 \in T
  <2> SUFFICES ASSUME k + 1 <= n PROVE HasChecked(tables, k + 1, f[1..(k + 1)])
    <3> HIDE DEF HasChecked
    <3> QED  OBVIOUS
  <2> DEFINE acc == f[1..k]
             new == f[1..(k + 1)]
             t == tables[k + 1]
  <2>1. HasChecked(tables, k, acc) /\ k < n
    <3>1. k < n /\ k <= n  BY <1>1
    <3> HIDE DEF HasChecked
    <3> QED  BY <1>4, <3>1
  <2>2. new = CheckTable(acc, t) /\ t \in TableType
    BY <1>1, <1>2, <2>1
  <2> HIDE DEF acc, new, t
  <2>3. acc \in TablesSeen  BY <2>1 DEF HasChecked
  <2>4. /\ new \in TablesSeen
        /\ DOMAIN new.columns = DOMAIN acc.columns \cup {t.name}
        /\ new.columns[t.name] = Names(t.columns)
        /\ \A m \in DOMAIN acc.columns : m # t.name => new.columns[m] = acc.columns[m]
        /\ (new.issues = {}) <=> (acc.issues = {} /\ TableSound(t) /\ t.name \notin DOMAIN acc.columns)
    BY <2>2, <2>3, OneTable
  <2>5. 1..(k + 1) = (1..k) \cup {k + 1}  OBVIOUS
  <2>6. /\ DOMAIN acc.columns = {tables[i].name : i \in 1..k}
        /\ acc.issues = {} => \A i \in 1..k : acc.columns[tables[i].name] = Names(tables[i].columns)
        /\ acc.issues = {} <=> \A i \in 1..k :
             /\ TableSound(tables[i])
             /\ \A j \in 1..k : tables[i].name = tables[j].name => i = j
    BY <2>1 DEF HasChecked
  <2>7. DOMAIN new.columns = {tables[i].name : i \in 1..(k + 1)}
    BY <2>4, <2>5, <2>6 DEF t
  <2>8. t.name \notin DOMAIN acc.columns <=> \A i \in 1..k : tables[i].name # tables[k + 1].name
    BY <2>6 DEF t
  <2>9. new.issues = {} <=> \A i \in 1..(k + 1) :
          /\ TableSound(tables[i])
          /\ \A j \in 1..(k + 1) : tables[i].name = tables[j].name => i = j
    <3>1. k + 1 \notin 1..k  OBVIOUS
    <3> HIDE DEF TableSound
    <3> QED  BY <2>4, <2>5, <2>6, <2>8, <3>1 DEF t
  <2>10. ASSUME new.issues = {}, NEW i \in 1..(k + 1)
         PROVE  new.columns[tables[i].name] = Names(tables[i].columns)
    <3>1. acc.issues = {} /\ t.name \notin DOMAIN acc.columns  BY <2>4, <2>10
    <3>2. CASE i = k + 1  BY <2>4, <3>2 DEF t
    <3>3. CASE i \in 1..k
      <4>1. tables[i].name \in DOMAIN acc.columns  BY <2>6, <3>3
      <4>2. tables[i].name # t.name  BY <3>1, <4>1
      <4> QED  BY <2>4, <2>6, <3>1, <3>3, <4>1, <4>2
    <3> QED  BY <2>5, <3>2, <3>3
  <2>11. HasChecked(tables, k + 1, new)  BY <2>4, <2>7, <2>9, <2>10 DEF HasChecked
  <2> QED  BY <2>11 DEF new
<1>5. n \in T  BY <1>1, <1>3, <1>4, Induct
<1> QED  BY <1>1, <1>2, <1>5 DEF n

(* The second loop finds no issue exactly when all references lead somewhere. *)
LEMMA KeysMean ==
    ASSUME NEW tables, NEW columns
    PROVE  (CheckKeys(tables, columns) = {}) <=>
             \A i \in DOMAIN tables :
               /\ tables[i].indexed \subseteq columns[tables[i].name]
               /\ \A fk \in tables[i].fks : /\ fk[1] \in columns[tables[i].name]
                                            /\ fk[2] \in DOMAIN columns /\ fk[3] \in columns[fk[2]]
<1> DEFINE A(i) == {<<"local column", tables[i].name, fk[1]>> :
                     fk \in {f \in tables[i].fks : f[1] \notin columns[tables[i].name]}}
           B(i) == {<<"missing table", tables[i].name, fk[2]>> :
                     fk \in {f \in tables[i].fks : f[2] \notin DOMAIN columns}}
           C(i) == {<<"missing column", tables[i].name, fk[3]>> :
                     fk \in {f \in tables[i].fks : f[2] \in DOMAIN columns /\ f[3] \notin columns[f[2]]}}
           D(i) == {<<"index", tables[i].name, c>> : c \in tables[i].indexed \ columns[tables[i].name]}
<1>1. CheckKeys(tables, columns) = UNION {A(i) \cup B(i) \cup C(i) \cup D(i) : i \in DOMAIN tables}
  BY DEF CheckKeys
<1>2. ASSUME NEW i \in DOMAIN tables
      PROVE  /\ A(i) = {} <=> \A fk \in tables[i].fks : fk[1] \in columns[tables[i].name]
             /\ B(i) = {} <=> \A fk \in tables[i].fks : fk[2] \in DOMAIN columns
             /\ C(i) = {} <=> \A fk \in tables[i].fks : fk[2] \in DOMAIN columns => fk[3] \in columns[fk[2]]
             /\ D(i) = {} <=> tables[i].indexed \subseteq columns[tables[i].name]
  OBVIOUS
<1> HIDE DEF A, B, C, D
<1>3. CheckKeys(tables, columns) = {} <=>
        \A i \in DOMAIN tables : A(i) = {} /\ B(i) = {} /\ C(i) = {} /\ D(i) = {}
  BY <1>1
<1> QED  BY <1>2, <1>3

(* No issue is: well-formed. *)
LEMMA SchemaIsExact ==
    ASSUME NEW tables \in Seq(TableType)
    PROVE  (ValidateSchema(tables) = {}) = WellFormed(tables)
<1> DEFINE first == CheckTables(tables)
           cols == first.columns
           Keyed(i) == /\ tables[i].indexed \subseteq Names(tables[i].columns)
                       /\ \A fk \in tables[i].fks : /\ fk[1] \in Names(tables[i].columns)
                                                    /\ fk[3] \in ColumnsOf(tables, fk[2])
<1>1. CASE tables = <<>>
  BY <1>1 DEF ValidateSchema, WellFormed
<1>2. CASE tables # <<>>
  <2>1. DOMAIN tables = 1..Len(tables)  OBVIOUS
  <2>2. /\ DOMAIN cols = Names(tables)
        /\ first.issues = {} <=> NoRepeats(tables) /\ \A i \in DOMAIN tables : TableSound(tables[i])
        /\ first.issues = {} => \A i \in DOMAIN tables : cols[tables[i].name] = Names(tables[i].columns)
    <3> HIDE DEF first
    <3> QED  BY <2>1, TablesMean DEF HasChecked, Names, NoRepeats, first
  <2> HIDE DEF first
  <2>3. ValidateSchema(tables) = {} <=> first.issues = {} /\ CheckKeys(tables, cols) = {}
    BY <1>2 DEF ValidateSchema, first
  <2>4. WellFormed(tables) <=> first.issues = {} /\ \A i \in DOMAIN tables : Keyed(i)
    <3>1. (\A i \in DOMAIN tables : tables[i].name \in Ident) <=> Names(tables) \subseteq Ident
      BY DEF Names
    <3> QED  BY <1>2, <2>2, <3>1 DEF WellFormed, TableSound
  <2>5. ASSUME first.issues = {}
        PROVE  CheckKeys(tables, cols) = {} <=> \A i \in DOMAIN tables : Keyed(i)
    <3>1. ASSUME NEW n
          PROVE  /\ n \in DOMAIN cols => ColumnsOf(tables, n) = cols[n]
                 /\ n \notin DOMAIN cols => ColumnsOf(tables, n) = {}
      <4>1. CASE n \in DOMAIN cols
        <5>1. PICK i \in DOMAIN tables : tables[i].name = n  BY <2>2, <4>1 DEF Names
        <5>2. {k \in DOMAIN tables : tables[k].name = n} = {i}  BY <2>2, <2>5, <5>1 DEF NoRepeats
        <5>3. ColumnsOf(tables, n) = Names(tables[i].columns)  BY <5>2 DEF ColumnsOf
        <5> QED  BY <2>2, <2>5, <4>1, <5>1, <5>3
      <4>2. CASE n \notin DOMAIN cols
        <5>1. {k \in DOMAIN tables : tables[k].name = n} = {}  BY <2>2, <4>2 DEF Names
        <5> QED  BY <4>2, <5>1 DEF ColumnsOf
      <4> QED  BY <4>1, <4>2
    <3>2. \A i \in DOMAIN tables : cols[tables[i].name] = Names(tables[i].columns)  BY <2>2, <2>5
    <3>3. \A fk : fk[2] \in DOMAIN cols /\ fk[3] \in cols[fk[2]] <=> fk[3] \in ColumnsOf(tables, fk[2])
      BY <3>1
    <3> QED  BY <3>2, <3>3, KeysMean
  <2>6. ValidateSchema(tables) = {} <=> WellFormed(tables)
    <3> HIDE DEF Keyed, cols
    <3> QED  BY <2>3, <2>4, <2>5
  <2>7. WellFormed(tables) \in BOOLEAN  BY DEF WellFormed
  <2> QED  BY <2>6, <2>7
<1> QED  BY <1>1, <1>2

-----------------------------------------------------------------------------
\* Of what a script may hold, only the plain statement passes for its word.
OnlyPlain(word, plain) == \A s \in SqlStatements :
    (~s.unsafe /\ s.parses /\ \A j \in DOMAIN s.pieces : s.pieces[j] = word) <=> s = plain

(* The one statement of each kind that passes all three tests. *)
LEMMA PlainStatements == OnlyPlain("CREATE", CreateTable) /\ OnlyPlain("INSERT", InsertRow)
BY DEF OnlyPlain, SqlStatements, CreateTable, InsertRow, Statement

(* One script: no issue is nothing but plain statements. *)
LEMMA ScriptMeans ==
    ASSUME NEW kind, NEW statements \in Seq(SqlStatements), NEW word, NEW plain, OnlyPlain(word, plain)
    PROVE  (ScriptIssues(kind, statements, word) = {}) <=> ToSet(statements) \subseteq {plain}
<1> DEFINE A == IF \E i \in DOMAIN statements : statements[i].unsafe THEN {"unsafe"} ELSE {}
           B == IF \A i \in DOMAIN statements : statements[i].parses THEN {} ELSE {"parse", "no statements"}
           C == IF Foreign(statements, word) THEN {"only " \o word} ELSE {}
<1>1. ScriptIssues(kind, statements, word) = {<<what, kind>> : what \in A \cup B \cup C}
  BY DEF ScriptIssues
<1>2. A = {} <=> \A i \in DOMAIN statements : ~statements[i].unsafe  OBVIOUS
<1>3. B = {} <=> \A i \in DOMAIN statements : statements[i].parses  OBVIOUS
<1>4. C = {} <=> \A i \in DOMAIN statements : \A j \in DOMAIN statements[i].pieces :
                   statements[i].pieces[j] = word
  BY DEF Foreign
<1> HIDE DEF A, B, C
<1>5. ScriptIssues(kind, statements, word) = {} <=> A = {} /\ B = {} /\ C = {}  BY <1>1
<1>6. ScriptIssues(kind, statements, word) = {} <=> \A i \in DOMAIN statements : statements[i] = plain
  <2>1. \A i \in DOMAIN statements : statements[i] \in SqlStatements  OBVIOUS
  <2> QED  BY <1>2, <1>3, <1>4, <1>5, <2>1 DEF OnlyPlain
<1>7. ToSet(statements) = {statements[i] : i \in DOMAIN statements}  BY DEF ToSet
<1> QED  BY <1>6, <1>7

LEMMA ScriptIsExact ==
    ASSUME NEW sql \in [ddl : Seq(SqlStatements), seed : Seq(SqlStatements)]
    PROVE  (ValidateSql(sql.ddl, sql.seed) = {}) = WellWritten(sql)
<1>1. ScriptIssues("ddl", sql.ddl, "CREATE") = {} <=> ToSet(sql.ddl) \subseteq {CreateTable}
  BY PlainStatements, ScriptMeans
<1>2. ScriptIssues("seed", sql.seed, "INSERT") = {} <=> ToSet(sql.seed) \subseteq {InsertRow}
  BY PlainStatements, ScriptMeans
<1>3. ToSet(<<>>) = {}  BY DEF ToSet
<1>4. ValidateSql(sql.ddl, sql.seed) = {} <=> WellWritten(sql)
  BY <1>1, <1>2, <1>3 DEF ValidateSql, WellWritten
<1> QED  BY <1>4 DEF WellWritten

(* What the generators of the schema agent return: any tables, and any statements of the two scripts. *)
Generated == design \in Seq(TableType) /\ script \in [ddl : Seq(SqlStatements), seed : Seq(SqlStatements)]

LEMMA WhateverIsGenerated == ASSUME DesignInit \/ ScriptInit PROVE Generated
<1>1. design \in Seq(TableType)
  <2>1. ASSUME NEW n \in Nat, NEW s \in [1..n -> SchemaTable] PROVE s \in Seq(TableType)
    <3>1. s \in [1..n -> TableType]  BY CheckAssumption
    <3> QED  BY <3>1
  <2>2. 0..MaxTables \subseteq Nat  BY CheckAssumption
  <2>3. <<>> \in Seq(TableType)  OBVIOUS
  <2> QED  BY <2>1, <2>2, <2>3 DEF DesignInit, ScriptInit
<1>2. script \in [ddl : Seq(SqlStatements), seed : Seq(SqlStatements)]
  <2>1. ASSUME NEW n \in Nat, NEW s \in [1..n -> SqlStatements] PROVE s \in Seq(SqlStatements)
    OBVIOUS
  <2>2. 0..MaxStatements \subseteq Nat  BY CheckAssumption
  <2>3. NoScript \in [ddl : Seq(SqlStatements), seed : Seq(SqlStatements)]  BY DEF NoScript
  <2> QED  BY <2>1, <2>2, <2>3 DEF DesignInit, ScriptInit
<1> QED  BY <1>1, <1>2 DEF Generated

(* validate_schema_payload and validate_sql_payload find an issue exactly in what is not      *)
(* well-formed: in schemas of any number of tables and columns, with any names, keys and      *)
(* indexes, and in scripts of any length, one result of the generators after another.         *)
THEOREM ValidatorsAreExact ==
    (DesignInit \/ ScriptInit) /\ [][Generated']_<<design, script>> => []IssuesMatchReference
<1>1. DesignInit \/ ScriptInit => Generated  BY WhateverIsGenerated
<1>2. Generated /\ [Generated']_<<design, script>> => Generated'  BY DEF Generated
<1>3. Generated => IssuesMatchReference
  BY SchemaIsExact, ScriptIsExact DEF Generated, IssuesMatchReference
<1> QED  BY <1>1, <1>2, <1>3, PTL

-----------------------------------------------------------------------------
(* HistoryFormat: the three readers *)

PartType == [kind : {"reasoning", "tool-call", "text", "tool-result"}, from : Nat]
ChatMessage == [role : {"user", "assistant"}, parts : Seq(PartType), usage : Nat]
ChatReading == [done : Seq(ChatMessage), open : {Closed} \cup {m \in ChatMessage : m.role = "assistant"}]

(* The texts among parts, one more part, and among two lists of parts. *)
LEMMA PartTextsAppend ==
    ASSUME NEW raw, NEW p \in Seq(PartType)
    PROVE  /\ PartTexts(raw, p) \in Seq(Nat) /\ PartTexts(raw, <<>>) = <<>>
           /\ \A x \in PartType : PartTexts(raw, Append(p, x)) = PartTexts(raw, p) \o If(x.kind = "text" /\ raw[x.from].text, <<x.from>>)
<1> DEFINE Text(y) == If(y.kind = "text" /\ raw[y.from].text, <<y.from>>)
           M(s) == [j \in DOMAIN s |-> Text(s[j])]
<1>1. \A s : PartTexts(raw, s) = FlattenSeq(M(s))  BY DEF PartTexts
<1>2. \A y \in PartType : Text(y) \in Seq(Nat)  BY DEF If, PartType
<1> HIDE DEF Text
<1>3. M(p) \in Seq(Seq(Nat)) /\ <<>> \in Seq(Nat)
  <2>1. M(p) \in [1..Len(p) -> Seq(Nat)]  BY <1>2
  <2>2. Len(p) \in Nat /\ <<>> \in Seq(Nat)  OBVIOUS
  <2> HIDE DEF M
  <2>3. M(p) \in Seq(Seq(Nat))  BY <2>1, <2>2, IsSeq
  <2> QED  BY <2>2, <2>3
<1>4. \A x \in PartType : M(Append(p, x)) = Append(M(p), Text(x))
  OBVIOUS
<1>5. M(<<>>) = <<>>  OBVIOUS
<1> HIDE DEF M
<1>6. FlattenSeq(M(p)) \in Seq(Nat) /\ FlattenSeq(<<>>) = <<>>  BY <1>3, FlattenAppend
<1>7. ASSUME NEW x \in PartType
      PROVE  PartTexts(raw, Append(p, x)) = PartTexts(raw, p) \o Text(x)
  <2>1. FlattenSeq(Append(M(p), Text(x))) = FlattenSeq(M(p)) \o Text(x)  BY <1>2, <1>3, FlattenAppend
  <2> QED  BY <1>1, <1>4, <2>1
<1> QED  BY <1>1, <1>5, <1>6, <1>7 DEF Text

LEMMA PartTextsConcat ==
    ASSUME NEW raw, NEW p \in Seq(PartType), NEW q \in Seq(PartType)
    PROVE  PartTexts(raw, p \o q) = PartTexts(raw, p) \o PartTexts(raw, q)
<1> DEFINE Text(y) == If(y.kind = "text" /\ raw[y.from].text, <<y.from>>)
           T == {u \in Seq(PartType) : PartTexts(raw, p \o u) = PartTexts(raw, p) \o PartTexts(raw, u)}
<1>1. <<>> \in T
  <2>1. p \o <<>> = p /\ <<>> \in Seq(PartType)  OBVIOUS
  <2>2. PartTexts(raw, <<>>) = <<>> /\ PartTexts(raw, p) \in Seq(Nat)  BY <2>1, PartTextsAppend
  <2>3. PartTexts(raw, p) \o <<>> = PartTexts(raw, p)  BY <2>2
  <2> QED  BY <2>1, <2>2, <2>3
<1>2. ASSUME NEW u \in Seq(PartType), NEW x \in PartType, u \in T PROVE Append(u, x) \in T
  <2>1. p \o Append(u, x) = Append(p \o u, x) /\ p \o u \in Seq(PartType) /\ Append(u, x) \in Seq(PartType)
    OBVIOUS
  <2>2. Text(x) \in Seq(Nat)  BY DEF If, PartType
  <2>3. PartTexts(raw, Append(p \o u, x)) = PartTexts(raw, p \o u) \o Text(x)  BY <2>1, PartTextsAppend
  <2>4. PartTexts(raw, Append(u, x)) = PartTexts(raw, u) \o Text(x)  BY PartTextsAppend
  <2>5. PartTexts(raw, p) \in Seq(Nat) /\ PartTexts(raw, u) \in Seq(Nat)  BY PartTextsAppend
  <2> HIDE DEF Text
  <2>6. (PartTexts(raw, p) \o PartTexts(raw, u)) \o Text(x) = PartTexts(raw, p) \o (PartTexts(raw, u) \o Text(x))
    BY <2>2, <2>5
  <2> QED  BY <1>2, <2>1, <2>3, <2>4, <2>6
<1>3. Seq(PartType) \subseteq T  BY <1>1, <1>2, SeqInduct
<1> QED  BY <1>3

LEMMA TextsConcat ==
    ASSUME NEW raw, NEW p \in Seq(Nat), NEW x \in Nat
    PROVE  /\ Texts(raw, p) \in Seq(Nat) /\ Texts(raw, <<>>) = <<>>
           /\ Texts(raw, Append(p, x)) = Texts(raw, p) \o If(raw[x].text, <<x>>)
<1> DEFINE Text(y) == If(raw[y].text, <<y>>)
           M(s) == [j \in DOMAIN s |-> Text(s[j])]
<1>1. \A s : Texts(raw, s) = FlattenSeq(M(s))  BY DEF Texts
<1>2. \A y \in Nat : Text(y) \in Seq(Nat)  BY DEF If
<1> HIDE DEF Text
<1>3. M(p) \in Seq(Seq(Nat)) /\ <<>> \in Seq(Nat)
  <2>1. M(p) \in [1..Len(p) -> Seq(Nat)]  BY <1>2
  <2>2. Len(p) \in Nat /\ <<>> \in Seq(Nat)  OBVIOUS
  <2> HIDE DEF M
  <2>3. M(p) \in Seq(Seq(Nat))  BY <2>1, <2>2, IsSeq
  <2> QED  BY <2>2, <2>3
<1>4. M(Append(p, x)) = Append(M(p), Text(x))
  OBVIOUS
<1>5. M(<<>>) = <<>>  OBVIOUS
<1> HIDE DEF M
<1>6. FlattenSeq(M(p)) \in Seq(Nat) /\ FlattenSeq(<<>>) = <<>>  BY <1>3, FlattenAppend
<1>7. FlattenSeq(Append(M(p), Text(x))) = FlattenSeq(M(p)) \o Text(x)  BY <1>2, <1>3, FlattenAppend
<1>8. Texts(raw, Append(p, x)) = Texts(raw, p) \o Text(x)  BY <1>1, <1>4, <1>7
<1> QED  BY <1>1, <1>5, <1>6, <1>8 DEF Text

LEMMA AiPartsAre ==
    ASSUME NEW m \in Message, NEW i \in Nat
    PROVE  AiParts(m, i) \in Seq(PartType)
<1>1. m.calls \in Nat  BY DEF Message
<1>2. \A kind \in {"reasoning", "tool-call", "text"} : Part(kind, i) \in PartType  BY DEF Part, PartType
<1>3. /\ If(m.reasoning, <<Part("reasoning", i)>>) \in Seq(PartType)
      /\ If(m.text, <<Part("text", i)>>) \in Seq(PartType)
  BY <1>2 DEF If
<1>4. [c \in 1..m.calls |-> Part("tool-call", i)] \in Seq(PartType)  BY <1>1, <1>2
<1> QED  BY <1>3, <1>4 DEF AiParts

LEMMA Updated ==
    ASSUME NEW m \in ChatMessage, NEW p \in Seq(PartType)
    PROVE  [m EXCEPT !.parts = p] = [role |-> m.role, parts |-> p, usage |-> m.usage]
BY DEF ChatMessage

OpenUsage(acc) == IF acc.open = Closed THEN 0 ELSE acc.open.usage

(* One message for format_chat_history: what it becomes of a reading, by its type. *)
LEMMA ChatStep ==
    ASSUME NEW raw \in Seq(Message), NEW acc \in ChatReading, NEW i \in 1..Len(raw)
    PROVE  LET new == ReadChat(raw, acc, i) IN
           /\ new \in ChatReading
           /\ raw[i].type = "human" =>
                new = [done |-> Append(acc.done \o If(acc.open.parts # <<>>, <<acc.open>>), UserMessage(i)),
                       open |-> Closed]
           /\ raw[i].type = "ai" =>
                new = [done |-> acc.done,
                       open |-> [role |-> "assistant", parts |-> acc.open.parts \o AiParts(raw[i], i),
                                 usage |-> IF raw[i].usage THEN i ELSE OpenUsage(acc)]]
           /\ raw[i].type = "tool" =>
                new = [done |-> acc.done,
                       open |-> [role |-> "assistant", parts |-> Append(acc.open.parts, Part("tool-result", i)),
                                 usage |-> OpenUsage(acc)]]
           /\ raw[i].type = "system" => new = acc
<1> DEFINE new == ReadChat(raw, acc, i)
<1>1. raw[i] \in Message /\ raw[i].type \in {"human", "ai", "tool", "system"} /\ i \in Nat
  BY DEF Message
<1>2. acc.done \in Seq(ChatMessage) /\ acc = [done |-> acc.done, open |-> acc.open]
      /\ (acc.open = Closed \/ (acc.open \in ChatMessage /\ acc.open.role = "assistant"))
  BY DEF ChatReading
<1>3. acc.open.parts \in Seq(PartType)
  <2>1. CASE acc.open = Closed
    <3>1. acc.open.parts = <<>>  BY <2>1 DEF Closed
    <3> QED  BY <3>1
  <2>2. CASE acc.open \in ChatMessage  BY <2>2 DEF ChatMessage
  <2> QED  BY <1>2, <2>1, <2>2
<1>4. Opened(acc) = [role |-> "assistant", parts |-> acc.open.parts, usage |-> OpenUsage(acc)]
  <2>1. CASE acc.open = Closed  BY <2>1 DEF Opened, NewAssistant, OpenUsage, Closed
  <2>2. CASE acc.open # Closed  BY <1>2, <2>2 DEF Opened, OpenUsage, ChatMessage
  <2> QED  BY <2>1, <2>2
<1>5. OpenUsage(acc) \in Nat  BY <1>2 DEF OpenUsage, ChatMessage
<1>10. /\ Opened(acc) \in ChatMessage /\ Opened(acc).role = "assistant"
       /\ Opened(acc).parts = acc.open.parts /\ Opened(acc).usage = OpenUsage(acc)
  BY <1>3, <1>4, <1>5 DEF ChatMessage
<1>6. CASE raw[i].type = "human"
  <2>1. new = [done |-> Append(acc.done \o If(acc.open.parts # <<>>, <<acc.open>>), UserMessage(i)),
               open |-> Closed]
    BY <1>6 DEF ReadChat, CloseAssistant
  <2>2. acc.open.parts # <<>> => acc.open \in ChatMessage  BY <1>2 DEF Closed
  <2>3. If(acc.open.parts # <<>>, <<acc.open>>) \in Seq(ChatMessage)  BY <2>2 DEF If
  <2>4. UserMessage(i) \in ChatMessage  BY <1>1 DEF UserMessage, ChatMessage, Part, PartType
  <2>5. new \in ChatReading  BY <1>2, <2>1, <2>3, <2>4 DEF ChatReading
  <2> QED  BY <1>6, <2>1, <2>5
<1>7. CASE raw[i].type = "ai"
  <2> DEFINE o == [role |-> "assistant", parts |-> acc.open.parts \o AiParts(raw[i], i),
                   usage |-> IF raw[i].usage THEN i ELSE OpenUsage(acc)]
  <2>2. acc.open.parts \o AiParts(raw[i], i) \in Seq(PartType)
    <3>1. AiParts(raw[i], i) \in Seq(PartType)  BY <1>1, AiPartsAre
    <3>2. \A s, t \in Seq(PartType) : s \o t \in Seq(PartType)  OBVIOUS
    <3> HIDE DEF o, new
    <3> QED  BY <1>3, <3>1, <3>2
  <2>1. new = [done |-> acc.done, open |-> o]
    <3>1. new = [acc EXCEPT !.open = [Opened(acc) EXCEPT !.parts = @ \o AiParts(raw[i], i),
                                                !.usage = IF raw[i].usage THEN i ELSE @]]
      BY <1>7 DEF ReadChat
    <3>2. [Opened(acc) EXCEPT !.parts = @ \o AiParts(raw[i], i),
                                                !.usage = IF raw[i].usage THEN i ELSE @] = o
      <4> DEFINE m == Opened(acc)
                 P == acc.open.parts \o AiParts(raw[i], i)
                 U == IF raw[i].usage THEN i ELSE OpenUsage(acc)
                 a == [m EXCEPT !.parts = P, !.usage = U]
      <4>1. m \in ChatMessage /\ m.role = "assistant" /\ m.parts = acc.open.parts /\ m.usage = OpenUsage(acc)
        BY <1>10
      <4>2. P \in Seq(PartType) /\ U \in Nat  BY <1>1, <1>5, <2>2
      <4> HIDE DEF m, P, U
      <4> DEFINE b == [role |-> "assistant", parts |-> P, usage |-> U]
      <4>3. a \in ChatMessage /\ a.role = "assistant" /\ a.parts = P /\ a.usage = U
        BY <4>1, <4>2 DEF ChatMessage
      <4>4. b \in ChatMessage /\ b.role = "assistant" /\ b.parts = P /\ b.usage = U
        BY <4>2 DEF ChatMessage
      <4> HIDE DEF a, b
      <4>5. a = b  BY <4>3, <4>4 DEF ChatMessage
      <4> QED  BY <4>1, <4>5 DEF a, b, m, P, U
    <3> HIDE DEF o, new
    <3> QED  BY <1>2, <3>1, <3>2
  <2>3. o \in ChatMessage /\ o.role = "assistant"  BY <1>1, <1>5, <2>2 DEF ChatMessage
  <2>4. new \in ChatReading
    <3> HIDE DEF o, new
    <3> QED  BY <1>2, <2>1, <2>3 DEF ChatReading
  <2> HIDE DEF new
  <2> QED  BY <1>7, <2>1, <2>4 DEF o, new
<1>8. CASE raw[i].type = "tool"
  <2> DEFINE o == [role |-> "assistant", parts |-> Append(acc.open.parts, Part("tool-result", i)),
                   usage |-> OpenUsage(acc)]
  <2>2. Append(acc.open.parts, Part("tool-result", i)) \in Seq(PartType)  BY <1>1, <1>3 DEF Part, PartType
  <2>1. new = [done |-> acc.done, open |-> o]
    <3>1. new = [acc EXCEPT !.open = [Opened(acc) EXCEPT !.parts = Append(@, Part("tool-result", i))]]
      BY <1>8 DEF ReadChat
    <3>2. [Opened(acc) EXCEPT !.parts = Append(@, Part("tool-result", i))] = o
      BY <1>1, <1>5, <1>10, <2>2, Updated
    <3> HIDE DEF o, new
    <3> QED  BY <1>2, <3>1, <3>2
  <2>3. o \in ChatMessage /\ o.role = "assistant"  BY <1>1, <1>5, <2>2 DEF ChatMessage
  <2>4. new \in ChatReading
    <3> HIDE DEF o, new
    <3> QED  BY <1>2, <2>1, <2>3 DEF ChatReading
  <2> HIDE DEF new
  <2> QED  BY <1>8, <2>1, <2>4 DEF o, new
<1>9. CASE raw[i].type = "system"
  <2>1. new = acc  BY <1>9 DEF ReadChat
  <2> QED  BY <1>9, <2>1
<1> QED  BY <1>1, <1>6, <1>7, <1>8, <1>9

ChatRun(raw) == CHOOSE iter : iter = [s \in SUBSET DOMAIN [i \in DOMAIN raw |-> i] |->
    IF s = {} THEN NoChat ELSE ReadChat(raw, iter[s \ {Max(s)}], [i \in DOMAIN raw |-> i][Max(s)])]

(* format_chat_history, message by message. *)
LEMMA ChatRuns ==
    ASSUME NEW raw \in Seq(Message)
    PROVE  LET n == Len(raw)  f == ChatRun(raw) IN
           /\ FormatChatHistory(raw) = CloseAssistant(f[1..n]).done
           /\ f[{}] = NoChat /\ NoChat \in ChatReading
           /\ \A k \in Nat : k < n => f[1..(k + 1)] = ReadChat(raw, f[1..k], k + 1)
<1> DEFINE n == Len(raw)
           f == ChatRun(raw)
           G == [p \in ChatReading \X (1..n) |-> ReadChat(raw, p[1], p[2])]
           Is(iter) == iter = [s \in SUBSET DOMAIN [i \in DOMAIN raw |-> i] |->
              IF s = {} THEN NoChat ELSE ReadChat(raw, iter[s \ {Max(s)}], [i \in DOMAIN raw |-> i][Max(s)])]
<1>1. n \in Nat /\ DOMAIN raw = 1..n /\ DOMAIN [i \in DOMAIN raw |-> i] = 1..n
  OBVIOUS
<1>2. FormatChatHistory(raw) = CloseAssistant(f[1..n]).done
  BY <1>1 DEF FormatChatHistory, FoldLeftDomain, FoldLeft, MapThenFoldSet, ChatRun
<1>3. NoChat \in ChatReading  BY DEF NoChat, ChatReading
<1>4. \E iter : Is(iter)
  <2>1. \A v \in ChatReading, i \in 1..n : G[<<v, i>>] = ReadChat(raw, v, i)
    OBVIOUS
  <2>2. \A v \in ChatReading, i \in 1..n : G[<<v, i>>] \in ChatReading
    BY <2>1, ChatStep
  <2> HIDE DEF G
  <2>3. PICK g \in [SUBSET (1..n) -> ChatReading] : Folds(g, G, NoChat, n)
    <3> HIDE DEF n
    <3> QED  BY <1>1, <1>3, <2>2, FoldExists
  <2>4. ASSUME NEW s \in SUBSET (1..n), s # {}
        PROVE  g[s] = ReadChat(raw, g[s \ {Max(s)}], Max(s)) /\ Max(s) \in 1..n
    <3> HIDE DEF n
    <3>1. Max(s) \in 1..n  BY <1>1, <2>4, MaxIn
    <3>2. g[s \ {Max(s)}] \in ChatReading  OBVIOUS
    <3> QED  BY <2>1, <2>3, <2>4, <3>1, <3>2 DEF Folds
  <2>5. g[{}] = NoChat  BY <2>3 DEF Folds
  <2>6. Is(g)  BY <1>1, <2>4, <2>5
  <2> QED  BY <2>6
<1>5. Is(f)  BY <1>4 DEF ChatRun
<1>6. f[{}] = NoChat  BY <1>5
<1>7. ASSUME NEW k \in Nat, k < n
      PROVE  f[1..(k + 1)] = ReadChat(raw, f[1..k], k + 1)
  <2> HIDE DEF f, n
  <2>1. /\ 1..(k + 1) \in SUBSET (1..n) /\ 1..(k + 1) # {} /\ k + 1 \in 1..n
        /\ Max(1..(k + 1)) = k + 1 /\ (1..(k + 1)) \ {k + 1} = 1..k
    BY <1>1, <1>7, FirstOnes
  <2>2. ASSUME NEW s \in SUBSET (1..n), s # {}, Max(s) \in 1..n
        PROVE  f[s] = ReadChat(raw, f[s \ {Max(s)}], Max(s))
    BY <1>1, <1>5, <2>2
  <2> QED  BY <2>1, <2>2
<1> QED  BY <1>2, <1>3, <1>6, <1>7

-----------------------------------------------------------------------------
SchemaTurn == {"user", "assistant"} \X Seq(Nat)
SchemaReading == [turns : Seq(SchemaTurn), pending : Seq(Nat)]

(* One message for _format_schema_history. *)
LEMMA SchemaStep ==
    ASSUME NEW raw \in Seq(Message), NEW acc \in SchemaReading, NEW i \in 1..Len(raw)
    PROVE  LET new == ReadSchema(raw, acc, i) IN
           /\ new \in SchemaReading
           /\ raw[i].type = "human" =>
                new = [turns |-> Append(acc.turns \o If(acc.pending # <<>>, <<<<"assistant", acc.pending>>>>),
                                        <<"user", <<i>>>>),
                       pending |-> <<>>]
           /\ raw[i].type = "ai" /\ raw[i].text =>
                new = [turns |-> acc.turns, pending |-> Append(acc.pending, i)]
           /\ raw[i].type # "human" /\ ~(raw[i].type = "ai" /\ raw[i].text) => new = acc
<1> DEFINE new == ReadSchema(raw, acc, i)
<1>1. acc.turns \in Seq(SchemaTurn) /\ acc.pending \in Seq(Nat) /\ i \in Nat
      /\ acc = [turns |-> acc.turns, pending |-> acc.pending]
  BY DEF SchemaReading
<1>2. CASE raw[i].type = "human"
  <2>1. new = [turns |-> Append(acc.turns \o If(acc.pending # <<>>, <<<<"assistant", acc.pending>>>>),
                                <<"user", <<i>>>>),
               pending |-> <<>>]
    BY <1>2 DEF ReadSchema, FlushAssistant
  <2>2. <<"assistant", acc.pending>> \in SchemaTurn /\ <<"user", <<i>>>> \in SchemaTurn
    <3>1. <<i>> \in Seq(Nat)  BY <1>1
    <3> QED  BY <1>1, <3>1 DEF SchemaTurn
  <2>3. If(acc.pending # <<>>, <<<<"assistant", acc.pending>>>>) \in Seq(SchemaTurn)
    BY <2>2 DEF If
  <2>4. new \in SchemaReading
    <3> HIDE DEF new
    <3> QED  BY <1>1, <2>1, <2>2, <2>3 DEF SchemaReading
  <2> QED  BY <1>2, <2>1, <2>4
<1>3. CASE raw[i].type = "ai" /\ raw[i].text
  <2>1. new = [turns |-> acc.turns, pending |-> Append(acc.pending, i)]
    <3>1. new = [acc EXCEPT !.pending = Append(acc.pending, i)]  BY <1>3 DEF ReadSchema
    <3> HIDE DEF new
    <3> QED  BY <1>1, <3>1
  <2>2. new \in SchemaReading
    <3> HIDE DEF new
    <3> QED  BY <1>1, <2>1 DEF SchemaReading
  <2> HIDE DEF new
  <2> QED  BY <1>3, <2>1, <2>2 DEF new
<1>4. CASE raw[i].type # "human" /\ ~(raw[i].type = "ai" /\ raw[i].text)
  <2>1. new = acc  BY <1>4 DEF ReadSchema
  <2> QED  BY <1>4, <2>1
<1> QED  BY <1>2, <1>3, <1>4

SchemaRun(raw) == CHOOSE iter : iter = [s \in SUBSET DOMAIN [i \in DOMAIN raw |-> i] |->
    IF s = {} THEN NoTurns ELSE ReadSchema(raw, iter[s \ {Max(s)}], [i \in DOMAIN raw |-> i][Max(s)])]

(* _format_schema_history, message by message. *)
LEMMA SchemaRuns ==
    ASSUME NEW raw \in Seq(Message)
    PROVE  LET n == Len(raw)  f == SchemaRun(raw) IN
           /\ FormatSchemaHistory(raw) = FlushAssistant(f[1..n]).turns
           /\ f[{}] = NoTurns /\ NoTurns \in SchemaReading
           /\ \A k \in Nat : k < n => f[1..(k + 1)] = ReadSchema(raw, f[1..k], k + 1)
<1> DEFINE n == Len(raw)
           f == SchemaRun(raw)
           G == [p \in SchemaReading \X (1..n) |-> ReadSchema(raw, p[1], p[2])]
           Is(iter) == iter = [s \in SUBSET DOMAIN [i \in DOMAIN raw |-> i] |->
              IF s = {} THEN NoTurns ELSE ReadSchema(raw, iter[s \ {Max(s)}], [i \in DOMAIN raw |-> i][Max(s)])]
<1>1. n \in Nat /\ DOMAIN raw = 1..n /\ DOMAIN [i \in DOMAIN raw |-> i] = 1..n
  OBVIOUS
<1>2. FormatSchemaHistory(raw) = FlushAssistant(f[1..n]).turns
  BY <1>1 DEF FormatSchemaHistory, FoldLeftDomain, FoldLeft, MapThenFoldSet, SchemaRun
<1>3. NoTurns \in SchemaReading  BY DEF NoTurns, SchemaReading
<1>4. \E iter : Is(iter)
  <2>1. \A v \in SchemaReading, i \in 1..n : G[<<v, i>>] = ReadSchema(raw, v, i)
    OBVIOUS
  <2>2. \A v \in SchemaReading, i \in 1..n : G[<<v, i>>] \in SchemaReading
    BY <2>1, SchemaStep
  <2> HIDE DEF G
  <2>3. PICK g \in [SUBSET (1..n) -> SchemaReading] : Folds(g, G, NoTurns, n)
    <3> HIDE DEF n
    <3> QED  BY <1>1, <1>3, <2>2, FoldExists
  <2>4. ASSUME NEW s \in SUBSET (1..n), s # {}
        PROVE  g[s] = ReadSchema(raw, g[s \ {Max(s)}], Max(s)) /\ Max(s) \in 1..n
    <3> HIDE DEF n
    <3>1. Max(s) \in 1..n  BY <1>1, <2>4, MaxIn
    <3>2. g[s \ {Max(s)}] \in SchemaReading  OBVIOUS
    <3> QED  BY <2>1, <2>3, <2>4, <3>1, <3>2 DEF Folds
  <2>5. g[{}] = NoTurns  BY <2>3 DEF Folds
  <2>6. Is(g)  BY <1>1, <2>4, <2>5
  <2> QED  BY <2>6
<1>5. Is(f)  BY <1>4 DEF SchemaRun
<1>6. f[{}] = NoTurns  BY <1>5
<1>7. ASSUME NEW k \in Nat, k < n
      PROVE  f[1..(k + 1)] = ReadSchema(raw, f[1..k], k + 1)
  <2> HIDE DEF f, n
  <2>1. /\ 1..(k + 1) \in SUBSET (1..n) /\ 1..(k + 1) # {} /\ k + 1 \in 1..n
        /\ Max(1..(k + 1)) = k + 1 /\ (1..(k + 1)) \ {k + 1} = 1..k
    BY <1>1, <1>7, FirstOnes
  <2>2. ASSUME NEW s \in SUBSET (1..n), s # {}, Max(s) \in 1..n
        PROVE  f[s] = ReadSchema(raw, f[s \ {Max(s)}], Max(s))
    BY <1>1, <1>5, <2>2
  <2> QED  BY <2>1, <2>2
<1> QED  BY <1>2, <1>3, <1>6, <1>7

-----------------------------------------------------------------------------
Turns == Seq({"user", "assistant"} \X Nat)

LEMMA TurnStep ==
    ASSUME NEW raw \in Seq(Message), NEW acc \in Turns, NEW i \in 1..Len(raw)
    PROVE  ReadTurn(raw, acc, i) \in Turns
<1>1. <<IF raw[i].type = "human" THEN "user" ELSE "assistant", i>> \in {"user", "assistant"} \X Nat
  OBVIOUS
<1> QED  BY <1>1 DEF ReadTurn, Turns

TurnRun(raw) == CHOOSE iter : iter = [s \in SUBSET DOMAIN [i \in DOMAIN raw |-> i] |->
    IF s = {} THEN <<>> ELSE ReadTurn(raw, iter[s \ {Max(s)}], [i \in DOMAIN raw |-> i][Max(s)])]

(* extract_turns, message by message. *)
LEMMA TurnRuns ==
    ASSUME NEW raw \in Seq(Message)
    PROVE  LET n == Len(raw)  f == TurnRun(raw) IN
           /\ ExtractTurns(raw) = f[1..n]
           /\ f[{}] = <<>> /\ <<>> \in Turns
           /\ \A k \in Nat : k < n => f[1..(k + 1)] = ReadTurn(raw, f[1..k], k + 1)
<1> DEFINE n == Len(raw)
           f == TurnRun(raw)
           G == [p \in Turns \X (1..n) |-> ReadTurn(raw, p[1], p[2])]
           Is(iter) == iter = [s \in SUBSET DOMAIN [i \in DOMAIN raw |-> i] |->
              IF s = {} THEN <<>> ELSE ReadTurn(raw, iter[s \ {Max(s)}], [i \in DOMAIN raw |-> i][Max(s)])]
<1>1. n \in Nat /\ DOMAIN raw = 1..n /\ DOMAIN [i \in DOMAIN raw |-> i] = 1..n
  OBVIOUS
<1>2. ExtractTurns(raw) = f[1..n]
  BY <1>1 DEF ExtractTurns, FoldLeftDomain, FoldLeft, MapThenFoldSet, TurnRun
<1>3. <<>> \in Turns  BY DEF Turns
<1>4. \E iter : Is(iter)
  <2>1. \A v \in Turns, i \in 1..n : G[<<v, i>>] = ReadTurn(raw, v, i)
    OBVIOUS
  <2>2. \A v \in Turns, i \in 1..n : G[<<v, i>>] \in Turns
    BY <2>1, TurnStep
  <2> HIDE DEF G
  <2>3. PICK g \in [SUBSET (1..n) -> Turns] : Folds(g, G, <<>>, n)
    <3> HIDE DEF n
    <3> QED  BY <1>1, <1>3, <2>2, FoldExists
  <2>4. ASSUME NEW s \in SUBSET (1..n), s # {}
        PROVE  g[s] = ReadTurn(raw, g[s \ {Max(s)}], Max(s)) /\ Max(s) \in 1..n
    <3> HIDE DEF n
    <3>1. Max(s) \in 1..n  BY <1>1, <2>4, MaxIn
    <3>2. g[s \ {Max(s)}] \in Turns  OBVIOUS
    <3> QED  BY <2>1, <2>3, <2>4, <3>1, <3>2 DEF Folds
  <2>5. g[{}] = <<>>  BY <2>3 DEF Folds
  <2>6. Is(g)  BY <1>1, <2>4, <2>5
  <2> QED  BY <2>6
<1>5. Is(f)  BY <1>4 DEF TurnRun
<1>6. f[{}] = <<>>  BY <1>5
<1>7. ASSUME NEW k \in Nat, k < n
      PROVE  f[1..(k + 1)] = ReadTurn(raw, f[1..k], k + 1)
  <2> HIDE DEF f, n
  <2>1. /\ 1..(k + 1) \in SUBSET (1..n) /\ 1..(k + 1) # {} /\ k + 1 \in 1..n
        /\ Max(1..(k + 1)) = k + 1 /\ (1..(k + 1)) \ {k + 1} = 1..k
    BY <1>1, <1>7, FirstOnes
  <2>2. ASSUME NEW s \in SUBSET (1..n), s # {}, Max(s) \in 1..n
        PROVE  f[s] = ReadTurn(raw, f[s \ {Max(s)}], Max(s))
    BY <1>1, <1>5, <2>2
  <2> QED  BY <2>1, <2>2
<1> QED  BY <1>2, <1>3, <1>6, <1>7

-----------------------------------------------------------------------------
Worth(m) == m.type \in {"human", "ai"} /\ m.text
ShownTo(raw, k) == FlattenSeq([i \in 1..k |-> Shown(raw[i], i)])
TextsTo(raw, k) == FlattenSeq([i \in 1..k |-> If(Worth(raw[i]), <<i>>)])
PartsOf(done) == FlattenSeq([k \in DOMAIN done |-> done[k].parts])
TextsOf(raw, done) == FlattenSeq([k \in DOMAIN done |-> PartTexts(raw, done[k].parts)])

LEMMA ShownIs ==
    ASSUME NEW m \in Message, NEW i \in Nat
    PROVE  Shown(m, i) \in Seq(PartType)
<1>1. \A kind \in {"text", "tool-result"} : <<Part(kind, i)>> \in Seq(PartType)
  BY DEF Part, PartType
<1>2. <<>> \in Seq(PartType) /\ AiParts(m, i) \in Seq(PartType)  BY AiPartsAre
<1>3. m.type \in {"human", "ai", "tool", "system"}  BY DEF Message
<1> QED  BY <1>1, <1>2, <1>3 DEF Shown

(* What is owed to the first k + 1 messages is that to the first k and to one more. *)
LEMMA ShownNext ==
    ASSUME NEW raw \in Seq(Message), NEW k \in Nat, k < Len(raw)
    PROVE  /\ ShownTo(raw, 0) = <<>> /\ TextsTo(raw, 0) = <<>>
           /\ ShownTo(raw, k) \in Seq(PartType) /\ TextsTo(raw, k) \in Seq(Nat)
           /\ ShownTo(raw, k + 1) = ShownTo(raw, k) \o Shown(raw[k + 1], k + 1)
           /\ TextsTo(raw, k + 1) = TextsTo(raw, k) \o If(Worth(raw[k + 1]), <<k + 1>>)
<1> DEFINE A(n) == [i \in 1..n |-> Shown(raw[i], i)]
           B(n) == [i \in 1..n |-> If(Worth(raw[i]), <<i>>)]
<1>1. \A i \in 1..(k + 1) : raw[i] \in Message /\ i \in Nat  OBVIOUS
<1>2. \A i \in 1..(k + 1) : Shown(raw[i], i) \in Seq(PartType) /\ If(Worth(raw[i]), <<i>>) \in Seq(Nat)
  <2>1. \A i \in 1..(k + 1) : Shown(raw[i], i) \in Seq(PartType)  BY <1>1, ShownIs
  <2>2. \A i \in 1..(k + 1) : <<>> \in Seq(Nat) /\ <<i>> \in Seq(Nat)  BY <1>1
  <2> QED  BY <2>1, <2>2 DEF If
<1>3. k + 1 \in 1..(k + 1) /\ 1..k \subseteq 1..(k + 1)  OBVIOUS
<1>4. A(k) \in Seq(Seq(PartType)) /\ B(k) \in Seq(Seq(Nat))
  <2>1. A(k) \in [1..k -> Seq(PartType)] /\ B(k) \in [1..k -> Seq(Nat)]  BY <1>2, <1>3
  <2> HIDE DEF A, B
  <2>2. A(k) \in Seq(Seq(PartType))  BY <2>1, IsSeq
  <2>3. B(k) \in Seq(Seq(Nat))  BY <2>1, IsSeq
  <2> QED  BY <2>2, <2>3
<1>5. A(k + 1) = Append(A(k), Shown(raw[k + 1], k + 1))  OBVIOUS
<1>6. B(k + 1) = Append(B(k), If(Worth(raw[k + 1]), <<k + 1>>))  OBVIOUS
<1>7. A(0) = <<>> /\ B(0) = <<>>  OBVIOUS
<1>8. \A n : ShownTo(raw, n) = FlattenSeq(A(n)) /\ TextsTo(raw, n) = FlattenSeq(B(n))
  BY DEF ShownTo, TextsTo
<1> HIDE DEF A, B
<1>9. FlattenSeq(A(k)) \in Seq(PartType) /\ FlattenSeq(<<>>) = <<>>
      /\ FlattenSeq(A(k + 1)) = FlattenSeq(A(k)) \o Shown(raw[k + 1], k + 1)
  BY <1>2, <1>3, <1>4, <1>5, FlattenAppend
<1>10. FlattenSeq(B(k)) \in Seq(Nat)
       /\ FlattenSeq(B(k + 1)) = FlattenSeq(B(k)) \o If(Worth(raw[k + 1]), <<k + 1>>)
  BY <1>2, <1>3, <1>4, <1>6, FlattenAppend
<1> QED  BY <1>7, <1>8, <1>9, <1>10

LEMMA PartsAppend ==
    ASSUME NEW raw, NEW done \in Seq(ChatMessage)
    PROVE  /\ PartsOf(<<>>) = <<>> /\ TextsOf(raw, <<>>) = <<>>
           /\ PartsOf(done) \in Seq(PartType) /\ TextsOf(raw, done) \in Seq(Nat)
           /\ \A m \in ChatMessage :
                /\ PartsOf(Append(done, m)) = PartsOf(done) \o m.parts
                /\ TextsOf(raw, Append(done, m)) = TextsOf(raw, done) \o PartTexts(raw, m.parts)
<1> DEFINE Text(m) == PartTexts(raw, m.parts)
           A(d) == [k \in DOMAIN d |-> d[k].parts]
           B(d) == [k \in DOMAIN d |-> Text(d[k])]
<1>1. \A m \in ChatMessage : m.parts \in Seq(PartType) /\ Text(m) \in Seq(Nat)
  BY PartTextsAppend DEF ChatMessage
<1>2. \A d : PartsOf(d) = FlattenSeq(A(d)) /\ TextsOf(raw, d) = FlattenSeq(B(d))
  BY DEF PartsOf, TextsOf
<1> HIDE DEF Text
<1>3. A(done) \in Seq(Seq(PartType)) /\ B(done) \in Seq(Seq(Nat))
  <2>1. A(done) \in [1..Len(done) -> Seq(PartType)] /\ B(done) \in [1..Len(done) -> Seq(Nat)]
    BY <1>1
  <2>2. Len(done) \in Nat  OBVIOUS
  <2> HIDE DEF A, B
  <2>3. A(done) \in Seq(Seq(PartType))  BY <2>1, <2>2, IsSeq
  <2>4. B(done) \in Seq(Seq(Nat))  BY <2>1, <2>2, IsSeq
  <2> QED  BY <2>3, <2>4
<1>4. \A m \in ChatMessage : A(Append(done, m)) = Append(A(done), m.parts)  OBVIOUS
<1>5. \A m \in ChatMessage : B(Append(done, m)) = Append(B(done), Text(m))  OBVIOUS
<1>6. A(<<>>) = <<>> /\ B(<<>>) = <<>>  OBVIOUS
<1> HIDE DEF A, B
<1>7. <<>> \in Seq(PartType) /\ <<>> \in Seq(Nat)  OBVIOUS
<1>8. FlattenSeq(A(done)) \in Seq(PartType) /\ FlattenSeq(<<>>) = <<>>  BY <1>3, <1>7, FlattenAppend
<1>9. FlattenSeq(B(done)) \in Seq(Nat)  BY <1>3, <1>7, FlattenAppend
<1>10. \A m \in ChatMessage : FlattenSeq(A(Append(done, m))) = FlattenSeq(A(done)) \o m.parts
  BY <1>1, <1>3, <1>4, FlattenAppend
<1>11. \A m \in ChatMessage : FlattenSeq(B(Append(done, m))) = FlattenSeq(B(done)) \o Text(m)
  BY <1>1, <1>3, <1>5, FlattenAppend
<1> QED  BY <1>2, <1>6, <1>8, <1>9, <1>10, <1>11 DEF Text

(* The text among the parts of a message is its text, if it has any. *)
LEMMA TextsOfParts ==
    ASSUME NEW raw, NEW i \in Nat, raw[i] \in Message
    PROVE  /\ PartTexts(raw, AiParts(raw[i], i)) = If(raw[i].text, <<i>>)
           /\ PartTexts(raw, <<Part("text", i)>>) = If(raw[i].text, <<i>>)
           /\ PartTexts(raw, <<Part("tool-result", i)>>) = <<>>
<1>1. \A kind \in {"reasoning", "tool-call", "text", "tool-result"} :
        /\ Part(kind, i) \in PartType /\ Part(kind, i).kind = kind /\ Part(kind, i).from = i
        /\ <<Part(kind, i)>> \in Seq(PartType) /\ <<Part(kind, i)>> = Append(<<>>, Part(kind, i))
  BY DEF Part, PartType
<1>2. <<>> \in Seq(PartType) /\ PartTexts(raw, <<>>) = <<>>
  <2>1. <<>> \in Seq(PartType)  OBVIOUS
  <2> QED  BY <2>1, PartTextsAppend
<1>3. \A kind \in {"reasoning", "tool-call", "text", "tool-result"} :
        PartTexts(raw, <<Part(kind, i)>>) = <<>> \o If(kind = "text" /\ raw[i].text, <<i>>)
  <2> TAKE kind \in {"reasoning", "tool-call", "text", "tool-result"}
  <2> DEFINE x == Part(kind, i)
  <2>1. x \in PartType /\ x.kind = kind /\ x.from = i /\ <<x>> = Append(<<>>, x)  BY <1>1
  <2> HIDE DEF x
  <2>2. PartTexts(raw, Append(<<>>, x)) = PartTexts(raw, <<>>) \o If(x.kind = "text" /\ raw[x.from].text, <<x.from>>)
    BY <1>2, <2>1, PartTextsAppend
  <2>3. PartTexts(raw, <<x>>) = <<>> \o If(kind = "text" /\ raw[i].text, <<i>>)
    BY <1>2, <2>1, <2>2
  <2> QED  BY <2>3 DEF x
<1>4. /\ PartTexts(raw, <<Part("text", i)>>) = If(raw[i].text, <<i>>)
      /\ \A kind \in {"reasoning", "tool-call", "tool-result"} : PartTexts(raw, <<Part(kind, i)>>) = <<>>
  <2>1. If(raw[i].text, <<i>>) \in Seq(Nat) /\ <<>> \in Seq(Nat)  BY DEF If
  <2>2. <<>> \o If(raw[i].text, <<i>>) = If(raw[i].text, <<i>>)  BY <2>1
  <2> QED  BY <1>3, <2>1, <2>2 DEF If
<1> DEFINE A == If(raw[i].reasoning, <<Part("reasoning", i)>>)
           B == [c \in 1..raw[i].calls |-> Part("tool-call", i)]
           C == If(raw[i].text, <<Part("text", i)>>)
<1>5. A \in Seq(PartType) /\ PartTexts(raw, A) = <<>>  BY <1>1, <1>2, <1>4 DEF If
<1>6. B \in Seq(PartType) /\ PartTexts(raw, B) = <<>>
  <2> DEFINE x == Part("tool-call", i)
             D(n) == [c \in 1..n |-> x]
             T == {n \in Nat : D(n) \in Seq(PartType) /\ PartTexts(raw, D(n)) = <<>>}
  <2>1. x \in PartType /\ x.kind = "tool-call"  BY <1>1
  <2> HIDE DEF x
  <2>2. 0 \in T
    <3>1. D(0) = <<>>  OBVIOUS
    <3> QED  BY <1>2, <3>1
  <2>3. ASSUME NEW n \in Nat, n \in T PROVE n + 1 \in T
    <3>1. D(n) \in Seq(PartType) /\ D(n + 1) \in [1..(n + 1) -> PartType] /\ n + 1 \in Nat  BY <2>1, <2>3
    <3>2. D(n + 1) = Append(D(n), x)
      <4>1. Len(D(n)) = n  OBVIOUS
      <4>2. Append(D(n), x) = [j \in 1..(n + 1) |-> IF j \in 1..n THEN D(n)[j] ELSE x]  BY <3>1, <4>1
      <4> QED  BY <4>2
    <3>3. D(n + 1) \in Seq(PartType)  BY <3>1
    <3> HIDE DEF D
    <3>4. PartTexts(raw, Append(D(n), x)) = PartTexts(raw, D(n)) \o If(x.kind = "text" /\ raw[x.from].text, <<x.from>>)
      BY <2>1, <3>1, PartTextsAppend
    <3>5. PartTexts(raw, Append(D(n), x)) = <<>> \o <<>>  BY <2>1, <2>3, <3>4 DEF If
    <3>6. <<>> \o <<>> = <<>>  OBVIOUS
    <3>7. PartTexts(raw, D(n + 1)) = <<>>  BY <3>2, <3>5, <3>6
    <3> QED  BY <3>1, <3>3, <3>7
  <2> HIDE DEF T
  <2>4. raw[i].calls \in T
    <3>1. raw[i].calls \in Nat  BY DEF Message
    <3> QED  BY <2>2, <2>3, <3>1, Induct
  <2> QED  BY <2>4 DEF T, x
<1>7. C \in Seq(PartType) /\ PartTexts(raw, C) = If(raw[i].text, <<i>>)  BY <1>1, <1>2, <1>4 DEF If
<1>8. AiParts(raw[i], i) = (A \o B) \o C  BY DEF AiParts
<1> HIDE DEF A, B, C
<1>9. PartTexts(raw, A \o B) = <<>> \o <<>> /\ A \o B \in Seq(PartType)  BY <1>5, <1>6, PartTextsConcat
<1>10. PartTexts(raw, (A \o B) \o C) = <<>> \o If(raw[i].text, <<i>>)
  <2>1. PartTexts(raw, (A \o B) \o C) = PartTexts(raw, A \o B) \o PartTexts(raw, C)
    BY <1>7, <1>9, PartTextsConcat
  <2> QED  BY <1>7, <1>9, <2>1
<1>11. <<>> \o If(raw[i].text, <<i>>) = If(raw[i].text, <<i>>)
  BY DEF If
<1> QED  BY <1>4, <1>8, <1>10, <1>11

(* The last usage up to the next message. *)
LEMMA LastUsageNext ==
    ASSUME NEW raw, NEW k \in Nat, NEW b \in 1..(k + 1)
    PROVE  LastUsage(raw, b, k + 1) = IF raw[k + 1].usage THEN k + 1 ELSE LastUsage(raw, b, k)
<1>1. CASE raw[k + 1].usage
  <2> DEFINE used == {i \in b..(k + 1) : raw[i].usage}
  <2>1. k + 1 \in used /\ used \in SUBSET (1..(k + 1)) /\ used # {}  BY <1>1
  <2>2. Max(used) = k + 1
    <3> HIDE DEF used
    <3> QED  BY <2>1, MaxIs
  <2> QED  BY <1>1, <2>1, <2>2 DEF LastUsage
<1>2. CASE ~raw[k + 1].usage
  <2>1. {i \in b..(k + 1) : raw[i].usage} = {i \in b..k : raw[i].usage}  BY <1>2
  <2> QED  BY <1>2, <2>1 DEF LastUsage
<1> QED  BY <1>1, <1>2

-----------------------------------------------------------------------------
At(out, j) == out[j].parts[1].from
Begin(out, j) == IF j = 1 THEN 1 ELSE At(out, j - 1) + 1
Finish(out, j, n) == IF j = Len(out) THEN n ELSE At(out, j + 1) - 1
MessageRight(raw, out, n, j) ==
    IF out[j].role = "user" THEN raw[At(out, j)].type = "human" /\ Len(out[j].parts) = 1
    ELSE /\ out[j].parts # <<>>
         /\ j > 1 => out[j - 1].role = "user"
         /\ out[j].usage = LastUsage(raw, Begin(out, j), Finish(out, j, n))

ClosedUp(acc) == acc.done \o If(acc.open.parts # <<>>, <<acc.open>>)

ChatRead(raw, k, acc) ==
    /\ acc \in ChatReading
    /\ PartsOf(acc.done) \o acc.open.parts = ShownTo(raw, k)
    /\ TextsOf(raw, acc.done) \o PartTexts(raw, acc.open.parts) = TextsTo(raw, k)
    /\ acc.done # <<>> => acc.done[Len(acc.done)].role = "user"
    /\ \A j \in DOMAIN acc.done : MessageRight(raw, acc.done, k, j)
    /\ Begin(acc.done, Len(acc.done) + 1) \in 1..(k + 1)
    /\ OpenUsage(acc) = LastUsage(raw, Begin(acc.done, Len(acc.done) + 1), k)

(* A message more does not disturb what holds of those before it. *)
LEMMA OneMore ==
    ASSUME NEW raw, NEW out \in Seq(ChatMessage), NEW m \in ChatMessage, NEW n, NEW l,
           \A j \in DOMAIN out : MessageRight(raw, out, n, j),
           out # <<>> => out[Len(out)].role = "user" \/ m.parts[1].from - 1 = n
    PROVE  /\ \A j \in DOMAIN out : MessageRight(raw, Append(out, m), l, j)
           /\ Begin(Append(out, m), Len(out) + 1) = Begin(out, Len(out) + 1)
           /\ At(Append(out, m), Len(out) + 1) = m.parts[1].from
<1> DEFINE all == Append(out, m)
<1>1. Len(out) \in Nat /\ DOMAIN out = 1..Len(out) /\ Len(all) = Len(out) + 1 /\ all[Len(out) + 1] = m
      /\ \A j \in 1..Len(out) : all[j] = out[j]
  OBVIOUS
<1> HIDE DEF all
<1>2. \A j \in 1..Len(out) : At(all, j) = At(out, j)  BY <1>1 DEF At
<1>3. \A j \in 1..(Len(out) + 1) : Begin(all, j) = Begin(out, j)
  <2> TAKE j \in 1..(Len(out) + 1)
  <2>1. j # 1 => j - 1 \in 1..Len(out)  BY <1>1
  <2> QED  BY <1>2, <2>1 DEF Begin
<1>4. At(all, Len(out) + 1) = m.parts[1].from  BY <1>1 DEF At
<1>5. ASSUME NEW j \in 1..Len(out) PROVE MessageRight(raw, all, l, j)
  <2>1. MessageRight(raw, out, n, j)  BY <1>1, <1>5
  <2>2. j \in 1..(Len(out) + 1) /\ j # Len(all) /\ (j # 1 => j - 1 \in 1..Len(out))  BY <1>1
  <2>3. all[j] = out[j] /\ At(all, j) = At(out, j) /\ Begin(all, j) = Begin(out, j)
        /\ (j > 1 => all[j - 1] = out[j - 1])
    BY <1>1, <1>2, <1>3, <2>2
  <2>4. out[j].role # "user" => Finish(all, j, l) = Finish(out, j, n)
    <3>1. CASE j = Len(out)
      <4>1. out # <<>>  BY <1>1, <1>5
      <4>2. Finish(all, j, l) = m.parts[1].from - 1  BY <1>4, <2>2, <3>1 DEF Finish
      <4>3. Finish(out, j, n) = n  BY <3>1 DEF Finish
      <4> QED  BY <3>1, <4>1, <4>2, <4>3
    <3>2. CASE j # Len(out)
      <4> DEFINE len == Len(out)
      <4>0. len \in Nat /\ j \in 1..len /\ j # len  BY <1>1, <1>5, <3>2
      <4>1. j + 1 \in 1..Len(out)
        <5> HIDE DEF len
        <5>1. j + 1 \in 1..len  BY <4>0
        <5> QED  BY <5>1 DEF len
      <4> QED  BY <1>2, <2>2, <3>2, <4>1 DEF Finish
    <3> QED  BY <3>1, <3>2
  <2>5. CASE out[j].role = "user"  BY <2>1, <2>3, <2>5 DEF MessageRight
  <2>6. CASE out[j].role # "user"  BY <2>1, <2>3, <2>4, <2>6 DEF MessageRight
  <2> QED  BY <2>5, <2>6
<1>6. Len(out) + 1 \in 1..(Len(out) + 1)  BY <1>1
<1> QED  BY <1>1, <1>3, <1>4, <1>5, <1>6 DEF all

(* Closing the assistant message in progress: what was read is what is shown. *)
LEMMA Closing ==
    ASSUME NEW raw, NEW k \in Nat, NEW acc, ChatRead(raw, k, acc)
    PROVE  /\ ClosedUp(acc) \in Seq(ChatMessage) /\ CloseAssistant(acc).done = ClosedUp(acc)
           /\ PartsOf(ClosedUp(acc)) = ShownTo(raw, k)
           /\ TextsOf(raw, ClosedUp(acc)) = TextsTo(raw, k)
           /\ \A j \in DOMAIN ClosedUp(acc) : MessageRight(raw, ClosedUp(acc), k, j)
<1> DEFINE done == acc.done
           open == acc.open
           out == ClosedUp(acc)
<1>1. done \in Seq(ChatMessage) /\ (open = Closed \/ (open \in ChatMessage /\ open.role = "assistant"))
  BY DEF ChatRead, ChatReading
<1>2. /\ PartsOf(done) \o open.parts = ShownTo(raw, k)
      /\ TextsOf(raw, done) \o PartTexts(raw, open.parts) = TextsTo(raw, k)
      /\ done # <<>> => done[Len(done)].role = "user"
      /\ \A j \in DOMAIN done : MessageRight(raw, done, k, j)
      /\ OpenUsage(acc) = LastUsage(raw, Begin(done, Len(done) + 1), k)
  BY DEF ChatRead
<1>3. CloseAssistant(acc).done = out  BY DEF CloseAssistant, ClosedUp
<1>4. PartsOf(done) \in Seq(PartType) /\ TextsOf(raw, done) \in Seq(Nat)  BY <1>1, PartsAppend
<1>5. CASE open.parts = <<>>
  <2>1. out = done \o <<>>  BY <1>5 DEF ClosedUp, If
  <2>2. out = done  BY <1>1, <2>1
  <2>3. <<>> \in Seq(PartType)  OBVIOUS
  <2>4. PartTexts(raw, open.parts) = <<>>  BY <1>5, <2>3, PartTextsAppend
  <2>5. PartsOf(done) \o <<>> = PartsOf(done) /\ TextsOf(raw, done) \o <<>> = TextsOf(raw, done)
    <3> HIDE DEF done
    <3> QED  BY <1>4
  <2> HIDE DEF done, open, out
  <2> QED  BY <1>1, <1>2, <1>3, <1>5, <2>2, <2>4, <2>5 DEF out
<1>6. CASE open.parts # <<>>
  <2>1. open \in ChatMessage /\ open.role = "assistant" /\ open # Closed  BY <1>1, <1>6 DEF Closed
  <2>2. out = done \o <<open>>  BY <1>6 DEF ClosedUp, If
  <2>3. out = Append(done, open)
    <3> HIDE DEF done, open, out
    <3> QED  BY <1>1, <2>1, <2>2
  <2>4. open.usage = LastUsage(raw, Begin(done, Len(done) + 1), k)  BY <1>2, <2>1 DEF OpenUsage
  <2> HIDE DEF done, open, out
  <2>5. /\ \A j \in DOMAIN done : MessageRight(raw, out, k, j)
        /\ Begin(out, Len(done) + 1) = Begin(done, Len(done) + 1)
    BY <1>1, <1>2, <2>1, <2>3, OneMore
  <2>6. out \in Seq(ChatMessage) /\ Len(out) = Len(done) + 1 /\ out[Len(done) + 1] = open
        /\ Len(done) \in Nat /\ DOMAIN done = 1..Len(done) /\ DOMAIN out = 1..(Len(done) + 1)
        /\ (Len(done) + 1 > 1 => out[Len(done)] = done[Len(done)] /\ done # <<>>)
    BY <1>1, <2>1, <2>3
  <2>7. MessageRight(raw, out, k, Len(done) + 1)
    <3>1. Finish(out, Len(done) + 1, k) = k  BY <2>6 DEF Finish
    <3>2. (Len(done) + 1) - 1 = Len(done)  BY <2>6
    <3>3. out[Len(done) + 1].role # "user"  BY <2>1, <2>6
    <3> QED  BY <1>2, <1>6, <2>4, <2>5, <2>6, <3>1, <3>2, <3>3 DEF MessageRight
  <2>8. \A j \in DOMAIN out : MessageRight(raw, out, k, j)
    <3>1. \A j \in DOMAIN out : j \in DOMAIN done \/ j = Len(done) + 1  BY <2>6
    <3> QED  BY <2>5, <2>7, <3>1
  <2>9. PartsOf(out) = PartsOf(done) \o open.parts
        /\ TextsOf(raw, out) = TextsOf(raw, done) \o PartTexts(raw, open.parts)
    BY <1>1, <2>1, <2>3, PartsAppend
  <2> QED  BY <1>2, <1>3, <2>6, <2>8, <2>9 DEF out
<1> QED  BY <1>5, <1>6

(* The invariant of format_chat_history is kept by one more message. *)
LEMMA ChatMeans ==
    ASSUME NEW raw \in Seq(Message), NEW k \in Nat, k < Len(raw), NEW acc, ChatRead(raw, k, acc)
    PROVE  ChatRead(raw, k + 1, ReadChat(raw, acc, k + 1))
<1> DEFINE i == k + 1
           m == raw[i]
           new == ReadChat(raw, acc, i)
           begin == Begin(acc.done, Len(acc.done) + 1)
<1>1. i \in 1..Len(raw) /\ i \in Nat /\ m \in Message /\ i - 1 = k  OBVIOUS
<1>2. m.type \in {"human", "ai", "tool", "system"} /\ (m.usage => m.type = "ai")  BY <1>1 DEF Message
<1>3. acc \in ChatReading /\ acc.done \in Seq(ChatMessage)
      /\ (acc.open = Closed \/ (acc.open \in ChatMessage /\ acc.open.role = "assistant"))
  BY DEF ChatRead, ChatReading
<1>4. acc.open.parts \in Seq(PartType)
  <2>1. acc.open = Closed => acc.open.parts = <<>>  BY DEF Closed
  <2>2. <<>> \in Seq(PartType)  OBVIOUS
  <2> QED  BY <1>3, <2>1, <2>2 DEF ChatMessage
<1>5. /\ PartsOf(acc.done) \in Seq(PartType) /\ TextsOf(raw, acc.done) \in Seq(Nat)
      /\ PartTexts(raw, acc.open.parts) \in Seq(Nat)
  BY <1>3, <1>4, PartsAppend, PartTextsAppend
<1>6. /\ ShownTo(raw, i) = ShownTo(raw, k) \o Shown(m, i)
      /\ TextsTo(raw, i) = TextsTo(raw, k) \o If(Worth(m), <<i>>)
      /\ ShownTo(raw, k) \in Seq(PartType) /\ TextsTo(raw, k) \in Seq(Nat)
  BY ShownNext
<1>7. /\ PartsOf(acc.done) \o acc.open.parts = ShownTo(raw, k)
      /\ TextsOf(raw, acc.done) \o PartTexts(raw, acc.open.parts) = TextsTo(raw, k)
      /\ acc.done # <<>> => acc.done[Len(acc.done)].role = "user"
      /\ \A j \in DOMAIN acc.done : MessageRight(raw, acc.done, k, j)
      /\ begin \in 1..(k + 1)
      /\ OpenUsage(acc) = LastUsage(raw, begin, k)
  BY DEF ChatRead
<1>8. LastUsage(raw, begin, i) = IF m.usage THEN i ELSE LastUsage(raw, begin, k)
  <2> HIDE DEF begin
  <2> QED  BY <1>7, LastUsageNext
<1>9. /\ new \in ChatReading
      /\ m.type = "human" => new = [done |-> Append(ClosedUp(acc), UserMessage(i)), open |-> Closed]
      /\ m.type = "ai" =>
           new = [done |-> acc.done,
                  open |-> [role |-> "assistant", parts |-> acc.open.parts \o AiParts(m, i),
                            usage |-> IF m.usage THEN i ELSE OpenUsage(acc)]]
      /\ m.type = "tool" =>
           new = [done |-> acc.done,
                  open |-> [role |-> "assistant", parts |-> Append(acc.open.parts, Part("tool-result", i)),
                            usage |-> OpenUsage(acc)]]
      /\ m.type = "system" => new = acc
  BY <1>1, <1>3, ChatStep DEF ClosedUp
<1> SUFFICES ChatRead(raw, i, new)
  OBVIOUS
<1> HIDE DEF new, m, begin
<1>10. \A j \in DOMAIN acc.done : MessageRight(raw, acc.done, i, j)
  <2>1. Len(acc.done) \in Nat /\ DOMAIN acc.done = 1..Len(acc.done) /\ (DOMAIN acc.done # {} => acc.done # <<>>)
    BY <1>3
  <2>2. ASSUME NEW j \in DOMAIN acc.done PROVE MessageRight(raw, acc.done, i, j)
    <3>1. acc.done[j].role # "user" => j # Len(acc.done)  BY <1>7, <2>1
    <3> QED  BY <1>7, <3>1 DEF MessageRight, Finish
  <2> QED  BY <2>2
<1>11. begin \in 1..(i + 1)  BY <1>1, <1>7
\* a message of the assistant in progress: one for each kind
<1>12. ASSUME new.done = acc.done, new.open # Closed,
              new.open.parts = acc.open.parts \o Shown(m, i),
              PartTexts(raw, Shown(m, i)) = If(Worth(m), <<i>>),
              new.open.usage = IF m.usage THEN i ELSE OpenUsage(acc)
       PROVE  ChatRead(raw, i, new)
  <2>1. Shown(m, i) \in Seq(PartType) /\ If(Worth(m), <<i>>) \in Seq(Nat)
    <3>1. Shown(m, i) \in Seq(PartType)  BY <1>1, ShownIs DEF m
    <3>2. If(Worth(m), <<i>>) \in Seq(Nat)  BY <1>12, <3>1, PartTextsAppend
    <3> QED  BY <3>1, <3>2
  <2>2. PartTexts(raw, acc.open.parts \o Shown(m, i)) = PartTexts(raw, acc.open.parts) \o If(Worth(m), <<i>>)
    BY <1>4, <1>12, <2>1, PartTextsConcat
  <2> DEFINE A == PartsOf(acc.done)
             B == TextsOf(raw, acc.done)
             C == PartTexts(raw, acc.open.parts)
             D == If(Worth(m), <<i>>)
             E == Shown(m, i)
             P == acc.open.parts
  <2>3. A \in Seq(PartType) /\ P \in Seq(PartType) /\ E \in Seq(PartType)
        /\ B \in Seq(Nat) /\ C \in Seq(Nat) /\ D \in Seq(Nat)
    BY <1>4, <1>5, <2>1
  <2> HIDE DEF A, B, C, D, E, P, i
  <2>8. A \o (P \o E) = (A \o P) \o E  BY <2>3, Assoc
  <2>9. B \o (C \o D) = (B \o C) \o D
    <3>1. B \in Seq(Nat) /\ C \in Seq(Nat) /\ D \in Seq(Nat)  BY <2>3
    <3>2. \A x \in Seq(Nat), y \in Seq(Nat), z \in Seq(Nat) : x \o (y \o z) = (x \o y) \o z
      OBVIOUS
    <3> QED  BY <3>1, <3>2
  <2>4. A \o (P \o E) = (A \o P) \o E /\ B \o (C \o D) = (B \o C) \o D  BY <2>8, <2>9
  <2>5. PartsOf(new.done) \o new.open.parts = ShownTo(raw, i)
    BY <1>6, <1>7, <1>12, <2>4 DEF A, P, E
  <2>6. TextsOf(raw, new.done) \o PartTexts(raw, new.open.parts) = TextsTo(raw, i)
    BY <1>6, <1>7, <1>12, <2>2, <2>4 DEF B, C, D
  <2>7. OpenUsage(new) = LastUsage(raw, begin, i)  BY <1>7, <1>8, <1>12 DEF OpenUsage
  <2> QED  BY <1>7, <1>9, <1>10, <1>11, <1>12, <2>5, <2>6, <2>7 DEF ChatRead, begin
<1>13. CASE m.type = "human"
  <2> DEFINE out == ClosedUp(acc)
             u == UserMessage(i)
  <2>1. /\ out \in Seq(ChatMessage)
        /\ PartsOf(out) = ShownTo(raw, k) /\ TextsOf(raw, out) = TextsTo(raw, k)
        /\ \A j \in DOMAIN out : MessageRight(raw, out, k, j)
    BY Closing
  <2>2. u \in ChatMessage /\ u.role = "user" /\ u.parts = <<Part("text", i)>>
        /\ u.parts[1].from = i /\ Len(u.parts) = 1
    BY <1>1 DEF UserMessage, ChatMessage, Part, PartType
  <2>3. new.done = Append(out, u) /\ new.open = Closed  BY <1>9, <1>13
  <2> HIDE DEF out, u
  <2>4. Len(out) \in Nat /\ new.done \in Seq(ChatMessage) /\ Len(new.done) = Len(out) + 1
        /\ new.done[Len(out) + 1] = u /\ DOMAIN new.done = 1..(Len(out) + 1) /\ DOMAIN out = 1..Len(out)
    BY <2>1, <2>2, <2>3
  <2>5. /\ \A j \in DOMAIN out : MessageRight(raw, new.done, i, j)
        /\ At(new.done, Len(out) + 1) = i
    <3>1. u.parts[1].from - 1 = k  BY <1>1, <2>2
    <3> HIDE DEF i
    <3>2. /\ \A j \in DOMAIN out : MessageRight(raw, Append(out, u), i, j)
          /\ At(Append(out, u), Len(out) + 1) = u.parts[1].from
      BY <2>1, <2>2, <3>1, OneMore
    <3> QED  BY <2>2, <2>3, <3>2
  <2>6. \A j \in DOMAIN new.done : MessageRight(raw, new.done, i, j)
    <3>1. MessageRight(raw, new.done, i, Len(out) + 1)
      BY <1>13, <2>2, <2>4, <2>5 DEF MessageRight, m
    <3>2. \A j \in DOMAIN new.done : j \in DOMAIN out \/ j = Len(out) + 1  BY <2>4
    <3> QED  BY <2>5, <3>1, <3>2
  <2>7. Begin(new.done, Len(new.done) + 1) = i + 1
    <3>1. (Len(new.done) + 1) - 1 = Len(out) + 1 /\ Len(new.done) + 1 # 1  BY <2>4
    <3> QED  BY <2>5, <3>1 DEF Begin
  <2>8. OpenUsage(new) = 0 /\ LastUsage(raw, i + 1, i) = 0
    <3>1. {j \in (i + 1)..i : raw[j].usage} = {}  BY <1>1
    <3> QED  BY <2>3, <3>1 DEF OpenUsage, LastUsage
  <2>9. new.open.parts = <<>> /\ PartTexts(raw, new.open.parts) = <<>>
    <3>1. new.open.parts = <<>> /\ <<>> \in Seq(PartType)  BY <2>3 DEF Closed
    <3> QED  BY <3>1, PartTextsAppend
  <2>10. PartsOf(new.done) = ShownTo(raw, i)
    <3>1. PartsOf(new.done) = ShownTo(raw, k) \o u.parts  BY <2>1, <2>2, <2>3, PartsAppend
    <3>2. Shown(m, i) = u.parts  BY <1>13, <2>2 DEF Shown
    <3> QED  BY <1>6, <3>1, <3>2
  <2>11. TextsOf(raw, new.done) = TextsTo(raw, i)
    <3>1. TextsOf(raw, new.done) = TextsTo(raw, k) \o PartTexts(raw, u.parts)
      BY <2>1, <2>2, <2>3, PartsAppend
    <3>2. PartTexts(raw, u.parts) = If(m.text, <<i>>)  BY <1>1, <2>2, TextsOfParts DEF m
    <3>3. Worth(m) = m.text  BY <1>13, <1>1 DEF Worth, Message, m
    <3> QED  BY <1>6, <3>1, <3>2, <3>3
  <2>12. PartsOf(new.done) \o new.open.parts = ShownTo(raw, i)
         /\ TextsOf(raw, new.done) \o PartTexts(raw, new.open.parts) = TextsTo(raw, i)
    <3>1. PartsOf(new.done) \in Seq(PartType) /\ TextsOf(raw, new.done) \in Seq(Nat)
      BY <2>4, PartsAppend
    <3>2. \A x \in Seq(PartType) : x \o <<>> = x  OBVIOUS
    <3>3. \A x \in Seq(Nat) : x \o <<>> = x  OBVIOUS
    <3> QED  BY <2>9, <2>10, <2>11, <3>1, <3>2, <3>3
  <2>13. i + 1 \in 1..(i + 1)  BY <1>1
  <2> HIDE DEF i
  <2>14. new.done[Len(new.done)].role = "user"  BY <2>2, <2>4
  <2> QED  BY <1>9, <2>6, <2>7, <2>8, <2>12, <2>13, <2>14 DEF ChatRead
<1>14. CASE m.type = "ai"
  <2>1. new.done = acc.done /\ new.open.parts = acc.open.parts \o AiParts(m, i)
        /\ new.open.usage = IF m.usage THEN i ELSE OpenUsage(acc)
    <3> HIDE DEF i
    <3>1. new = [done |-> acc.done,
                 open |-> [role |-> "assistant", parts |-> acc.open.parts \o AiParts(m, i),
                           usage |-> IF m.usage THEN i ELSE OpenUsage(acc)]]
      BY <1>9, <1>14
    <3> QED  BY <3>1
  <2>2. new.open # Closed
    <3> HIDE DEF i
    <3>1. new.open = [role |-> "assistant", parts |-> acc.open.parts \o AiParts(m, i),
                      usage |-> IF m.usage THEN i ELSE OpenUsage(acc)]
      BY <1>9, <1>14
    <3>2. "role" \in DOMAIN new.open /\ "role" \notin DOMAIN Closed  BY <3>1 DEF Closed
    <3> QED  BY <3>2
  <2>3. Shown(m, i) = AiParts(m, i)  BY <1>14 DEF Shown
  <2>4. PartTexts(raw, AiParts(m, i)) = If(m.text, <<i>>)  BY <1>1, TextsOfParts DEF m
  <2>5. Worth(m) = m.text  BY <1>14, <1>1 DEF Worth, Message, m
  <2> QED  BY <1>12, <2>1, <2>2, <2>3, <2>4, <2>5
<1>15. CASE m.type = "tool"
  <2>1. new.done = acc.done /\ new.open.parts = Append(acc.open.parts, Part("tool-result", i))
        /\ new.open.usage = OpenUsage(acc) /\ ~m.usage
    BY <1>2, <1>9, <1>15
  <2>2. DOMAIN new.open # DOMAIN Closed  BY <1>9, <1>15 DEF Closed
  <2>3. Shown(m, i) = <<Part("tool-result", i)>>  BY <1>15 DEF Shown
  <2>4. Append(acc.open.parts, Part("tool-result", i)) = acc.open.parts \o <<Part("tool-result", i)>>
    BY <1>4
  <2>5. PartTexts(raw, Shown(m, i)) = <<>>  BY <1>1, <2>3, TextsOfParts DEF m
  <2>6. ~Worth(m)  BY <1>15 DEF Worth
  <2>7. If(Worth(m), <<i>>) = <<>>  BY <2>6 DEF If
  <2> QED  BY <1>12, <2>1, <2>2, <2>3, <2>4, <2>5, <2>7
<1>16. CASE m.type = "system"
  <2>1. new = acc  BY <1>9, <1>16
  <2>2. ~m.usage /\ ~Worth(m) /\ Shown(m, i) = <<>>  BY <1>2, <1>16 DEF Worth, Shown
  <2>3. If(Worth(m), <<i>>) = <<>>  BY <2>2 DEF If
  <2>4. ShownTo(raw, i) = ShownTo(raw, k) /\ TextsTo(raw, i) = TextsTo(raw, k)
    <3>1. \A x \in Seq(PartType) : x \o <<>> = x  OBVIOUS
    <3>2. \A x \in Seq(Nat) : x \o <<>> = x  OBVIOUS
    <3> QED  BY <1>6, <2>2, <2>3, <3>1, <3>2
  <2> HIDE DEF i
  <2> QED  BY <1>3, <1>7, <1>8, <1>10, <1>11, <2>1, <2>2, <2>4 DEF ChatRead, begin
<1> QED  BY <1>2, <1>13, <1>14, <1>15, <1>16

LEMMA ShownAtFirst ==
    ASSUME NEW raw
    PROVE  ShownTo(raw, 0) = <<>> /\ TextsTo(raw, 0) = <<>>
<1>1. [i \in 1..0 |-> Shown(raw[i], i)] = <<>> /\ [i \in 1..0 |-> If(Worth(raw[i]), <<i>>)] = <<>>
  OBVIOUS
<1>2. <<>> \in Seq(Seq(Nat)) /\ <<>> \in Seq(Nat)  OBVIOUS
<1>3. FlattenSeq(<<>>) = <<>>  BY <1>2, FlattenAppend
<1> QED  BY <1>1, <1>3 DEF ShownTo, TextsTo

LEMMA ChatReads ==
    ASSUME NEW raw \in Seq(Message)
    PROVE  \A k \in 0..Len(raw) : ChatRead(raw, k, ChatRun(raw)[1..k])
<1> DEFINE n == Len(raw)
           f == ChatRun(raw)
           T == {k \in Nat : k <= n => ChatRead(raw, k, f[1..k])}
<1>1. n \in Nat  OBVIOUS
<1>2. /\ f[{}] = NoChat /\ NoChat \in ChatReading
      /\ \A k \in Nat : k < n => f[1..(k + 1)] = ReadChat(raw, f[1..k], k + 1)
  BY ChatRuns
<1> HIDE DEF f
<1>3. 0 \in T
  <2>1. 1..0 = {}  OBVIOUS
  <2>2. f[1..0] = NoChat  BY <1>2, <2>1
  <2>3. NoChat.done = <<>> /\ NoChat.open = Closed /\ NoChat.open.parts = <<>>  BY DEF NoChat, Closed
  <2>4. <<>> \in Seq(ChatMessage) /\ <<>> \in Seq(PartType) /\ <<>> \in Seq(Nat)
        /\ <<>> \o <<>> = <<>> /\ DOMAIN <<>> = {} /\ Len(<<>>) = 0
    OBVIOUS
  <2>5. PartsOf(<<>>) = <<>> /\ TextsOf(raw, <<>>) = <<>> /\ PartTexts(raw, <<>>) = <<>>
    BY <2>4, PartsAppend, PartTextsAppend
  <2>6. Begin(<<>>, 0 + 1) = 1 /\ 1 \in 1..(0 + 1)  BY DEF Begin
  <2>7. OpenUsage(NoChat) = 0 /\ LastUsage(raw, 1, 0) = 0  BY <2>1, <2>3 DEF OpenUsage, LastUsage
  <2>8. ChatRead(raw, 0, NoChat)
    BY <1>2, <2>3, <2>4, <2>5, <2>6, <2>7, ShownAtFirst DEF ChatRead
  <2> QED  BY <2>2, <2>8
<1>4. ASSUME NEW k \in Nat, k \in T PROVE k + 1 \in T
  <2> SUFFICES ASSUME k + 1 <= n PROVE ChatRead(raw, k + 1, f[1..(k + 1)])
    OBVIOUS
  <2>1. k < n /\ k <= n  BY <1>1
  <2>2. ChatRead(raw, k, f[1..k])  BY <1>4, <2>1
  <2>3. ChatRead(raw, k + 1, ReadChat(raw, f[1..k], k + 1))  BY <2>1, <2>2, ChatMeans
  <2> QED  BY <1>2, <2>1, <2>3
<1>5. Nat \subseteq T  BY <1>3, <1>4, Induct
<1> QED  BY <1>1, <1>5 DEF f

(* What format_chat_history returns. *)
LEMMA ChatIsExact ==
    ASSUME NEW raw \in Seq(Message)
    PROVE  LET out == FormatChatHistory(raw) IN
           /\ out \in Seq(ChatMessage) /\ out = ClosedUp(ChatRun(raw)[1..Len(raw)])
           /\ PartsOf(out) = ShownTo(raw, Len(raw))
           /\ TextsOf(raw, out) = TextsTo(raw, Len(raw))
           /\ \A j \in DOMAIN out : MessageRight(raw, out, Len(raw), j)
<1> DEFINE n == Len(raw)
           acc == ChatRun(raw)[1..n]
<1>1. n \in Nat /\ n \in 0..n  OBVIOUS
<1>2. FormatChatHistory(raw) = CloseAssistant(acc).done  BY ChatRuns
<1>3. ChatRead(raw, n, acc)  BY <1>1, ChatReads
<1> HIDE DEF n
<1> QED  BY <1>1, <1>2, <1>3, Closing DEF n

-----------------------------------------------------------------------------
SpokenOf(raw, turns) == FlattenSeq([k \in DOMAIN turns |-> Texts(raw, turns[k][2])])
TurnRight(turns, j) ==
    turns[j][1] = "assistant" => (j > 1 => turns[j - 1][1] = "user") /\ turns[j][2] # <<>>
Flushed(acc) == acc.turns \o If(acc.pending # <<>>, <<<<"assistant", acc.pending>>>>)

SchemaRead(raw, k, acc) ==
    /\ acc \in SchemaReading
    /\ SpokenOf(raw, acc.turns) \o Texts(raw, acc.pending) = TextsTo(raw, k)
    /\ acc.turns # <<>> => acc.turns[Len(acc.turns)][1] = "user"
    /\ \A j \in DOMAIN acc.turns : TurnRight(acc.turns, j)

LEMMA TextsAre ==
    ASSUME NEW raw, NEW p \in Seq(Nat)
    PROVE  Texts(raw, p) \in Seq(Nat)
BY 0 \in Nat, TextsConcat

LEMMA SpokenAppend ==
    ASSUME NEW raw, NEW turns \in Seq(SchemaTurn)
    PROVE  /\ SpokenOf(raw, <<>>) = <<>> /\ SpokenOf(raw, turns) \in Seq(Nat)
           /\ \A t \in SchemaTurn : SpokenOf(raw, Append(turns, t)) = SpokenOf(raw, turns) \o Texts(raw, t[2])
<1> DEFINE Text(t) == Texts(raw, t[2])
           A(d) == [k \in DOMAIN d |-> Text(d[k])]
<1>1. \A t \in SchemaTurn : Text(t) \in Seq(Nat)  BY TextsAre DEF SchemaTurn
<1>2. \A d : SpokenOf(raw, d) = FlattenSeq(A(d))  BY DEF SpokenOf
<1> HIDE DEF Text
<1>3. A(turns) \in Seq(Seq(Nat)) /\ <<>> \in Seq(Nat)
  <2>1. A(turns) \in [1..Len(turns) -> Seq(Nat)]  BY <1>1
  <2>2. Len(turns) \in Nat /\ <<>> \in Seq(Nat)  OBVIOUS
  <2> HIDE DEF A
  <2>3. A(turns) \in Seq(Seq(Nat))  BY <2>1, <2>2, IsSeq
  <2> QED  BY <2>2, <2>3
<1>4. \A t \in SchemaTurn : A(Append(turns, t)) = Append(A(turns), Text(t))  OBVIOUS
<1>5. A(<<>>) = <<>>  OBVIOUS
<1> HIDE DEF A
<1>6. FlattenSeq(A(turns)) \in Seq(Nat) /\ FlattenSeq(<<>>) = <<>>  BY <1>3, FlattenAppend
<1>7. \A t \in SchemaTurn : FlattenSeq(A(Append(turns, t))) = FlattenSeq(A(turns)) \o Text(t)
  BY <1>1, <1>3, <1>4, FlattenAppend
<1> QED  BY <1>2, <1>5, <1>6, <1>7 DEF Text

(* Flushing the pending texts: what was read is what is shown. *)
LEMMA Flushing ==
    ASSUME NEW raw, NEW k \in Nat, NEW acc, SchemaRead(raw, k, acc)
    PROVE  /\ Flushed(acc) \in Seq(SchemaTurn) /\ FlushAssistant(acc).turns = Flushed(acc)
           /\ SpokenOf(raw, Flushed(acc)) = TextsTo(raw, k)
           /\ \A j \in DOMAIN Flushed(acc) : TurnRight(Flushed(acc), j)
<1> DEFINE turns == acc.turns
           pending == acc.pending
           t == <<"assistant", pending>>
           out == Flushed(acc)
<1>1. turns \in Seq(SchemaTurn) /\ pending \in Seq(Nat)  BY DEF SchemaRead, SchemaReading
<1>2. /\ SpokenOf(raw, turns) \o Texts(raw, pending) = TextsTo(raw, k)
      /\ turns # <<>> => turns[Len(turns)][1] = "user"
      /\ \A j \in DOMAIN turns : TurnRight(turns, j)
  BY DEF SchemaRead
<1>3. FlushAssistant(acc).turns = out  BY DEF FlushAssistant, Flushed
<1>4. SpokenOf(raw, turns) \in Seq(Nat)  BY <1>1, SpokenAppend
<1>5. CASE pending = <<>>
  <2>1. out = turns \o <<>>  BY <1>5 DEF Flushed, If
  <2>2. out = turns  BY <1>1, <2>1
  <2>3. Texts(raw, pending) = <<>>
    <3>1. <<>> \in Seq(Nat) /\ 0 \in Nat  OBVIOUS
    <3> QED  BY <1>5, <3>1, TextsConcat
  <2>4. SpokenOf(raw, turns) \o <<>> = SpokenOf(raw, turns)
    <3> HIDE DEF turns
    <3> QED  BY <1>4
  <2> HIDE DEF turns, pending, out
  <2> QED  BY <1>1, <1>2, <1>3, <2>2, <2>3, <2>4 DEF out
<1>6. CASE pending # <<>>
  <2>1. out = turns \o <<t>>  BY <1>6 DEF Flushed, If
  <2>2. t \in SchemaTurn /\ t[1] = "assistant" /\ t[2] = pending  BY <1>1 DEF SchemaTurn
  <2> HIDE DEF turns, pending, out, t
  <2>3. out = Append(turns, t)  BY <1>1, <2>1, <2>2
  <2>4. out \in Seq(SchemaTurn) /\ Len(out) = Len(turns) + 1 /\ out[Len(turns) + 1] = t
        /\ Len(turns) \in Nat /\ DOMAIN turns = 1..Len(turns) /\ DOMAIN out = 1..(Len(turns) + 1)
        /\ (Len(turns) + 1 > 1 => out[Len(turns)] = turns[Len(turns)] /\ turns # <<>>)
        /\ \A j \in 1..Len(turns) : out[j] = turns[j]
    BY <1>1, <2>2, <2>3
  <2>5. ASSUME NEW j \in DOMAIN turns PROVE TurnRight(out, j)
    <3>1. j \in 1..Len(turns) /\ (j > 1 => j - 1 \in 1..Len(turns))  BY <2>4, <2>5
    <3> QED  BY <1>2, <2>4, <2>5, <3>1 DEF TurnRight
  <2>6. TurnRight(out, Len(turns) + 1)
    <3>1. (Len(turns) + 1) - 1 = Len(turns)  BY <2>4
    <3> QED  BY <1>2, <1>6, <2>2, <2>4, <3>1 DEF TurnRight
  <2>7. \A j \in DOMAIN out : TurnRight(out, j)
    <3>1. \A j \in DOMAIN out : j \in DOMAIN turns \/ j = Len(turns) + 1  BY <2>4
    <3> QED  BY <2>5, <2>6, <3>1
  <2>8. SpokenOf(raw, out) = SpokenOf(raw, turns) \o Texts(raw, pending)
    BY <1>1, <2>2, <2>3, SpokenAppend
  <2> QED  BY <1>2, <1>3, <2>4, <2>7, <2>8 DEF out
<1> QED  BY <1>5, <1>6

(* The invariant of _format_schema_history is kept by one more message. *)
LEMMA SchemaMeans ==
    ASSUME NEW raw \in Seq(Message), NEW k \in Nat, k < Len(raw), NEW acc, SchemaRead(raw, k, acc)
    PROVE  SchemaRead(raw, k + 1, ReadSchema(raw, acc, k + 1))
<1> DEFINE i == k + 1
           m == raw[i]
           new == ReadSchema(raw, acc, i)
<1>1. i \in 1..Len(raw) /\ i \in Nat /\ m \in Message /\ i - 1 = k  OBVIOUS
<1>2. m.type \in {"human", "ai", "tool", "system"} /\ m.text \in BOOLEAN  BY <1>1 DEF Message
<1>3. acc \in SchemaReading /\ acc.turns \in Seq(SchemaTurn) /\ acc.pending \in Seq(Nat)
  BY DEF SchemaRead, SchemaReading
<1>4. SpokenOf(raw, acc.turns) \in Seq(Nat) /\ Texts(raw, acc.pending) \in Seq(Nat)
  BY <1>3, SpokenAppend, TextsAre
<1>5. /\ TextsTo(raw, i) = TextsTo(raw, k) \o If(Worth(m), <<i>>)
      /\ TextsTo(raw, k) \in Seq(Nat)
  BY ShownNext
<1>6. /\ SpokenOf(raw, acc.turns) \o Texts(raw, acc.pending) = TextsTo(raw, k)
      /\ acc.turns # <<>> => acc.turns[Len(acc.turns)][1] = "user"
      /\ \A j \in DOMAIN acc.turns : TurnRight(acc.turns, j)
  BY DEF SchemaRead
<1>7. /\ new \in SchemaReading
      /\ m.type = "human" => new = [turns |-> Append(Flushed(acc), <<"user", <<i>>>>), pending |-> <<>>]
      /\ m.type = "ai" /\ m.text => new = [turns |-> acc.turns, pending |-> Append(acc.pending, i)]
      /\ m.type # "human" /\ ~(m.type = "ai" /\ m.text) => new = acc
  BY <1>1, <1>3, SchemaStep DEF Flushed
<1> SUFFICES SchemaRead(raw, i, new)
  OBVIOUS
<1> HIDE DEF new, m
<1>8. CASE m.type = "human"
  <2> DEFINE out == Flushed(acc)
             t == <<"user", <<i>>>>
  <2>1. /\ out \in Seq(SchemaTurn) /\ SpokenOf(raw, out) = TextsTo(raw, k)
        /\ \A j \in DOMAIN out : TurnRight(out, j)
    BY Flushing
  <2>2. t \in SchemaTurn /\ t[1] = "user" /\ t[2] = <<i>>
    <3>1. <<i>> \in Seq(Nat)  BY <1>1
    <3> QED  BY <3>1 DEF SchemaTurn
  <2>3. new.turns = Append(out, t) /\ new.pending = <<>>  BY <1>7, <1>8
  <2> HIDE DEF out, t
  <2>4. Len(out) \in Nat /\ new.turns \in Seq(SchemaTurn) /\ Len(new.turns) = Len(out) + 1
        /\ new.turns[Len(out) + 1] = t /\ DOMAIN new.turns = 1..(Len(out) + 1)
        /\ DOMAIN out = 1..Len(out) /\ \A j \in 1..Len(out) : new.turns[j] = out[j]
    BY <2>1, <2>2, <2>3
  <2>5. ASSUME NEW j \in DOMAIN out PROVE TurnRight(new.turns, j)
    <3>1. j \in 1..Len(out) /\ (j > 1 => j - 1 \in 1..Len(out))  BY <2>4, <2>5
    <3> QED  BY <2>1, <2>4, <2>5, <3>1 DEF TurnRight
  <2>6. TurnRight(new.turns, Len(out) + 1)  BY <2>2, <2>4 DEF TurnRight
  <2>7. \A j \in DOMAIN new.turns : TurnRight(new.turns, j)
    <3>1. \A j \in DOMAIN new.turns : j \in DOMAIN out \/ j = Len(out) + 1  BY <2>4
    <3> QED  BY <2>5, <2>6, <3>1
  <2>8. Texts(raw, t[2]) = If(m.text, <<i>>) /\ Texts(raw, <<>>) = <<>>
    <3>1. <<>> \in Seq(Nat) /\ <<i>> = Append(<<>>, i)  BY <1>1
    <3>2. Texts(raw, Append(<<>>, i)) = Texts(raw, <<>>) \o If(raw[i].text, <<i>>) /\ Texts(raw, <<>>) = <<>>
      BY <1>1, <3>1, TextsConcat
    <3>3. If(raw[i].text, <<i>>) \in Seq(Nat)  BY <1>1 DEF If
    <3>4. <<>> \o If(raw[i].text, <<i>>) = If(raw[i].text, <<i>>)  BY <3>3
    <3> QED  BY <2>2, <3>1, <3>2, <3>4 DEF m
  <2>9. Worth(m) = m.text  BY <1>2, <1>8 DEF Worth
  <2>10. SpokenOf(raw, new.turns) = TextsTo(raw, i)
    <3>1. SpokenOf(raw, new.turns) = TextsTo(raw, k) \o Texts(raw, t[2])
      BY <2>1, <2>2, <2>3, SpokenAppend
    <3> QED  BY <1>5, <2>8, <2>9, <3>1
  <2>11. SpokenOf(raw, new.turns) \o Texts(raw, new.pending) = TextsTo(raw, i)
    <3>1. SpokenOf(raw, new.turns) \in Seq(Nat)  BY <2>4, SpokenAppend
    <3>2. \A x \in Seq(Nat) : x \o <<>> = x  OBVIOUS
    <3> QED  BY <2>3, <2>8, <2>10, <3>1, <3>2
  <2>12. new.turns[Len(new.turns)][1] = "user"  BY <2>2, <2>4
  <2> HIDE DEF i
  <2> QED  BY <1>7, <2>7, <2>11, <2>12 DEF SchemaRead
<1>9. CASE m.type = "ai" /\ m.text
  <2>1. new.turns = acc.turns /\ new.pending = Append(acc.pending, i)
    <3> HIDE DEF i
    <3>1. new = [turns |-> acc.turns, pending |-> Append(acc.pending, i)]  BY <1>7, <1>9
    <3> QED  BY <3>1
  <2>2. Texts(raw, new.pending) = Texts(raw, acc.pending) \o If(raw[i].text, <<i>>)
    BY <1>1, <1>3, <2>1, TextsConcat
  <2>3. If(raw[i].text, <<i>>) = If(Worth(m), <<i>>)  BY <1>9 DEF Worth, If, m
  <2>4. If(Worth(m), <<i>>) \in Seq(Nat)  BY <1>1, <1>9 DEF Worth, If
  <2> DEFINE A == SpokenOf(raw, acc.turns)
             B == Texts(raw, acc.pending)
             C == If(Worth(m), <<i>>)
  <2>5. A \o (B \o C) = (A \o B) \o C
    <3>1. A \in Seq(Nat) /\ B \in Seq(Nat) /\ C \in Seq(Nat)  BY <1>4, <2>4
    <3> HIDE DEF A, B, C
    <3> QED  BY <3>1
  <2> HIDE DEF i
  <2>6. SpokenOf(raw, new.turns) \o Texts(raw, new.pending) = TextsTo(raw, i)
    BY <1>5, <1>6, <2>1, <2>2, <2>3, <2>5
  <2> QED  BY <1>6, <1>7, <2>1, <2>6 DEF SchemaRead
<1>10. CASE m.type # "human" /\ ~(m.type = "ai" /\ m.text)
  <2>1. new = acc  BY <1>7, <1>10
  <2>2. If(Worth(m), <<i>>) = <<>>  BY <1>10 DEF If, Worth
  <2>3. TextsTo(raw, i) = TextsTo(raw, k)
    <3>1. \A x \in Seq(Nat) : x \o <<>> = x  OBVIOUS
    <3> QED  BY <1>5, <2>2, <3>1
  <2> HIDE DEF i
  <2> QED  BY <1>3, <1>6, <2>1, <2>3 DEF SchemaRead
<1> QED  BY <1>8, <1>9, <1>10

LEMMA SchemaReads ==
    ASSUME NEW raw \in Seq(Message)
    PROVE  \A k \in 0..Len(raw) : SchemaRead(raw, k, SchemaRun(raw)[1..k])
<1> DEFINE n == Len(raw)
           f == SchemaRun(raw)
           T == {k \in Nat : k <= n => SchemaRead(raw, k, f[1..k])}
<1>1. n \in Nat  OBVIOUS
<1>2. /\ f[{}] = NoTurns /\ NoTurns \in SchemaReading
      /\ \A k \in Nat : k < n => f[1..(k + 1)] = ReadSchema(raw, f[1..k], k + 1)
  BY SchemaRuns
<1> HIDE DEF f
<1>3. 0 \in T
  <2>1. 1..0 = {}  OBVIOUS
  <2>2. f[1..0] = NoTurns  BY <1>2, <2>1
  <2>3. NoTurns.turns = <<>> /\ NoTurns.pending = <<>>  BY DEF NoTurns
  <2>4. <<>> \in Seq(SchemaTurn) /\ <<>> \in Seq(Nat) /\ 0 \in Nat
        /\ <<>> \o <<>> = <<>> /\ DOMAIN <<>> = {}
    OBVIOUS
  <2>5. SpokenOf(raw, <<>>) = <<>> /\ Texts(raw, <<>>) = <<>>
    BY <2>4, SpokenAppend, TextsConcat
  <2>6. SchemaRead(raw, 0, NoTurns)
    BY <1>2, <2>3, <2>4, <2>5, ShownAtFirst DEF SchemaRead
  <2> QED  BY <2>2, <2>6
<1>4. ASSUME NEW k \in Nat, k \in T PROVE k + 1 \in T
  <2> SUFFICES ASSUME k + 1 <= n PROVE SchemaRead(raw, k + 1, f[1..(k + 1)])
    OBVIOUS
  <2>1. k < n /\ k <= n  BY <1>1
  <2>2. SchemaRead(raw, k, f[1..k])  BY <1>4, <2>1
  <2>3. SchemaRead(raw, k + 1, ReadSchema(raw, f[1..k], k + 1))  BY <2>1, <2>2, SchemaMeans
  <2> QED  BY <1>2, <2>1, <2>3
<1>5. Nat \subseteq T  BY <1>3, <1>4, Induct
<1> QED  BY <1>1, <1>5 DEF f

(* What _format_schema_history returns. *)
LEMMA TurnsAreExact ==
    ASSUME NEW raw \in Seq(Message)
    PROVE  LET out == FormatSchemaHistory(raw) IN
           /\ out \in Seq(SchemaTurn) /\ out = Flushed(SchemaRun(raw)[1..Len(raw)])
           /\ SpokenOf(raw, out) = TextsTo(raw, Len(raw))
           /\ \A j \in DOMAIN out : TurnRight(out, j)
<1> DEFINE n == Len(raw)
           acc == SchemaRun(raw)[1..n]
<1>1. n \in Nat /\ n \in 0..n  OBVIOUS
<1>2. FormatSchemaHistory(raw) = FlushAssistant(acc).turns  BY SchemaRuns
<1>3. SchemaRead(raw, n, acc)  BY <1>1, SchemaReads
<1> HIDE DEF n
<1> QED  BY <1>1, <1>2, <1>3, Flushing DEF n

-----------------------------------------------------------------------------
Indexed(turns) == [j \in DOMAIN turns |-> turns[j][2]]

(* What extract_turns returns. *)
LEMMA IndexIsExact ==
    ASSUME NEW raw \in Seq(Message)
    PROVE  Indexed(ExtractTurns(raw)) = TextsTo(raw, Len(raw))
<1> DEFINE n == Len(raw)
           f == TurnRun(raw)
           Read(k, acc) == acc \in Turns /\ Indexed(acc) = TextsTo(raw, k)
           T == {k \in Nat : k <= n => Read(k, f[1..k])}
<1>1. n \in Nat  OBVIOUS
<1>2. /\ ExtractTurns(raw) = f[1..n]
      /\ f[{}] = <<>> /\ <<>> \in Turns
      /\ \A k \in Nat : k < n => f[1..(k + 1)] = ReadTurn(raw, f[1..k], k + 1)
  BY TurnRuns
<1> HIDE DEF f
<1>3. 0 \in T
  <2>1. 1..0 = {}  OBVIOUS
  <2>2. f[1..0] = <<>>  BY <1>2, <2>1
  <2>3. Indexed(<<>>) = <<>>  BY DEF Indexed
  <2> QED  BY <1>2, <2>2, <2>3, ShownAtFirst
<1>4. ASSUME NEW k \in Nat, k \in T PROVE k + 1 \in T
  <2> SUFFICES ASSUME k + 1 <= n PROVE Read(k + 1, f[1..(k + 1)])
    <3> HIDE DEF Read
    <3> QED  OBVIOUS
  <2> DEFINE acc == f[1..k]
             i == k + 1
             t == <<IF raw[i].type = "human" THEN "user" ELSE "assistant", i>>
  <2>1. k < n /\ k <= n /\ i \in 1..n /\ i \in Nat  BY <1>1
  <2>2. acc \in Turns /\ Indexed(acc) = TextsTo(raw, k)  BY <1>4, <2>1
  <2>3. f[1..i] = ReadTurn(raw, acc, i)  BY <1>2, <2>1
  <2>4. ReadTurn(raw, acc, i) \in Turns  BY <2>1, <2>2, TurnStep
  <2>5. TextsTo(raw, i) = TextsTo(raw, k) \o If(Worth(raw[i]), <<i>>) /\ TextsTo(raw, k) \in Seq(Nat)
    BY <2>1, ShownNext
  <2>6. CASE Worth(raw[i])
    <3>1. ReadTurn(raw, acc, i) = Append(acc, t)  BY <2>6 DEF Worth, ReadTurn
    <3>2. t \in {"user", "assistant"} \X Nat /\ t[2] = i  BY <2>1
    <3> HIDE DEF acc, i, t
    <3>3. Indexed(Append(acc, t)) = Append(Indexed(acc), i)
      BY <2>2, <3>2 DEF Indexed, Turns
    <3>4. TextsTo(raw, i) = Append(TextsTo(raw, k), i)  BY <2>1, <2>5, <2>6 DEF If
    <3> QED  BY <2>2, <2>3, <2>4, <3>1, <3>3, <3>4 DEF i
  <2>7. CASE ~Worth(raw[i])
    <3>1. ReadTurn(raw, acc, i) = acc  BY <2>7 DEF Worth, ReadTurn
    <3>2. \A x \in Seq(Nat) : x \o <<>> = x  OBVIOUS
    <3>3. TextsTo(raw, i) = TextsTo(raw, k)  BY <2>5, <2>7, <3>2 DEF If
    <3> HIDE DEF acc
    <3> QED  BY <2>2, <2>3, <3>1, <3>3
  <2> QED  BY <2>6, <2>7
<1> HIDE DEF Read
<1>5. Nat \subseteq T  BY <1>3, <1>4, Induct
<1>6. Read(n, f[1..n])  BY <1>1, <1>5
<1> QED  BY <1>2, <1>6 DEF Read

-----------------------------------------------------------------------------
LEMMA ReadersAreExact ==
    ASSUME history \in Seq(Message)
    PROVE  HistoryIsFaithful /\ ViewsAgree
<1> DEFINE n == Len(history)
           chat == FormatChatHistory(history)
           schema == FormatSchemaHistory(history)
           turns == ExtractTurns(history)
<1>1. n \in Nat /\ DOMAIN history = 1..n  OBVIOUS
<1>2. /\ chat \in Seq(ChatMessage) /\ PartsOf(chat) = ShownTo(history, n)
      /\ TextsOf(history, chat) = TextsTo(history, n)
      /\ \A j \in DOMAIN chat : MessageRight(history, chat, n, j)
  BY ChatIsExact
<1>3. /\ SpokenOf(history, schema) = TextsTo(history, n)
      /\ \A j \in DOMAIN schema : TurnRight(schema, j)
  BY TurnsAreExact
<1>4. Indexed(turns) = TextsTo(history, n)  BY IndexIsExact
<1> HIDE DEF n, chat, schema, turns
<1>5. HistoryIsFaithful
  BY <1>1, <1>2 DEF HistoryIsFaithful, PartsOf, ShownTo, MessageRight, Begin, Finish, At, chat, n
<1>6. ViewsAgree
  BY <1>2, <1>3, <1>4 DEF ViewsAgree, TextsOf, SpokenOf, Indexed, TurnRight, chat, schema, turns
<1> QED  BY <1>5, <1>6

(* The list of a thread, whatever the agents make of it. *)
Listed == history \in Seq(Message)

LEMMA WhateverIsListed == ASSUME HistInit PROVE Listed
<1>1. PICK n \in 0..MaxHistory : history \in [1..n -> HistMessage]  BY DEF HistInit
<1>2. n \in Nat /\ HistMessage \subseteq Message  BY <1>1, HistoryAssumption
<1>3. history \in [1..n -> Message]  BY <1>1, <1>2
<1> QED  BY <1>2, <1>3, IsSeq DEF Listed

(* format_chat_history shows every part of every message once and in order, holds one human   *)
(* message per message of the user, never shows an empty assistant message or two in a row,   *)
(* and gives each the usage of its own run of messages: for lists of any length and content.  *)
THEOREM HistoryStaysFaithful ==
    HistInit /\ [][Listed']_history => []HistoryIsFaithful
<1>1. HistInit => Listed  BY WhateverIsListed
<1>2. Listed /\ [Listed']_history => Listed'  BY DEF Listed
<1>3. Listed => HistoryIsFaithful  BY ReadersAreExact DEF Listed
<1> QED  BY <1>1, <1>2, <1>3, PTL

(* What extract_turns indexes of a thread is what format_chat_history and                     *)
(* _format_schema_history show of it as text, in this order, for lists of any length.         *)
THEOREM ViewsStayInAgreement ==
    HistInit /\ [][Listed']_history => []ViewsAgree
<1>1. HistInit => Listed  BY WhateverIsListed
<1>2. Listed /\ [Listed']_history => Listed'  BY DEF Listed
<1>3. Listed => ViewsAgree  BY ReadersAreExact DEF Listed
<1> QED  BY <1>1, <1>2, <1>3, PTL

-----------------------------------------------------------------------------
(* HistoryFormat: the pages of a list that was cut *)

(* Parts of a list that was cut, with the positions of the whole one. *)
LEMMA PartsMove ==
    ASSUME NEW c \in Nat, NEW p \in Seq(PartType)
    PROVE  /\ PartsBack(p, c) \in Seq(PartType) /\ (PartsBack(p, c) = <<>> <=> p = <<>>)
           /\ \A q \in Seq(PartType) : PartsBack(p \o q, c) = PartsBack(p, c) \o PartsBack(q, c)
           /\ \A x \in PartType : PartsBack(Append(p, x), c) = Append(PartsBack(p, c), Part(x.kind, x.from + c))
<1> DEFINE Moved(x) == Part(x.kind, x.from + c)
           A(q) == [k \in DOMAIN q |-> Moved(q[k])]
<1>1. \A q : PartsBack(q, c) = A(q)  BY DEF PartsBack
<1>2. \A x \in PartType : Moved(x) \in PartType  BY DEF Part, PartType
<1> HIDE DEF Moved
<1>3. PartsBack(p, c) \in Seq(PartType)  BY <1>1, <1>2
<1>4. PartsBack(p, c) = <<>> <=> p = <<>>
  <2>1. Len(p) \in Nat /\ DOMAIN p = 1..Len(p)  OBVIOUS
  <2>2. Len(PartsBack(p, c)) = Len(p)  BY <1>1, <2>1
  <2> QED  BY <1>3, <2>2
<1>5. ASSUME NEW q \in Seq(PartType)
      PROVE  PartsBack(p \o q, c) = PartsBack(p, c) \o PartsBack(q, c)
  <2>1. A(p) \in Seq(PartType) /\ A(q) \in Seq(PartType) /\ A(p \o q) \in Seq(PartType)
        /\ Len(A(p)) = Len(p) /\ Len(A(q)) = Len(q) /\ Len(A(p \o q)) = Len(p) + Len(q)
    BY <1>2
  <2>2. ASSUME NEW i \in 1..(Len(p) + Len(q)) PROVE A(p \o q)[i] = (A(p) \o A(q))[i]
    <3>1. CASE i \in 1..Len(p)  BY <2>1, <3>1
    <3>2. CASE i \notin 1..Len(p)
      <4>1. i - Len(p) \in 1..Len(q)  BY <3>2
      <4>2. (p \o q)[i] = q[i - Len(p)]  BY <3>2, <4>1
      <4>3. A(p \o q)[i] = Moved(q[i - Len(p)])  BY <4>2
      <4>4. (A(p) \o A(q))[i] = A(q)[i - Len(p)]
        <5> HIDE DEF A
        <5> QED  BY <2>1, <3>2, <4>1
      <4> QED  BY <4>1, <4>3, <4>4
    <3> QED  BY <3>1, <3>2
  <2> HIDE DEF A
  <2>3. A(p) \o A(q) \in Seq(PartType) /\ Len(A(p) \o A(q)) = Len(p) + Len(q)  BY <2>1
  <2>4. A(p \o q) = A(p) \o A(q)  BY <2>1, <2>2, <2>3
  <2>5. PartsBack(p, c) = A(p) /\ PartsBack(q, c) = A(q) /\ PartsBack(p \o q, c) = A(p \o q)
    BY <1>1, Zenon
  <2> QED  BY <2>4, <2>5
<1>6. ASSUME NEW x \in PartType
      PROVE  PartsBack(Append(p, x), c) = Append(PartsBack(p, c), Moved(x))
  <2>1. A(Append(p, x)) = Append(A(p), Moved(x))  OBVIOUS
  <2> QED  BY <1>1, <2>1
<1> QED  BY <1>3, <1>4, <1>5, <1>6 DEF Moved

LEMMA AiPartsMove ==
    ASSUME NEW m \in Message, NEW i \in Nat, NEW c \in Nat
    PROVE  PartsBack(AiParts(m, i), c) = AiParts(m, i + c)
<1> DEFINE R(j) == If(m.reasoning, <<Part("reasoning", j)>>)
           C(j) == [k \in 1..m.calls |-> Part("tool-call", j)]
           X(j) == If(m.text, <<Part("text", j)>>)
<1>1. \A kind \in {"reasoning", "tool-call", "text"} :
        /\ Part(kind, i) \in PartType /\ <<Part(kind, i)>> \in Seq(PartType)
        /\ Part(kind, i).kind = kind /\ Part(kind, i).from = i
  BY DEF Part, PartType
<1>2. <<>> \in Seq(PartType)  OBVIOUS
<1>3. \A kind \in {"reasoning", "tool-call", "text"} :
        PartsBack(<<Part(kind, i)>>, c) = <<Part(kind, i + c)>>
  BY <1>1 DEF PartsBack
<1>4. PartsBack(<<>>, c) = <<>>  BY DEF PartsBack
<1>5. R(i) \in Seq(PartType) /\ PartsBack(R(i), c) = R(i + c)  BY <1>1, <1>2, <1>3, <1>4 DEF If
<1>6. X(i) \in Seq(PartType) /\ PartsBack(X(i), c) = X(i + c)  BY <1>1, <1>2, <1>3, <1>4 DEF If
<1>7. C(i) \in Seq(PartType) /\ PartsBack(C(i), c) = C(i + c)
  <2>1. m.calls \in Nat  BY DEF Message
  <2>2. C(i) \in Seq(PartType)  BY <1>1, <2>1
  <2>3. PartsBack(C(i), c) = C(i + c)
    <3>1. DOMAIN C(i) = 1..m.calls /\ \A k \in 1..m.calls : C(i)[k] = Part("tool-call", i)  OBVIOUS
    <3> HIDE DEF C
    <3>2. PartsBack(C(i), c) = [k \in 1..m.calls |-> Part("tool-call", i + c)]
      BY <1>1, <3>1 DEF PartsBack
    <3> QED  BY <3>2 DEF C
  <2> QED  BY <2>2, <2>3
<1>8. AiParts(m, i) = (R(i) \o C(i)) \o X(i) /\ AiParts(m, i + c) = (R(i + c) \o C(i + c)) \o X(i + c)
  BY DEF AiParts
<1> HIDE DEF R, C, X
<1>9. R(i) \o C(i) \in Seq(PartType) /\ PartsBack(R(i) \o C(i), c) = R(i + c) \o C(i + c)
  <2>1. PartsBack(R(i) \o C(i), c) = PartsBack(R(i), c) \o PartsBack(C(i), c)  BY <1>5, <1>7, PartsMove
  <2> QED  BY <1>5, <1>7, <2>1
<1>10. PartsBack((R(i) \o C(i)) \o X(i), c) = PartsBack(R(i) \o C(i), c) \o PartsBack(X(i), c)
  BY <1>6, <1>9, PartsMove
<1> QED  BY <1>6, <1>8, <1>9, <1>10

LEMMA MessageMoves ==
    ASSUME NEW c \in Nat, NEW m \in ChatMessage
    PROVE  /\ ChatBack(m, c) \in ChatMessage /\ ChatBack(m, c).role = m.role
           /\ ChatBack(m, c).parts = PartsBack(m.parts, c) /\ ChatBack(m, c).usage = Back(m.usage, c)
<1>1. m.role \in {"user", "assistant"} /\ PartsBack(m.parts, c) \in Seq(PartType) /\ Back(m.usage, c) \in Nat
  BY PartsMove DEF ChatMessage, Back
<1> QED  BY <1>1 DEF ChatBack, ChatMessage

LEMMA ChatMoves ==
    ASSUME NEW c \in Nat, NEW done \in Seq(ChatMessage)
    PROVE  /\ ChatsBack(done, c) \in Seq(ChatMessage) /\ ChatsBack(<<>>, c) = <<>>
           /\ Len(ChatsBack(done, c)) = Len(done)
           /\ \A m \in ChatMessage : ChatsBack(Append(done, m), c) = Append(ChatsBack(done, c), ChatBack(m, c))
<1> DEFINE Moved(x) == ChatBack(x, c)
           A(q) == [k \in DOMAIN q |-> Moved(q[k])]
<1>1. \A q : ChatsBack(q, c) = A(q)  BY DEF ChatsBack
<1>2. \A x \in ChatMessage : Moved(x) \in ChatMessage  BY MessageMoves
<1> HIDE DEF Moved
<1>3. ChatsBack(done, c) \in Seq(ChatMessage) /\ ChatsBack(<<>>, c) = <<>> /\ Len(ChatsBack(done, c)) = Len(done)
  BY <1>1, <1>2
<1>4. ASSUME NEW m \in ChatMessage
      PROVE  ChatsBack(Append(done, m), c) = Append(ChatsBack(done, c), Moved(m))
  <2>1. A(Append(done, m)) = Append(A(done), Moved(m))  OBVIOUS
  <2> QED  BY <1>1, <2>1
<1> QED  BY <1>3, <1>4 DEF Moved

-----------------------------------------------------------------------------
OpenBack(open, c) == IF open = Closed THEN Closed ELSE ChatBack(open, c)
Shift(pre, c, acc) == [done |-> pre \o ChatsBack(acc.done, c), open |-> OpenBack(acc.open, c)]
Rest(raw, c, rest) ==
    /\ rest \in Seq(Message) /\ Len(raw) = Len(rest) + c
    /\ \A k \in 1..Len(rest) : rest[k] = raw[k + c]

(* A reading of the rest of a list, with what came before in front of it. *)
LEMMA ShiftIs ==
    ASSUME NEW c \in Nat, NEW pre \in Seq(ChatMessage), NEW acc \in ChatReading
    PROVE  /\ Shift(pre, c, acc) \in ChatReading
           /\ OpenBack(acc.open, c).parts = PartsBack(acc.open.parts, c)
           /\ OpenUsage(Shift(pre, c, acc)) = Back(OpenUsage(acc), c)
           /\ ClosedUp(acc) \in Seq(ChatMessage)
           /\ ClosedUp(Shift(pre, c, acc)) = pre \o ChatsBack(ClosedUp(acc), c)
           /\ acc.done # <<>> => ClosedUp(acc) # <<>> /\ ClosedUp(acc)[1] = acc.done[1]
<1> DEFINE new == Shift(pre, c, acc)
           open == acc.open
           done == acc.done
<1>1. done \in Seq(ChatMessage) /\ (open = Closed \/ (open \in ChatMessage /\ open.role = "assistant"))
  BY DEF ChatReading
<1>2. ChatsBack(done, c) \in Seq(ChatMessage)  BY <1>1, ChatMoves
<1>3. pre \o ChatsBack(done, c) \in Seq(ChatMessage)  BY <1>2
<1>4. new.done = pre \o ChatsBack(done, c) /\ new.open = OpenBack(open, c)
      /\ new = [done |-> pre \o ChatsBack(done, c), open |-> OpenBack(open, c)]
  BY DEF Shift
<1> HIDE DEF new, open, done
<1>5. CASE open = Closed
  <2>1. OpenBack(open, c) = Closed /\ Closed.parts = <<>>  BY <1>5 DEF OpenBack, Closed
  <2>2. new \in ChatReading  BY <1>3, <1>4, <2>1 DEF ChatReading
  <2>3. PartsBack(<<>>, c) = <<>>  BY DEF PartsBack
  <2>4. OpenUsage(new) = 0 /\ OpenUsage(acc) = 0 /\ Back(0, c) = 0
    BY <1>4, <1>5, <2>1 DEF OpenUsage, Back, open
  <2>5. ClosedUp(acc) = done \o <<>> /\ ClosedUp(new) = new.done \o <<>>
    BY <1>4, <1>5, <2>1 DEF ClosedUp, If, open, done
  <2>6. ClosedUp(acc) = done /\ ClosedUp(new) = new.done
    <3>1. \A z \in Seq(ChatMessage) : z \o <<>> = z  OBVIOUS
    <3>2. done \in Seq(ChatMessage) /\ new.done \in Seq(ChatMessage)  BY <1>1, <1>3, <1>4
    <3> QED  BY <2>5, <3>1, <3>2
  <2> QED  BY <1>1, <1>4, <1>5, <2>1, <2>2, <2>3, <2>4, <2>6 DEF new, open, done
<1>6. CASE open # Closed
  <2> DEFINE o == ChatBack(open, c)
  <2>1. open \in ChatMessage /\ open.role = "assistant" /\ OpenBack(open, c) = o
    BY <1>1, <1>6 DEF OpenBack
  <2>2. o \in ChatMessage /\ o.role = "assistant" /\ o.parts = PartsBack(open.parts, c)
        /\ o.usage = Back(open.usage, c)
    BY <2>1, MessageMoves
  <2>3. o # Closed
    <3>1. "role" \in DOMAIN o /\ "role" \notin DOMAIN Closed  BY <2>2 DEF ChatMessage, Closed
    <3> QED  BY <3>1
  <2> HIDE DEF o
  <2>4. new \in ChatReading  BY <1>3, <1>4, <2>1, <2>2 DEF ChatReading
  <2>5. OpenUsage(new) = Back(OpenUsage(acc), c)
    BY <1>4, <1>6, <2>1, <2>2, <2>3 DEF OpenUsage, open
  <2>6. open.parts \in Seq(PartType)  BY <2>1 DEF ChatMessage
  <2>7. o.parts = <<>> <=> open.parts = <<>>  BY <2>2, <2>6, PartsMove
  <2>8. ClosedUp(acc) \in Seq(ChatMessage) /\ ClosedUp(new) = pre \o ChatsBack(ClosedUp(acc), c)
        /\ (done # <<>> => ClosedUp(acc) # <<>> /\ ClosedUp(acc)[1] = done[1])
    <3>1. CASE open.parts = <<>>
      <4>1. ClosedUp(acc) = done \o <<>> /\ ClosedUp(new) = new.done \o <<>>
        BY <1>4, <2>1, <2>7, <3>1 DEF ClosedUp, If, open, done
      <4>2. ClosedUp(acc) = done /\ ClosedUp(new) = new.done
        <5>1. \A z \in Seq(ChatMessage) : z \o <<>> = z  OBVIOUS
        <5>2. done \in Seq(ChatMessage) /\ new.done \in Seq(ChatMessage)  BY <1>1, <1>3, <1>4
        <5> QED  BY <4>1, <5>1, <5>2
      <4> QED  BY <1>1, <1>4, <4>2
    <3>2. CASE open.parts # <<>>
      <4>1. ClosedUp(acc) = done \o <<open>> /\ ClosedUp(new) = new.done \o <<o>>
        BY <1>4, <2>1, <2>7, <3>2 DEF ClosedUp, If, open, done
      <4>2. done \o <<open>> = Append(done, open)  BY <1>1, <2>1
      <4>3. ChatsBack(Append(done, open), c) = Append(ChatsBack(done, c), o)
        BY <1>1, <2>1, ChatMoves DEF o
      <4>4. (pre \o ChatsBack(done, c)) \o <<o>> = pre \o Append(ChatsBack(done, c), o)
        BY <1>2, <2>2, Joined
      <4>5. Append(done, open) \in Seq(ChatMessage)
            /\ (done # <<>> => Append(done, open) # <<>> /\ Append(done, open)[1] = done[1])
        BY <1>1, <2>1
      <4> QED  BY <1>4, <4>1, <4>2, <4>3, <4>4, <4>5
    <3> QED  BY <3>1, <3>2
  <2> QED  BY <2>1, <2>2, <2>4, <2>5, <2>8 DEF new, open, done
<1> QED  BY <1>5, <1>6

(* format_chat_history takes the same step in the whole list and in the rest of it. *)
LEMMA ReadMoves ==
    ASSUME NEW c \in Nat, NEW raw \in Seq(Message), NEW rest, Rest(raw, c, rest),
           NEW pre \in Seq(ChatMessage), NEW acc \in ChatReading, NEW k \in 1..Len(rest)
    PROVE  ReadChat(raw, Shift(pre, c, acc), k + c) = Shift(pre, c, ReadChat(rest, acc, k))
<1> DEFINE i == k + c
           m == raw[i]
           far == Shift(pre, c, acc)
           a == ReadChat(rest, acc, k)
           b == ReadChat(raw, far, i)
<1>1. rest \in Seq(Message) /\ rest[k] = m /\ i \in 1..Len(raw) /\ k \in Nat /\ k # 0 /\ i \in Nat
      /\ m \in Message /\ m = raw[i]
  BY DEF Rest
<1>2. m.type \in {"human", "ai", "tool", "system"}  BY <1>1 DEF Message
<1>3. /\ far \in ChatReading
      /\ far.done = pre \o ChatsBack(acc.done, c) /\ far.open.parts = PartsBack(acc.open.parts, c)
      /\ far = [done |-> pre \o ChatsBack(acc.done, c), open |-> OpenBack(acc.open, c)]
      /\ OpenUsage(far) = Back(OpenUsage(acc), c)
      /\ ClosedUp(acc) \in Seq(ChatMessage)
      /\ ClosedUp(far) = pre \o ChatsBack(ClosedUp(acc), c)
  <2>1. far.done = pre \o ChatsBack(acc.done, c) /\ far.open = OpenBack(acc.open, c)
        /\ far = [done |-> pre \o ChatsBack(acc.done, c), open |-> OpenBack(acc.open, c)]
    BY DEF Shift
  <2> HIDE DEF far
  <2>2. far = Shift(pre, c, acc)  BY DEF far
  <2> QED  BY <2>1, <2>2, ShiftIs
<1>4. acc.open.parts \in Seq(PartType)
  <2>1. acc.open = Closed \/ acc.open \in ChatMessage  BY DEF ChatReading
  <2>2. Closed.parts = <<>> /\ <<>> \in Seq(PartType)  BY DEF Closed
  <2> QED  BY <2>1, <2>2 DEF ChatMessage
<1> HIDE DEF i, m, far, a, b
<1>5. /\ a \in ChatReading
      /\ m.type = "human" => a = [done |-> Append(ClosedUp(acc), UserMessage(k)), open |-> Closed]
      /\ m.type = "ai" =>
           a = [done |-> acc.done,
                open |-> [role |-> "assistant", parts |-> acc.open.parts \o AiParts(m, k),
                          usage |-> IF m.usage THEN k ELSE OpenUsage(acc)]]
      /\ m.type = "tool" =>
           a = [done |-> acc.done,
                open |-> [role |-> "assistant", parts |-> Append(acc.open.parts, Part("tool-result", k)),
                          usage |-> OpenUsage(acc)]]
      /\ m.type = "system" => a = acc
  <2> DEFINE r == rest[k]
  <2>1. /\ a \in ChatReading
        /\ r.type = "human" => a = [done |-> Append(ClosedUp(acc), UserMessage(k)), open |-> Closed]
        /\ r.type = "ai" =>
             a = [done |-> acc.done,
                  open |-> [role |-> "assistant", parts |-> acc.open.parts \o AiParts(r, k),
                            usage |-> IF r.usage THEN k ELSE OpenUsage(acc)]]
        /\ r.type = "tool" =>
             a = [done |-> acc.done,
                  open |-> [role |-> "assistant", parts |-> Append(acc.open.parts, Part("tool-result", k)),
                            usage |-> OpenUsage(acc)]]
        /\ r.type = "system" => a = acc
    BY <1>1, ChatStep DEF ClosedUp, a
  <2>2. r = m  BY <1>1
  <2> HIDE DEF r
  <2> QED  BY <2>1, <2>2
<1>6. /\ m.type = "human" => b = [done |-> Append(ClosedUp(far), UserMessage(i)), open |-> Closed]
      /\ m.type = "ai" =>
           b = [done |-> far.done,
                open |-> [role |-> "assistant", parts |-> far.open.parts \o AiParts(m, i),
                          usage |-> IF m.usage THEN i ELSE OpenUsage(far)]]
      /\ m.type = "tool" =>
           b = [done |-> far.done,
                open |-> [role |-> "assistant", parts |-> Append(far.open.parts, Part("tool-result", i)),
                          usage |-> OpenUsage(far)]]
      /\ m.type = "system" => b = far
  BY <1>1, <1>3, ChatStep DEF ClosedUp, b, m
<1> SUFFICES b = Shift(pre, c, a)
  BY DEF a, b, i, far
<1>7. Shift(pre, c, a) = [done |-> pre \o ChatsBack(a.done, c), open |-> OpenBack(a.open, c)]
  BY DEF Shift
<1>8. i = k + c /\ Back(k, c) = i  BY <1>1 DEF i, Back
<1>9. CASE m.type = "human"
  <2>1. ChatBack(UserMessage(k), c) = UserMessage(i) /\ UserMessage(k) \in ChatMessage
    <3>1. <<Part("text", k)>> \in Seq(PartType)  BY <1>1 DEF Part, PartType
    <3>2. PartsBack(<<Part("text", k)>>, c) = <<Part("text", i)>>  BY <1>8 DEF PartsBack, Part
    <3> QED  BY <3>1, <3>2 DEF UserMessage, ChatBack, ChatMessage, Back
  <2>2. a.done = Append(ClosedUp(acc), UserMessage(k)) /\ a.open = Closed  BY <1>5, <1>9
  <2>3. ChatsBack(a.done, c) = Append(ChatsBack(ClosedUp(acc), c), UserMessage(i))
    BY <1>3, <2>1, <2>2, ChatMoves
  <2>4. ChatsBack(ClosedUp(acc), c) \in Seq(ChatMessage) /\ UserMessage(i) \in ChatMessage
    BY <1>3, <2>1, ChatMoves, MessageMoves
  <2>5. pre \o Append(ChatsBack(ClosedUp(acc), c), UserMessage(i))
          = Append(pre \o ChatsBack(ClosedUp(acc), c), UserMessage(i))
    BY <2>4
  <2>6. OpenBack(a.open, c) = Closed  BY <2>2 DEF OpenBack
  <2> QED  BY <1>3, <1>6, <1>7, <1>9, <2>3, <2>5, <2>6
<1>10. ASSUME NEW p \in Seq(PartType), NEW q, NEW u, NEW v,
              a = [done |-> acc.done, open |-> [role |-> "assistant", parts |-> p, usage |-> u]],
              b = [done |-> far.done, open |-> [role |-> "assistant", parts |-> q, usage |-> v]],
              q = PartsBack(p, c), v = Back(u, c)
       PROVE  b = Shift(pre, c, a)
  <2> DEFINE o == [role |-> "assistant", parts |-> p, usage |-> u]
  <2>1. a.open = o /\ a.done = acc.done  BY <1>10
  <2>2. "role" \in DOMAIN o /\ "role" \notin DOMAIN Closed  BY DEF Closed
  <2>3. ChatBack(o, c) = [role |-> "assistant", parts |-> q, usage |-> v]  BY <1>10 DEF ChatBack
  <2> HIDE DEF o
  <2>4. OpenBack(a.open, c) = ChatBack(o, c)  BY <2>1, <2>2 DEF OpenBack
  <2> QED  BY <1>3, <1>7, <1>10, <2>1, <2>3, <2>4
<1>11. CASE m.type = "ai"
  <2> DEFINE p == acc.open.parts \o AiParts(m, k)
             q == far.open.parts \o AiParts(m, i)
             u == IF m.usage THEN k ELSE OpenUsage(acc)
             v == IF m.usage THEN i ELSE OpenUsage(far)
  <2>1. AiParts(m, k) \in Seq(PartType) /\ PartsBack(AiParts(m, k), c) = AiParts(m, i)
    BY <1>1, <1>8, AiPartsAre, AiPartsMove
  <2>2. p \in Seq(PartType) /\ q = PartsBack(p, c)
    <3>1. PartsBack(p, c) = PartsBack(acc.open.parts, c) \o PartsBack(AiParts(m, k), c)
      BY <1>4, <2>1, PartsMove
    <3> QED  BY <1>3, <1>4, <2>1, <3>1
  <2>3. v = Back(u, c)  BY <1>3, <1>8
  <2>4. a = [done |-> acc.done, open |-> [role |-> "assistant", parts |-> p, usage |-> u]]
        /\ b = [done |-> far.done, open |-> [role |-> "assistant", parts |-> q, usage |-> v]]
    BY <1>5, <1>6, <1>11
  <2> HIDE DEF p, q, u, v
  <2> QED  BY <1>10, <2>2, <2>3, <2>4
<1>12. CASE m.type = "tool"
  <2> DEFINE p == Append(acc.open.parts, Part("tool-result", k))
             q == Append(far.open.parts, Part("tool-result", i))
             u == OpenUsage(acc)
             v == OpenUsage(far)
  <2>1. Part("tool-result", k) \in PartType /\ Part("tool-result", k).kind = "tool-result"
        /\ Part("tool-result", k).from + c = i
    BY <1>1, <1>8 DEF Part, PartType
  <2>2. p \in Seq(PartType) /\ q = PartsBack(p, c)
    <3>1. PartsBack(p, c) = Append(PartsBack(acc.open.parts, c), Part("tool-result", i))
      <4> DEFINE x == Part("tool-result", k)
      <4>1. x \in PartType /\ x.kind = "tool-result" /\ x.from + c = i  BY <2>1
      <4> HIDE DEF x
      <4>2. PartsBack(Append(acc.open.parts, x), c)
              = Append(PartsBack(acc.open.parts, c), Part(x.kind, x.from + c))
        BY <1>4, <4>1, PartsMove
      <4> QED  BY <4>1, <4>2 DEF x
    <3> QED  BY <1>3, <1>4, <2>1, <3>1
  <2>3. v = Back(u, c)  BY <1>3
  <2>4. a = [done |-> acc.done, open |-> [role |-> "assistant", parts |-> p, usage |-> u]]
        /\ b = [done |-> far.done, open |-> [role |-> "assistant", parts |-> q, usage |-> v]]
    BY <1>5, <1>6, <1>12
  <2> HIDE DEF p, q, u, v
  <2> QED  BY <1>10, <2>2, <2>3, <2>4
<1>13. CASE m.type = "system"
  BY <1>3, <1>5, <1>6, <1>7, <1>13
<1> QED  BY <1>2, <1>9, <1>11, <1>12, <1>13

(* The page of the rest is the last of the page of the whole, from a question on. *)
LEMMA ChatOfRest ==
    ASSUME NEW c \in Nat, NEW raw \in Seq(Message), NEW rest, Rest(raw, c, rest),
           rest # <<>>, rest[1].type = "human"
    PROVE  LET chat == FormatChatHistory(rest) IN
           /\ IsSuffix(ChatsBack(chat, c), FormatChatHistory(raw))
           /\ chat # <<>> /\ chat[1].role = "user"
<1> DEFINE n == Len(rest)
           f == ChatRun(raw)
           g == ChatRun(rest)
           pre == ClosedUp(f[1..c])
           Same(k) == /\ f[1..(k + c)] = Shift(pre, c, g[1..k])
                      /\ g[1..k].done # <<>> /\ g[1..k].done[1].role = "user"
           T == {k \in Nat : k + 1 <= n => Same(k + 1)}
<1>1. rest \in Seq(Message) /\ n \in Nat /\ n # 0 /\ Len(raw) = n + c /\ 1 \in 1..n /\ c \in 0..(n + c)
      /\ rest[1] = raw[1 + c]
  BY DEF Rest
<1>2. /\ g[{}] = NoChat /\ NoChat \in ChatReading
      /\ \A k \in Nat : k < n => g[1..(k + 1)] = ReadChat(rest, g[1..k], k + 1)
  BY <1>1, ChatRuns
<1>3. \A k \in Nat : k < n + c => f[1..(k + 1)] = ReadChat(raw, f[1..k], k + 1)
  BY <1>1, ChatRuns
<1>4. \A k \in 0..n : g[1..k] \in ChatReading  BY <1>1, ChatReads DEF ChatRead
<1>5. \A k \in 0..(n + c) : f[1..k] \in ChatReading  BY <1>1, ChatReads DEF ChatRead
<1>6. FormatChatHistory(raw) = ClosedUp(f[1..(n + c)])  BY <1>1, ChatIsExact
<1>7. FormatChatHistory(rest) = ClosedUp(g[1..n])  BY <1>1, ChatIsExact
<1> HIDE DEF n, f, g
<1>8. pre \in Seq(ChatMessage)
  <2>1. f[1..c] \in ChatReading  BY <1>1, <1>5
  <2>2. <<>> \in Seq(ChatMessage)  OBVIOUS
  <2> QED  BY <2>1, <2>2, ShiftIs
<1>9. 0 \in T
  <2>1. 1..0 = {} /\ 0 \in Nat /\ 0 < n /\ 0 + 1 = 1 /\ c < n + c /\ c + 1 = 1 + c /\ 1 + c \in 1..Len(raw)
    BY <1>1
  <2>2. g[1..0] = NoChat  BY <1>2, <2>1
  <2>3. g[1..1] = ReadChat(rest, NoChat, 1)
    <3>1. g[1..(0 + 1)] = ReadChat(rest, g[1..0], 0 + 1)  BY <1>2, <2>1
    <3> QED  BY <2>1, <2>2, <3>1
  <2>4. f[1..(1 + c)] = ReadChat(raw, f[1..c], 1 + c)
    <3>1. f[1..(c + 1)] = ReadChat(raw, f[1..c], c + 1)  BY <1>3, <2>1
    <3> QED  BY <2>1, <3>1
  <2>5. f[1..(1 + c)] = [done |-> Append(pre, UserMessage(1 + c)), open |-> Closed]
    <3>1. f[1..c] \in ChatReading /\ raw[1 + c].type = "human"  BY <1>1, <1>5
    <3>2. ReadChat(raw, f[1..c], 1 + c) = [done |-> Append(ClosedUp(f[1..c]), UserMessage(1 + c)), open |-> Closed]
      BY <2>1, <3>1, ChatStep DEF ClosedUp
    <3> QED  BY <2>4, <3>2
  <2>6. g[1..1] = [done |-> <<UserMessage(1)>>, open |-> Closed]
    <3>1. ReadChat(rest, NoChat, 1) = [done |-> Append(ClosedUp(NoChat), UserMessage(1)), open |-> Closed]
      BY <1>1, <1>2, ChatStep DEF ClosedUp, n
    <3>2. ClosedUp(NoChat) = <<>> \o <<>>  BY DEF ClosedUp, NoChat, Closed, If
    <3>3. <<>> \o <<>> = <<>> /\ Append(<<>>, UserMessage(1)) = <<UserMessage(1)>>  OBVIOUS
    <3> QED  BY <2>3, <3>1, <3>2, <3>3
  <2>7. ChatBack(UserMessage(1), c) = UserMessage(1 + c)
    BY DEF UserMessage, ChatBack, PartsBack, Part, Back
  <2>8. ChatsBack(<<UserMessage(1)>>, c) = <<UserMessage(1 + c)>>  BY <2>7 DEF ChatsBack
  <2>9. UserMessage(1 + c) \in ChatMessage
    BY DEF UserMessage, ChatMessage, Part, PartType
  <2>10. Shift(pre, c, g[1..1]) = [done |-> pre \o <<UserMessage(1 + c)>>, open |-> Closed]
    <3> DEFINE last == g[1..1]
    <3>1. last.done = <<UserMessage(1)>> /\ last.open = Closed  BY <2>6
    <3> HIDE DEF last, pre
    <3>2. OpenBack(last.open, c) = Closed  BY <3>1 DEF OpenBack
    <3>3. Shift(pre, c, last) = [done |-> pre \o <<UserMessage(1 + c)>>, open |-> Closed]
      BY <2>8, <3>1, <3>2 DEF Shift
    <3> QED  BY <3>3 DEF last
  <2> DEFINE x == UserMessage(1 + c)
             y == UserMessage(1)
  <2>11. pre \o <<x>> = Append(pre, x)
    <3> HIDE DEF pre, x
    <3> QED  BY <1>8, <2>9 DEF x
  <2>12. y.role = "user" /\ g[1..1].done = <<y>>  BY <2>6 DEF UserMessage
  <2>13. g[1..1].done # <<>> /\ g[1..1].done[1].role = "user"
    <3> HIDE DEF y
    <3> QED  BY <2>12
  <2> HIDE DEF pre, x, y
  <2>14. Same(1)  BY <2>5, <2>10, <2>11, <2>13 DEF x
  <2> HIDE DEF Same
  <2> QED  BY <2>1, <2>14
<1>10. ASSUME NEW j \in Nat, j \in T PROVE j + 1 \in T
  <2> DEFINE k == j + 1
  <2> SUFFICES ASSUME k + 1 <= n PROVE Same(k + 1)
    <3> HIDE DEF Same
    <3> QED  OBVIOUS
  <2>1. k \in Nat /\ k <= n /\ k < n /\ k + c < n + c /\ k + c \in Nat /\ k \in 0..n /\ k + 1 \in 1..n
        /\ (k + c) + 1 = (k + 1) + c
    BY <1>1
  <2>2. Same(k)
    <3> HIDE DEF Same
    <3> QED  BY <1>10, <2>1
  <2> HIDE DEF k
  <2>3. f[1..((k + 1) + c)] = ReadChat(raw, f[1..(k + c)], (k + 1) + c)
    <3>1. f[1..((k + c) + 1)] = ReadChat(raw, f[1..(k + c)], (k + c) + 1)  BY <1>3, <2>1
    <3> QED  BY <2>1, <3>1
  <2>4. g[1..(k + 1)] = ReadChat(rest, g[1..k], k + 1) /\ g[1..k] \in ChatReading
    BY <1>2, <1>4, <2>1
  <2>5. f[1..((k + 1) + c)] = Shift(pre, c, g[1..(k + 1)])
    <3>1. f[1..(k + c)] = Shift(pre, c, g[1..k])  BY <2>2
    <3> HIDE DEF pre
    <3>2. ReadChat(raw, Shift(pre, c, g[1..k]), (k + 1) + c) = Shift(pre, c, ReadChat(rest, g[1..k], k + 1))
      BY <1>8, <2>1, <2>4, ReadMoves DEF n
    <3> QED  BY <2>3, <2>4, <3>1, <3>2
  <2> DEFINE acc == g[1..k]
             new == g[1..(k + 1)]
             u == UserMessage(k + 1)
  <2>6. acc \in ChatReading /\ acc.done # <<>> /\ acc.done[1].role = "user"  BY <2>2, <2>4
  <2>7. new.done = acc.done \/ new.done = Append(ClosedUp(acc), u)
    <3>1. new = ReadChat(rest, acc, k + 1)  BY <2>4
    <3>2. rest[k + 1].type \in {"human", "ai", "tool", "system"} /\ k + 1 \in 1..Len(rest)
      BY <1>1, <2>1 DEF Message, n
    <3> HIDE DEF new, acc
    <3> DEFINE r == rest[k + 1]
               a == ReadChat(rest, acc, k + 1)
    <3>3. /\ r.type = "human" => a = [done |-> Append(ClosedUp(acc), u), open |-> Closed]
          /\ r.type = "ai" =>
               a = [done |-> acc.done,
                    open |-> [role |-> "assistant", parts |-> acc.open.parts \o AiParts(r, k + 1),
                              usage |-> IF r.usage THEN k + 1 ELSE OpenUsage(acc)]]
          /\ r.type = "tool" =>
               a = [done |-> acc.done,
                    open |-> [role |-> "assistant", parts |-> Append(acc.open.parts, Part("tool-result", k + 1)),
                              usage |-> OpenUsage(acc)]]
          /\ r.type = "system" => a = acc
      BY <1>1, <2>6, <3>2, ChatStep DEF ClosedUp
    <3>4. r.type \in {"human", "ai", "tool", "system"}  BY <3>2
    <3> HIDE DEF r, a, u
    <3>5. r.type = "human" => a.done = Append(ClosedUp(acc), u)  BY <3>3
    <3>6. ASSUME r.type # "human" PROVE a.done = acc.done
      <4>1. r.type = "ai" => a.done = acc.done  BY <3>3
      <4>2. r.type = "tool" => a.done = acc.done  BY <3>3
      <4>3. r.type = "system" => a.done = acc.done  BY <3>3
      <4> QED  BY <3>4, <3>6, <4>1, <4>2, <4>3
    <3> QED  BY <3>1, <3>5, <3>6 DEF a
  <2>8. u \in ChatMessage  BY <2>1 DEF UserMessage, ChatMessage, Part, PartType
  <2> HIDE DEF acc, new, u, pre
  <2>9. ClosedUp(acc) \in Seq(ChatMessage) /\ ClosedUp(acc) # <<>> /\ ClosedUp(acc)[1] = acc.done[1]
    BY <1>8, <2>6, ShiftIs
  <2>10. Append(ClosedUp(acc), u) # <<>> /\ Append(ClosedUp(acc), u)[1] = ClosedUp(acc)[1]
    BY <2>8, <2>9
  <2>11. new.done # <<>> /\ new.done[1].role = "user"  BY <2>6, <2>7, <2>9, <2>10
  <2> QED  BY <2>5, <2>11 DEF new
<1>11. Nat \subseteq T
  <2> HIDE DEF T
  <2> QED  BY <1>9, <1>10, Induct
<1>12. Same(n)
  <2>1. n - 1 \in Nat /\ (n - 1) + 1 = n /\ n <= n  BY <1>1
  <2> HIDE DEF Same
  <2>2. n - 1 \in T  BY <1>11, <2>1
  <2> QED  BY <2>1, <2>2
<1>13. g[1..n] \in ChatReading  BY <1>1, <1>4
<1> DEFINE last == g[1..n]
<1>14. f[1..(n + c)] = Shift(pre, c, last) /\ last.done # <<>> /\ last.done[1].role = "user"
       /\ last \in ChatReading
  BY <1>12, <1>13
<1> HIDE DEF last, pre
<1>15. /\ ClosedUp(last) \in Seq(ChatMessage)
       /\ ClosedUp(Shift(pre, c, last)) = pre \o ChatsBack(ClosedUp(last), c)
       /\ ClosedUp(last) # <<>> /\ ClosedUp(last)[1] = last.done[1]
  BY <1>8, <1>14, ShiftIs
<1>16. ChatsBack(ClosedUp(last), c) \in Seq(ChatMessage)  BY <1>15, ChatMoves
<1>17. IsSuffix(ChatsBack(ClosedUp(last), c), pre \o ChatsBack(ClosedUp(last), c))
  BY <1>8, <1>16, SuffixIs
<1> QED  BY <1>6, <1>7, <1>14, <1>15, <1>17 DEF last

-----------------------------------------------------------------------------
ShiftTurns(pre, c, acc) == [turns |-> pre \o TurnsBack(acc.turns, c), pending |-> Later(acc.pending, c)]

LEMMA PositionsMove ==
    ASSUME NEW c \in Nat, NEW p \in Seq(Nat)
    PROVE  /\ Later(p, c) \in Seq(Nat) /\ (Later(p, c) = <<>> <=> p = <<>>)
           /\ \A x \in Nat : Later(Append(p, x), c) = Append(Later(p, c), x + c)
<1>1. Later(p, c) \in Seq(Nat) /\ Len(Later(p, c)) = Len(p)
  <2>1. Len(p) \in Nat /\ DOMAIN p = 1..Len(p) /\ \A i \in DOMAIN p : p[i] \in Nat  OBVIOUS
  <2>2. \A i \in DOMAIN p : p[i] + c \in Nat  BY <2>1
  <2>3. Later(p, c) \in [1..Len(p) -> Nat]  BY <2>1, <2>2 DEF Later
  <2> QED  BY <2>1, <2>3, IsSeq
<1>2. ASSUME NEW x \in Nat PROVE Later(Append(p, x), c) = Append(Later(p, c), x + c)
  BY DEF Later
<1>3. Later(p, c) = <<>> <=> p = <<>>
  <2> DEFINE q == Later(p, c)
  <2>1. q \in Seq(Nat) /\ Len(q) = Len(p)  BY <1>1
  <2> HIDE DEF q
  <2>2. q = <<>> <=> p = <<>>  BY <2>1
  <2> QED  BY <2>2 DEF q
<1> QED  BY <1>1, <1>2, <1>3

LEMMA TurnsMove ==
    ASSUME NEW c \in Nat, NEW turns \in Seq(SchemaTurn)
    PROVE  /\ TurnsBack(turns, c) \in Seq(SchemaTurn) /\ TurnsBack(<<>>, c) = <<>>
           /\ \A t \in SchemaTurn : /\ SchemaBack(t, c) \in SchemaTurn
                                    /\ TurnsBack(Append(turns, t), c) = Append(TurnsBack(turns, c), SchemaBack(t, c))
<1> DEFINE Moved(x) == SchemaBack(x, c)
           A(q) == [k \in DOMAIN q |-> Moved(q[k])]
<1>1. \A q : TurnsBack(q, c) = A(q)  BY DEF TurnsBack
<1>2. \A x \in SchemaTurn : Moved(x) \in SchemaTurn
  <2> TAKE x \in SchemaTurn
  <2>1. x[1] \in {"user", "assistant"} /\ x[2] \in Seq(Nat)  BY DEF SchemaTurn
  <2>2. Later(x[2], c) \in Seq(Nat)  BY <2>1, PositionsMove
  <2> QED  BY <2>1, <2>2 DEF SchemaBack, SchemaTurn
<1> HIDE DEF Moved
<1>3. TurnsBack(turns, c) \in Seq(SchemaTurn) /\ TurnsBack(<<>>, c) = <<>>
  BY <1>1, <1>2
<1>4. ASSUME NEW t \in SchemaTurn
      PROVE  TurnsBack(Append(turns, t), c) = Append(TurnsBack(turns, c), Moved(t))
  <2>1. A(Append(turns, t)) = Append(A(turns), Moved(t))  OBVIOUS
  <2> QED  BY <1>1, <2>1
<1> QED  BY <1>2, <1>3, <1>4 DEF Moved

LEMMA TurnShiftIs ==
    ASSUME NEW c \in Nat, NEW pre \in Seq(SchemaTurn), NEW acc \in SchemaReading
    PROVE  /\ ShiftTurns(pre, c, acc) \in SchemaReading
           /\ Flushed(acc) \in Seq(SchemaTurn)
           /\ Flushed(ShiftTurns(pre, c, acc)) = pre \o TurnsBack(Flushed(acc), c)
           /\ acc.turns # <<>> => Flushed(acc) # <<>> /\ Flushed(acc)[1] = acc.turns[1]
<1> DEFINE new == ShiftTurns(pre, c, acc)
           turns == acc.turns
           pending == acc.pending
<1>1. turns \in Seq(SchemaTurn) /\ pending \in Seq(Nat)  BY DEF SchemaReading
<1>2. TurnsBack(turns, c) \in Seq(SchemaTurn) /\ Later(pending, c) \in Seq(Nat)
      /\ (Later(pending, c) = <<>> <=> pending = <<>>)
  BY <1>1, TurnsMove, PositionsMove
<1>3. pre \o TurnsBack(turns, c) \in Seq(SchemaTurn)  BY <1>2
<1>4. new.turns = pre \o TurnsBack(turns, c) /\ new.pending = Later(pending, c)
      /\ new = [turns |-> pre \o TurnsBack(turns, c), pending |-> Later(pending, c)]
  BY DEF ShiftTurns
<1> HIDE DEF new, turns, pending
<1>5. new \in SchemaReading  BY <1>2, <1>3, <1>4 DEF SchemaReading
<1>6. CASE pending = <<>>
  <2>1. Flushed(acc) = turns \o <<>> /\ Flushed(new) = new.turns \o <<>>
    BY <1>2, <1>4, <1>6 DEF Flushed, If, turns, pending
  <2>2. Flushed(acc) = turns /\ Flushed(new) = new.turns
    <3>1. \A z \in Seq(SchemaTurn) : z \o <<>> = z  OBVIOUS
    <3>2. turns \in Seq(SchemaTurn) /\ new.turns \in Seq(SchemaTurn)  BY <1>1, <1>3, <1>4
    <3> QED  BY <2>1, <3>1, <3>2
  <2> QED  BY <1>1, <1>4, <1>5, <2>2 DEF new, turns
<1>7. CASE pending # <<>>
  <2> DEFINE t == <<"assistant", pending>>
             o == <<"assistant", Later(pending, c)>>
  <2>1. t \in SchemaTurn /\ SchemaBack(t, c) = o /\ o \in SchemaTurn
    BY <1>1, <1>2 DEF SchemaTurn, SchemaBack
  <2>2. Flushed(acc) = turns \o <<t>> /\ Flushed(new) = new.turns \o <<o>>
    BY <1>2, <1>4, <1>7 DEF Flushed, If, turns, pending
  <2> HIDE DEF t, o
  <2>3. turns \o <<t>> = Append(turns, t) /\ Append(turns, t) \in Seq(SchemaTurn)
        /\ (turns # <<>> => Append(turns, t) # <<>> /\ Append(turns, t)[1] = turns[1])
    BY <1>1, <2>1
  <2>4. TurnsBack(Append(turns, t), c) = Append(TurnsBack(turns, c), o)  BY <1>1, <2>1, TurnsMove
  <2>5. (pre \o TurnsBack(turns, c)) \o <<o>> = pre \o Append(TurnsBack(turns, c), o)
    <3> DEFINE q == TurnsBack(turns, c)
    <3>1. q \in Seq(SchemaTurn)  BY <1>2
    <3> HIDE DEF q
    <3>2. \A x \in SchemaTurn : (pre \o q) \o <<x>> = pre \o Append(q, x)  BY <3>1
    <3>3. (pre \o q) \o <<o>> = pre \o Append(q, o)  BY <2>1, <3>2
    <3> QED  BY <3>3 DEF q
  <2> QED  BY <1>4, <1>5, <2>2, <2>3, <2>4, <2>5 DEF new, turns
<1> QED  BY <1>6, <1>7

(* _format_schema_history takes the same step in both. *)
LEMMA TurnReadMoves ==
    ASSUME NEW c \in Nat, NEW raw \in Seq(Message), NEW rest, Rest(raw, c, rest),
           NEW pre \in Seq(SchemaTurn), NEW acc \in SchemaReading, NEW k \in 1..Len(rest)
    PROVE  ReadSchema(raw, ShiftTurns(pre, c, acc), k + c) = ShiftTurns(pre, c, ReadSchema(rest, acc, k))
<1> DEFINE i == k + c
           m == raw[i]
           far == ShiftTurns(pre, c, acc)
           a == ReadSchema(rest, acc, k)
           b == ReadSchema(raw, far, i)
<1>1. rest \in Seq(Message) /\ rest[k] = raw[i] /\ i \in 1..Len(raw) /\ k \in Nat /\ i = k + c
  BY DEF Rest
<1>2. acc.turns \in Seq(SchemaTurn) /\ acc.pending \in Seq(Nat)  BY DEF SchemaReading
<1>3. /\ far \in SchemaReading
      /\ far.turns = pre \o TurnsBack(acc.turns, c) /\ far.pending = Later(acc.pending, c)
      /\ Flushed(acc) \in Seq(SchemaTurn)
      /\ Flushed(far) = pre \o TurnsBack(Flushed(acc), c)
  <2>1. far.turns = pre \o TurnsBack(acc.turns, c) /\ far.pending = Later(acc.pending, c)
    BY DEF ShiftTurns
  <2> HIDE DEF far
  <2>2. far = ShiftTurns(pre, c, acc)  BY DEF far
  <2> QED  BY <2>1, <2>2, TurnShiftIs
<1> HIDE DEF i, far, a, b
<1>4. /\ raw[i].type = "human" =>
           a = [turns |-> Append(Flushed(acc), <<"user", <<k>>>>), pending |-> <<>>]
      /\ raw[i].type = "ai" /\ raw[i].text => a = [turns |-> acc.turns, pending |-> Append(acc.pending, k)]
      /\ raw[i].type # "human" /\ ~(raw[i].type = "ai" /\ raw[i].text) => a = acc
  <2> DEFINE r == rest[k]
  <2>1. /\ r.type = "human" => a = [turns |-> Append(Flushed(acc), <<"user", <<k>>>>), pending |-> <<>>]
        /\ r.type = "ai" /\ r.text => a = [turns |-> acc.turns, pending |-> Append(acc.pending, k)]
        /\ r.type # "human" /\ ~(r.type = "ai" /\ r.text) => a = acc
    <3>1. \A j \in 1..Len(rest) :
            LET s == rest[j]  new == ReadSchema(rest, acc, j) IN
            /\ s.type = "human" => new = [turns |-> Append(Flushed(acc), <<"user", <<j>>>>), pending |-> <<>>]
            /\ s.type = "ai" /\ s.text => new = [turns |-> acc.turns, pending |-> Append(acc.pending, j)]
            /\ s.type # "human" /\ ~(s.type = "ai" /\ s.text) => new = acc
      BY <1>1, SchemaStep DEF Flushed
    <3> QED  BY <3>1 DEF a
  <2>2. r = m  BY <1>1
  <2> HIDE DEF r, m
  <2>3. /\ m.type = "human" => a = [turns |-> Append(Flushed(acc), <<"user", <<k>>>>), pending |-> <<>>]
        /\ m.type = "ai" /\ m.text => a = [turns |-> acc.turns, pending |-> Append(acc.pending, k)]
        /\ m.type # "human" /\ ~(m.type = "ai" /\ m.text) => a = acc
    BY <2>1, <2>2
  <2> QED  BY <2>3 DEF m
<1>5. /\ raw[i].type = "human" =>
           b = [turns |-> Append(Flushed(far), <<"user", <<i>>>>), pending |-> <<>>]
      /\ raw[i].type = "ai" /\ raw[i].text => b = [turns |-> far.turns, pending |-> Append(far.pending, i)]
      /\ raw[i].type # "human" /\ ~(raw[i].type = "ai" /\ raw[i].text) => b = far
  <2>1. \A j \in 1..Len(raw) :
          LET s == raw[j]  new == ReadSchema(raw, far, j) IN
          /\ s.type = "human" => new = [turns |-> Append(Flushed(far), <<"user", <<j>>>>), pending |-> <<>>]
          /\ s.type = "ai" /\ s.text => new = [turns |-> far.turns, pending |-> Append(far.pending, j)]
          /\ s.type # "human" /\ ~(s.type = "ai" /\ s.text) => new = far
    BY <1>3, SchemaStep DEF Flushed
  <2> QED  BY <1>1, <2>1 DEF b
<1> SUFFICES b = ShiftTurns(pre, c, a)
  BY DEF a, b, i, far
<1>6. ShiftTurns(pre, c, a) = [turns |-> pre \o TurnsBack(a.turns, c), pending |-> Later(a.pending, c)]
  BY DEF ShiftTurns
<1> HIDE DEF m
<1>7. CASE raw[i].type = "human"
  <2> DEFINE t == <<"user", <<k>>>>
             o == <<"user", <<i>>>>
  <2>1. t \in SchemaTurn /\ SchemaBack(t, c) = o
    <3>1. <<k>> \in Seq(Nat)  BY <1>1
    <3>2. Later(<<k>>, c) = <<i>>  BY <1>1 DEF Later
    <3> QED  BY <3>1, <3>2 DEF SchemaTurn, SchemaBack
  <2>2. a.turns = Append(Flushed(acc), t) /\ a.pending = <<>>  BY <1>4, <1>7
  <2>3. b = [turns |-> Append(Flushed(far), o), pending |-> <<>>]  BY <1>5, <1>7
  <2> HIDE DEF t, o
  <2>4. TurnsBack(a.turns, c) = Append(TurnsBack(Flushed(acc), c), o) /\ o \in SchemaTurn
    BY <1>3, <2>1, <2>2, TurnsMove
  <2> DEFINE q == TurnsBack(Flushed(acc), c)
  <2>5. q \in Seq(SchemaTurn)  BY <1>3, TurnsMove
  <2> HIDE DEF q
  <2>6. pre \o Append(q, o) = Append(pre \o q, o)  BY <2>4, <2>5
  <2>7. Later(<<>>, c) = <<>>  BY DEF Later
  <2> QED  BY <1>3, <1>6, <2>2, <2>3, <2>4, <2>6, <2>7 DEF q
<1>8. CASE raw[i].type = "ai" /\ raw[i].text
  <2>1. a.turns = acc.turns /\ a.pending = Append(acc.pending, k)  BY <1>4, <1>8
  <2>2. b = [turns |-> far.turns, pending |-> Append(far.pending, i)]  BY <1>5, <1>8
  <2>3. Later(Append(acc.pending, k), c) = Append(Later(acc.pending, c), i)
    BY <1>1, <1>2, PositionsMove
  <2> QED  BY <1>3, <1>6, <2>1, <2>2, <2>3
<1>9. CASE raw[i].type # "human" /\ ~(raw[i].type = "ai" /\ raw[i].text)
  <2>1. a = acc /\ b = far  BY <1>4, <1>5, <1>9
  <2> QED  BY <2>1 DEF far
<1> QED  BY <1>7, <1>8, <1>9

(* The same of the page of a schema project. *)
LEMMA TurnsOfRest ==
    ASSUME NEW c \in Nat, NEW raw \in Seq(Message), NEW rest, Rest(raw, c, rest),
           rest # <<>>, rest[1].type = "human"
    PROVE  LET schema == FormatSchemaHistory(rest) IN
           /\ IsSuffix(TurnsBack(schema, c), FormatSchemaHistory(raw))
           /\ schema # <<>> /\ schema[1][1] = "user"
<1> DEFINE n == Len(rest)
           f == SchemaRun(raw)
           g == SchemaRun(rest)
           pre == Flushed(f[1..c])
           Same(k) == /\ f[1..(k + c)] = ShiftTurns(pre, c, g[1..k])
                      /\ g[1..k].turns # <<>> /\ g[1..k].turns[1][1] = "user"
           T == {k \in Nat : k + 1 <= n => Same(k + 1)}
<1>1. rest \in Seq(Message) /\ n \in Nat /\ n # 0 /\ Len(raw) = n + c /\ 1 \in 1..n /\ c \in 0..(n + c)
      /\ rest[1] = raw[1 + c]
  BY DEF Rest
<1>2. /\ g[{}] = NoTurns /\ NoTurns \in SchemaReading
      /\ \A k \in Nat : k < n => g[1..(k + 1)] = ReadSchema(rest, g[1..k], k + 1)
  BY <1>1, SchemaRuns
<1>3. \A k \in Nat : k < n + c => f[1..(k + 1)] = ReadSchema(raw, f[1..k], k + 1)
  BY <1>1, SchemaRuns
<1>4. \A k \in 0..n : g[1..k] \in SchemaReading  BY <1>1, SchemaReads DEF SchemaRead
<1>5. \A k \in 0..(n + c) : f[1..k] \in SchemaReading  BY <1>1, SchemaReads DEF SchemaRead
<1>6. FormatSchemaHistory(raw) = Flushed(f[1..(n + c)])  BY <1>1, TurnsAreExact
<1>7. FormatSchemaHistory(rest) = Flushed(g[1..n])  BY <1>1, TurnsAreExact
<1> HIDE DEF n, f, g
<1>8. pre \in Seq(SchemaTurn)
  <2>1. f[1..c] \in SchemaReading  BY <1>1, <1>5
  <2>2. <<>> \in Seq(SchemaTurn)  OBVIOUS
  <2> QED  BY <2>1, <2>2, TurnShiftIs
<1>9. 0 \in T
  <2> DEFINE x == <<"user", <<1 + c>>>>
             y == <<"user", <<1>>>>
  <2>1. 1..0 = {} /\ 0 \in Nat /\ 0 < n /\ 0 + 1 = 1 /\ c < n + c /\ c + 1 = 1 + c /\ 1 + c \in 1..Len(raw)
    BY <1>1
  <2>2. g[1..0] = NoTurns  BY <1>2, <2>1
  <2>3. g[1..1] = ReadSchema(rest, NoTurns, 1)
    <3>1. g[1..(0 + 1)] = ReadSchema(rest, g[1..0], 0 + 1)  BY <1>2, <2>1
    <3> QED  BY <2>1, <2>2, <3>1
  <2>4. f[1..(1 + c)] = ReadSchema(raw, f[1..c], 1 + c)
    <3>1. f[1..(c + 1)] = ReadSchema(raw, f[1..c], c + 1)  BY <1>3, <2>1
    <3> QED  BY <2>1, <3>1
  <2>5. f[1..(1 + c)] = [turns |-> Append(pre, x), pending |-> <<>>]
    <3>1. f[1..c] \in SchemaReading /\ raw[1 + c].type = "human"  BY <1>1, <1>5
    <3>2. ReadSchema(raw, f[1..c], 1 + c) = [turns |-> Append(Flushed(f[1..c]), x), pending |-> <<>>]
      BY <2>1, <3>1, SchemaStep DEF Flushed
    <3> QED  BY <2>4, <3>2
  <2>6. g[1..1] = [turns |-> <<y>>, pending |-> <<>>]
    <3>1. ReadSchema(rest, NoTurns, 1) = [turns |-> Append(Flushed(NoTurns), y), pending |-> <<>>]
      BY <1>1, <1>2, SchemaStep DEF Flushed, n
    <3>2. Flushed(NoTurns) = <<>> \o <<>>  BY DEF Flushed, NoTurns, If
    <3>3. <<>> \o <<>> = <<>> /\ Append(<<>>, y) = <<y>>  OBVIOUS
    <3> QED  BY <2>3, <3>1, <3>2, <3>3
  <2>7. SchemaBack(y, c) = x
    <3>1. Later(<<1>>, c) = <<1 + c>>  BY DEF Later
    <3> QED  BY <3>1 DEF SchemaBack
  <2>8. x \in SchemaTurn /\ y[1] = "user"
    <3>1. <<1 + c>> \in Seq(Nat)  OBVIOUS
    <3> QED  BY <3>1 DEF SchemaTurn
  <2> HIDE DEF x, y
  <2>9. TurnsBack(<<y>>, c) = <<x>>  BY <2>7 DEF TurnsBack
  <2>10. ShiftTurns(pre, c, g[1..1]) = [turns |-> pre \o <<x>>, pending |-> <<>>]
    <3> DEFINE last == g[1..1]
    <3>1. last.turns = <<y>> /\ last.pending = <<>>  BY <2>6
    <3>2. Later(<<>>, c) = <<>>  BY DEF Later
    <3> HIDE DEF last, pre
    <3>3. ShiftTurns(pre, c, last) = [turns |-> pre \o <<x>>, pending |-> <<>>]
      BY <2>9, <3>1, <3>2 DEF ShiftTurns
    <3> QED  BY <3>3 DEF last
  <2>11. pre \o <<x>> = Append(pre, x)
    <3> HIDE DEF pre
    <3> QED  BY <1>8, <2>8
  <2>12. g[1..1].turns = <<y>>  BY <2>6
  <2>13. g[1..1].turns # <<>> /\ g[1..1].turns[1][1] = "user"  BY <2>8, <2>12
  <2> HIDE DEF pre
  <2>14. Same(1)  BY <2>5, <2>10, <2>11, <2>13
  <2> HIDE DEF Same
  <2> QED  BY <2>1, <2>14
<1>10. ASSUME NEW j \in Nat, j \in T PROVE j + 1 \in T
  <2> DEFINE k == j + 1
  <2> SUFFICES ASSUME k + 1 <= n PROVE Same(k + 1)
    <3> HIDE DEF Same
    <3> QED  OBVIOUS
  <2>1. k \in Nat /\ k <= n /\ k < n /\ k + c < n + c /\ k + c \in Nat /\ k \in 0..n /\ k + 1 \in 1..n
        /\ (k + c) + 1 = (k + 1) + c
    BY <1>1
  <2>2. Same(k)
    <3> HIDE DEF Same
    <3> QED  BY <1>10, <2>1
  <2> HIDE DEF k
  <2>3. f[1..((k + 1) + c)] = ReadSchema(raw, f[1..(k + c)], (k + 1) + c)
    <3>1. f[1..((k + c) + 1)] = ReadSchema(raw, f[1..(k + c)], (k + c) + 1)  BY <1>3, <2>1
    <3> QED  BY <2>1, <3>1
  <2>4. g[1..(k + 1)] = ReadSchema(rest, g[1..k], k + 1) /\ g[1..k] \in SchemaReading
    BY <1>2, <1>4, <2>1
  <2>5. f[1..((k + 1) + c)] = ShiftTurns(pre, c, g[1..(k + 1)])
    <3>1. f[1..(k + c)] = ShiftTurns(pre, c, g[1..k])  BY <2>2
    <3> HIDE DEF pre
    <3>2. ReadSchema(raw, ShiftTurns(pre, c, g[1..k]), (k + 1) + c)
            = ShiftTurns(pre, c, ReadSchema(rest, g[1..k], k + 1))
      BY <1>8, <2>1, <2>4, TurnReadMoves DEF n
    <3> QED  BY <2>3, <2>4, <3>1, <3>2
  <2> DEFINE acc == g[1..k]
             new == g[1..(k + 1)]
             u == <<"user", <<k + 1>>>>
  <2>6. acc \in SchemaReading /\ acc.turns # <<>> /\ acc.turns[1][1] = "user"  BY <2>2, <2>4
  <2>7. new.turns = acc.turns \/ new.turns = Append(Flushed(acc), u)
    <3>1. new = ReadSchema(rest, acc, k + 1)  BY <2>4
    <3>2. k + 1 \in 1..Len(rest)  BY <1>1, <2>1 DEF n
    <3> HIDE DEF new, acc
    <3> DEFINE r == rest[k + 1]
               a == ReadSchema(rest, acc, k + 1)
    <3>3. /\ r.type = "human" => a = [turns |-> Append(Flushed(acc), u), pending |-> <<>>]
          /\ r.type = "ai" /\ r.text => a = [turns |-> acc.turns, pending |-> Append(acc.pending, k + 1)]
          /\ r.type # "human" /\ ~(r.type = "ai" /\ r.text) => a = acc
      BY <1>1, <2>6, <3>2, SchemaStep DEF Flushed
    <3> HIDE DEF r, a, u
    <3>4. r.type = "human" => a.turns = Append(Flushed(acc), u)  BY <3>3
    <3>5. r.type = "ai" /\ r.text => a.turns = acc.turns  BY <3>3
    <3>6. r.type # "human" /\ ~(r.type = "ai" /\ r.text) => a.turns = acc.turns  BY <3>3
    <3> QED  BY <3>1, <3>4, <3>5, <3>6 DEF a
  <2>8. u \in SchemaTurn
    <3>1. <<k + 1>> \in Seq(Nat)  BY <2>1
    <3> QED  BY <3>1 DEF SchemaTurn
  <2> HIDE DEF acc, new, u, pre
  <2>9. Flushed(acc) \in Seq(SchemaTurn) /\ Flushed(acc) # <<>> /\ Flushed(acc)[1] = acc.turns[1]
    BY <1>8, <2>6, TurnShiftIs
  <2>10. Append(Flushed(acc), u) # <<>> /\ Append(Flushed(acc), u)[1] = Flushed(acc)[1]
    BY <2>8, <2>9
  <2>11. new.turns # <<>> /\ new.turns[1][1] = "user"  BY <2>6, <2>7, <2>9, <2>10
  <2> QED  BY <2>5, <2>11 DEF new
<1>11. Nat \subseteq T
  <2> HIDE DEF T
  <2> QED  BY <1>9, <1>10, Induct
<1>12. Same(n)
  <2>1. n - 1 \in Nat /\ (n - 1) + 1 = n /\ n <= n  BY <1>1
  <2> HIDE DEF Same
  <2>2. n - 1 \in T  BY <1>11, <2>1
  <2> QED  BY <2>1, <2>2
<1>13. g[1..n] \in SchemaReading  BY <1>1, <1>4
<1> DEFINE last == g[1..n]
<1>14. f[1..(n + c)] = ShiftTurns(pre, c, last) /\ last.turns # <<>> /\ last.turns[1][1] = "user"
       /\ last \in SchemaReading
  BY <1>12, <1>13
<1> HIDE DEF last, pre
<1>15. /\ Flushed(last) \in Seq(SchemaTurn)
       /\ Flushed(ShiftTurns(pre, c, last)) = pre \o TurnsBack(Flushed(last), c)
       /\ Flushed(last) # <<>> /\ Flushed(last)[1] = last.turns[1]
  BY <1>8, <1>14, TurnShiftIs
<1>16. TurnsBack(Flushed(last), c) \in Seq(SchemaTurn)  BY <1>15, TurnsMove
<1>17. IsSuffix(TurnsBack(Flushed(last), c), pre \o TurnsBack(Flushed(last), c))
  BY <1>8, <1>16, SuffixIs
<1> QED  BY <1>6, <1>7, <1>14, <1>15, <1>17 DEF last

-----------------------------------------------------------------------------
LEMMA NothingCut ==
    ASSUME NEW chat \in Seq(ChatMessage), NEW schema \in Seq(SchemaTurn)
    PROVE  /\ ChatsBack(chat, 0) = chat /\ TurnsBack(schema, 0) = schema
           /\ IsSuffix(chat, chat) /\ IsSuffix(schema, schema)
<1>1. \A x \in PartType : Part(x.kind, x.from + 0) = x  BY DEF Part, PartType
<1>2. \A p \in Seq(PartType) : PartsBack(p, 0) = p  BY <1>1 DEF PartsBack
<1>3. \A m \in ChatMessage : ChatBack(m, 0) = m
  <2> TAKE m \in ChatMessage
  <2>1. m.parts \in Seq(PartType) /\ m.usage \in Nat  BY DEF ChatMessage
  <2>2. PartsBack(m.parts, 0) = m.parts /\ Back(m.usage, 0) = m.usage  BY <1>2, <2>1 DEF Back
  <2> QED  BY <2>2 DEF ChatBack, ChatMessage
<1>4. ChatsBack(chat, 0) = chat  BY <1>3 DEF ChatsBack
<1>5. \A p \in Seq(Nat) : Later(p, 0) = p  BY DEF Later
<1>6. \A t \in SchemaTurn : SchemaBack(t, 0) = t  BY <1>5 DEF SchemaBack, SchemaTurn
<1>7. TurnsBack(schema, 0) = schema  BY <1>6 DEF TurnsBack
<1>8. <<>> \in Seq(ChatMessage) /\ <<>> \o chat = chat /\ <<>> \in Seq(SchemaTurn) /\ <<>> \o schema = schema
  OBVIOUS
<1>9. IsSuffix(chat, <<>> \o chat)  BY <1>8, SuffixIs
<1>10. IsSuffix(schema, <<>> \o schema)  BY <1>8, SuffixIs
<1> QED  BY <1>4, <1>7, <1>8, <1>9, <1>10

(* _safe_cut_index cuts in front of a human message, or not at all. *)
LEMMA CutIs ==
    ASSUME NEW raw \in Seq(Message), NEW keep \in Nat
    PROVE  LET cut == CutIndex(raw, keep)
               rest == SubSeq(raw, cut + 1, Len(raw))
           IN /\ cut \in 0..Len(raw) /\ Rest(raw, cut, rest)
              /\ cut > 0 => rest # <<>> /\ rest[1].type = "human"
              /\ cut = 0 => rest = raw
<1> DEFINE n == Len(raw)
           target == IF n > keep THEN n - keep ELSE 0
           human == {i \in DOMAIN raw : i > target /\ raw[i].type = "human"}
           cut == CutIndex(raw, keep)
           rest == SubSeq(raw, cut + 1, n)
<1>1. n \in Nat /\ DOMAIN raw = 1..n  OBVIOUS
<1>2. cut = IF human = {} THEN 0 ELSE Min(human) - 1  BY DEF CutIndex
<1>3. human # {} => Min(human) \in human
  <2>1. human \in SUBSET Nat  BY <1>1
  <2> HIDE DEF human
  <2> QED  BY <2>1, MinIn
<1>4. cut \in 0..n /\ (cut > 0 => cut + 1 \in 1..n /\ raw[cut + 1].type = "human")
  <2>1. CASE human = {}  BY <1>1, <1>2, <2>1
  <2>2. CASE human # {}
    <3> DEFINE i == Min(human)
    <3>1. i \in 1..n /\ raw[i].type = "human"  BY <1>1, <1>3, <2>2
    <3>2. cut = i - 1  BY <1>2, <2>2
    <3> HIDE DEF i, cut, n
    <3> QED  BY <1>1, <3>1, <3>2
  <2> QED  BY <2>1, <2>2
<1> HIDE DEF cut, n
<1>5. rest \in Seq(Message) /\ Len(rest) = n - cut /\ \A k \in 1..(n - cut) : rest[k] = raw[k + cut]
  <2>1. \A k \in 1..(n - cut) : k + cut \in 1..n /\ (cut + 1) + k - 1 = k + cut  BY <1>1, <1>4
  <2>2. cut \in Nat /\ n \in Nat /\ cut + 1 \in Nat /\ n - cut \in Nat  BY <1>1, <1>4
  <2>3. Len(rest) = n - cut
    <3>1. Len(rest) = IF cut + 1 <= n THEN n - (cut + 1) + 1 ELSE 0  BY <2>2
    <3> QED  BY <1>1, <1>4, <3>1
  <2>4. \A k \in 1..(n - cut) : rest[k] = raw[k + cut]
    <3> TAKE k \in 1..(n - cut)
    <3>1. rest[k] = raw[(cut + 1) + k - 1]  BY <2>2, <2>3
    <3> QED  BY <2>1, <3>1
  <2>5. \A k \in 1..(n - cut) : rest[k] \in Message
    <3>1. \A i \in 1..n : raw[i] \in Message  BY DEF n
    <3> QED  BY <2>1, <2>4, <3>1
  <2>6. rest \in Seq(Message)
    <3>1. DOMAIN rest = 1..(n - cut) /\ rest = [k \in 1..(n - cut) |-> rest[k]]  BY <2>2, <2>3
    <3> HIDE DEF rest
    <3>2. rest \in [1..(n - cut) -> Message]  BY <2>5, <3>1
    <3> QED  BY <2>2, <3>2, IsSeq
  <2> QED  BY <2>3, <2>4, <2>6
<1> HIDE DEF rest
<1>6. Rest(raw, cut, rest)
  <2>1. n = (n - cut) + cut  BY <1>1, <1>4
  <2> QED  BY <1>5, <2>1 DEF Rest, n
<1>7. cut > 0 => rest # <<>> /\ rest[1].type = "human"
  <2> SUFFICES ASSUME cut > 0 PROVE rest # <<>> /\ rest[1].type = "human"
    OBVIOUS
  <2>1. 1 \in 1..(n - cut) /\ n - cut # 0 /\ 1 + cut = cut + 1  BY <1>1, <1>4
  <2> QED  BY <1>4, <1>5, <2>1
<1>8. cut = 0 => rest = raw
  <2> SUFFICES ASSUME cut = 0 PROVE rest = raw
    OBVIOUS
  <2>1. n - cut = n /\ \A k \in 1..n : k + cut = k  BY <1>1
  <2>2. Len(rest) = n /\ \A k \in 1..n : rest[k] = raw[k]  BY <1>5, <2>1
  <2> QED  BY <1>1, <1>5, <2>2 DEF n
<1> QED  BY <1>4, <1>6, <1>7, <1>8 DEF cut, rest, n

LEMMA CutsAreWhole ==
    ASSUME history \in Seq(Message), KeepRecent \in Nat
    PROVE  CompactionCutsTurns
<1> DEFINE cut == CutIndex(history, KeepRecent)
           rest == SummarizeConversation(history)
           chat == FormatChatHistory(rest)
           schema == FormatSchemaHistory(rest)
<1>1. /\ cut \in 0..Len(history) /\ Rest(history, cut, rest)
      /\ cut > 0 => rest # <<>> /\ rest[1].type = "human"
      /\ cut = 0 => rest = history
  BY CutIs DEF SummarizeConversation
<1> HIDE DEF cut, rest
<1>2. cut \in Nat  BY <1>1
<1>3. rest \in Seq(Message)  BY <1>1 DEF Rest
<1>4. chat \in Seq(ChatMessage) /\ schema \in Seq(SchemaTurn)  BY <1>3, ChatIsExact, TurnsAreExact
<1>5. /\ IsSuffix(ChatsBack(chat, cut), FormatChatHistory(history))
      /\ IsSuffix(TurnsBack(schema, cut), FormatSchemaHistory(history))
      /\ cut > 0 => /\ chat # <<>> /\ chat[1].role = "user"
                    /\ schema # <<>> /\ schema[1][1] = "user"
  <2>1. CASE cut = 0
    <3>1. chat = FormatChatHistory(history) /\ schema = FormatSchemaHistory(history)  BY <1>1, <2>1
    <3> HIDE DEF chat, schema
    <3>2. ~(cut > 0)  BY <2>1
    <3> QED  BY <1>4, <2>1, <3>1, <3>2, NothingCut
  <2>2. CASE cut # 0
    <3>1. cut > 0 /\ rest # <<>> /\ rest[1].type = "human"  BY <1>1, <1>2, <2>2
    <3> QED  BY <1>1, <1>2, <3>1, ChatOfRest, TurnsOfRest
  <2> QED  BY <2>1, <2>2
<1>6. (\E i \in DOMAIN history : history[i].type = "human") => \E i \in DOMAIN rest : rest[i].type = "human"
  <2>1. CASE cut = 0  BY <1>1, <2>1
  <2>2. CASE cut # 0
    <3>1. rest # <<>> /\ rest[1].type = "human"  BY <1>1, <1>2, <2>2
    <3>2. 1 \in DOMAIN rest  BY <1>3, <3>1
    <3> QED  BY <3>1, <3>2
  <2> QED  BY <2>1, <2>2
<1> HIDE DEF chat, schema
<1> QED  BY <1>5, <1>6 DEF CompactionCutsTurns, cut, rest, chat, schema

(* After summarize_conversation has cut a list at _safe_cut_index both pages show the last of *)
(* what they showed, from a question on, and a list with a question keeps one: for lists of   *)
(* any length and any number of messages to keep.                                             *)
THEOREM CompactionStaysWhole ==
    HistInit /\ [][Listed']_history => []CompactionCutsTurns
<1>1. HistInit => Listed  BY WhateverIsListed
<1>2. Listed /\ [Listed']_history => Listed'  BY DEF Listed
<1>3. Listed => CompactionCutsTurns
  <2>1. KeepRecent \in Nat  BY HistoryAssumption
  <2> QED  BY <2>1, CutsAreWhole DEF Listed
<1> QED  BY <1>1, <1>2, <1>3, PTL
=============================================================================
