---------------------------- MODULE MemoryStore ----------------------------
(***************************************************************************)
(* The long-term memory of a user (services/memory.py): one namespace of a *)
(* key-value store with similarity search.  At the end of a turn an LLM    *)
(* extracts facts, and each is stored unless something similar is there;   *)
(* the user lists, adds, edits and deletes memories meanwhile.             *)
(*                                                                         *)
(* A fact is a pair <<topic, wording>>; two facts are near-duplicates when *)
(* they have one topic.  Blank is what is left of an empty string.         *)
(***************************************************************************)
EXTENDS Naturals, Sequences, FiniteSets

CONSTANTS
    Fact,       \* what can be stated
    Secret,     \* facts that look like a credential
    Blank,
    MemoryId,   \* uuid4 keys
    MemRequest, \* turns and page requests, each used once
    Earlier,    \* any request before them
    NoMemory

RecallLimit == 1  \* RECALL_LIMIT is 3; one is less than the memories there are

VARIABLES
    memory, \* memory[k]: a stored value, or NoMemory
    mpc,    \* mpc[q]: the next step of request q
    mloc    \* mloc[q]: its locals

memVars == <<memory, mpc, mloc>>

\* A value: by is the request that made it; an edit sets updated_at.
Value == [content : Fact, by : MemRequest \cup {Earlier}, source : {"agent", "user"}, edited : BOOLEAN]
ASSUME MemAssumption == NoMemory \notin Value /\ Earlier \notin MemRequest
Keys == {k \in MemoryId : memory[k] # NoMemory}
Topic(fact) == fact[1]
Similar(fact) == {k \in Keys : Topic(memory[k].content) = Topic(fact)}
Storable(text) == text # Blank /\ text \notin Secret
Fresh == {k \in MemoryId \ Keys : \A q \in MemRequest : mloc[q].key # k}
NoMLocal == [facts |-> <<>>, key |-> NoMemory, value |-> NoMemory, recalled |-> {}]
MGoto(q, label) == mpc' = [mpc EXCEPT ![q] = label]
New(q, fact, source) == [content |-> fact, by |-> q, source |-> source, edited |-> FALSE]

-----------------------------------------------------------------------------
\* recall: at most RecallLimit hits, similar ones first; none when the store fails.
Recall(q) ==
    /\ mpc[q] = "idle"
    /\ \E topic \in {Topic(f) : f \in Fact}, hits \in SUBSET Keys :
        LET near == {k \in Keys : Topic(memory[k].content) = topic} IN
        /\ Cardinality(hits) <= RecallLimit
        /\ near \subseteq hits \/ hits \subseteq near
        /\ mloc' = [mloc EXCEPT ![q].recalled = hits]
    /\ MGoto(q, "recalled")
    /\ UNCHANGED memory

\* The turn ends and the LLM extracts facts, in any wording and perhaps twice.
Extract(q) ==
    /\ mpc[q] = "recalled"
    /\ \E f, g \in Fact \cup {Blank} :
        mloc' = [mloc EXCEPT ![q] = [@ EXCEPT !.facts = <<f, g>>, !.recalled = {}]]
    /\ MGoto(q, "fact")
    /\ UNCHANGED memory

(* Mutant: no search before the put. *)
DeduplicateNothing(q) ==
    /\ mpc[q] = "fact" /\ mloc[q].facts # <<>>
    /\ IF Storable(Head(mloc[q].facts))
         THEN MGoto(q, "put") /\ UNCHANGED mloc
         ELSE /\ mloc' = [mloc EXCEPT ![q].facts = Tail(@)]
              /\ UNCHANGED mpc
    /\ UNCHANGED memory

\* For each fact: skip it, or search ...
Deduplicate(q) ==
    /\ mpc[q] = "fact" /\ mloc[q].facts # <<>>
    /\ LET fact == Head(mloc[q].facts) IN
       IF Storable(fact) /\ Similar(fact) = {}
         THEN MGoto(q, "put") /\ UNCHANGED mloc
         ELSE /\ mloc' = [mloc EXCEPT ![q].facts = Tail(@)]
              /\ UNCHANGED mpc
    /\ UNCHANGED memory

\* ... and put it under a key of its own.
Remember(q) ==
    /\ mpc[q] = "put"
    /\ \E k \in Fresh : memory' = [memory EXCEPT ![k] = New(q, Head(mloc[q].facts), "agent")]
    /\ mloc' = [mloc EXCEPT ![q].facts = Tail(@)]
    /\ MGoto(q, "fact")

\* Out of facts, or the store or the embedding service raised: best effort.
ExtractEnd(q) ==
    /\ \/ mpc[q] = "fact" /\ mloc[q].facts = <<>>
       \/ mpc[q] \in {"recalled", "fact", "put"}
    /\ MGoto(q, "done")
    /\ UNCHANGED <<memory, mloc>>

\* create_memory: refuses content that is empty or looks like a secret; no
\* deduplication, and no check of the category, which is left out.
Add(q) ==
    /\ mpc[q] = "idle"
    /\ \E fact \in Fact \cup {Blank} :
        IF Storable(fact)
          THEN /\ \E k \in Fresh : memory' = [memory EXCEPT ![k] = New(q, fact, "user")]
               /\ MGoto(q, "done")
          ELSE MGoto(q, "refused") /\ UNCHANGED memory
    /\ UNCHANGED mloc

(* Mutant: an edited memory is only checked for being empty. *)
UpdateGetUnchecked(q) ==
    /\ mpc[q] = "idle"
    /\ \E fact \in Fact \cup {Blank}, k \in MemoryId :
        IF fact # Blank /\ k \in Keys
          THEN /\ mloc' = [mloc EXCEPT ![q].key = k,
                             ![q].value = [memory[k] EXCEPT !.content = fact, !.edited = TRUE]]
               /\ MGoto(q, "update")
          ELSE MGoto(q, "refused") /\ UNCHANGED mloc
    /\ UNCHANGED memory

\* update_memory: check the text, get, ...
UpdateGet(q) ==
    /\ mpc[q] = "idle"
    /\ \E fact \in Fact \cup {Blank}, k \in MemoryId :
        IF Storable(fact) /\ k \in Keys
          THEN /\ mloc' = [mloc EXCEPT ![q].key = k,
                             ![q].value = [memory[k] EXCEPT !.content = fact, !.edited = TRUE]]
               /\ MGoto(q, "update")
          ELSE MGoto(q, "refused") /\ UNCHANGED mloc
    /\ UNCHANGED memory

\* ... put: also when the memory was deleted in between.
UpdatePut(q) ==
    /\ mpc[q] = "update"
    /\ memory' = [memory EXCEPT ![mloc[q].key] = mloc[q].value]
    /\ MGoto(q, "done")
    /\ UNCHANGED mloc

\* delete_memory: get, ...
DeleteMemoryGet(q) ==
    /\ mpc[q] = "idle"
    /\ \E k \in MemoryId :
        IF k \in Keys
          THEN mloc' = [mloc EXCEPT ![q].key = k] /\ MGoto(q, "delete")
          ELSE MGoto(q, "refused") /\ UNCHANGED mloc
    /\ UNCHANGED memory

\* ... delete.
DeleteMemory(q) ==
    /\ mpc[q] = "delete"
    /\ memory' = [memory EXCEPT ![mloc[q].key] = NoMemory]
    /\ MGoto(q, "done")
    /\ UNCHANGED mloc

-----------------------------------------------------------------------------
\* The store may hold what earlier requests have left.
MemInit ==
    /\ memory \in [MemoryId -> {NoMemory} \cup {v \in Value : v.by = Earlier /\ v.content \notin Secret}]
    /\ mpc = [q \in MemRequest |-> "idle"]
    /\ mloc = [q \in MemRequest |-> NoMLocal]

MemOver == \A q \in MemRequest : mpc[q] \in {"done", "refused"}

MemNext ==
    \/ \E q \in MemRequest :
        \/ Recall(q) \/ Extract(q) \/ Deduplicate(q) \/ Remember(q) \/ ExtractEnd(q)
        \/ Add(q) \/ UpdateGet(q) \/ UpdatePut(q) \/ DeleteMemoryGet(q) \/ DeleteMemory(q)
    \/ MemOver /\ UNCHANGED memVars

MemSpec == MemInit /\ [][MemNext]_memVars

-----------------------------------------------------------------------------
MemTypeOK ==
    /\ memory \in [MemoryId -> {NoMemory} \cup Value]
    /\ mpc \in [MemRequest -> {"idle", "recalled", "fact", "put", "update", "delete", "done", "refused"}]
    /\ \A q \in MemRequest :
        /\ mloc[q].facts \in UNION {[1..n -> Fact \cup {Blank}] : n \in 0..2}
        /\ mloc[q].key \in MemoryId \cup {NoMemory}
        /\ mloc[q].value \in {NoMemory} \cup Value
        /\ mloc[q].recalled \subseteq MemoryId

\* No content that looks like a credential is ever stored, by whichever of the
\* three ways in, nor carried by an update in flight ("never secrets").  (The
\* category, which create_memory does not check, reaches no prompt.)
NoSecretStored ==
    /\ \A k \in Keys : memory[k].content \notin Secret
    /\ \A q \in MemRequest : mloc[q].value # NoMemory => mloc[q].value.content \notin Secret

\* However searches and puts of different turns interleave, one turn does not
\* store one thing twice, not even when its LLM states it in two wordings.
OncePerTurn ==
    \A j, k \in Keys :
        /\ memory[j].source = "agent" /\ ~memory[j].edited
        /\ memory[k].source = "agent" /\ ~memory[k].edited
        /\ memory[j].by = memory[k].by /\ memory[j].by # Earlier
        /\ Topic(memory[j].content) = Topic(memory[k].content)
        => j = k
-----------------------------------------------------------------------------
\* The inductive invariant behind both, part by part.

\* An update in flight carries a value that is an edit, for a key that was there.
Updates ==
    /\ \A q \in MemRequest : mloc[q].value # NoMemory => mloc[q].value.edited
    /\ \A q \in MemRequest : mpc[q] = "update" => mloc[q].key \in MemoryId /\ mloc[q].value \in Value
    /\ \A q \in MemRequest : mpc[q] = "delete" => mloc[q].key \in MemoryId

\* A memory that turn q has extracted, and nobody has edited.
Extracted(k, q) ==
    memory[k] # NoMemory /\ memory[k].by = q /\ memory[k].source = "agent" /\ ~memory[k].edited

\* Between the search and the put of a fact, no memory of the same turn and
\* topic appears: others may store the topic, but in their own name.
Puts ==
    \A q \in MemRequest : mpc[q] = "put" =>
        /\ mloc[q].facts # <<>> /\ Storable(Head(mloc[q].facts))
        /\ \A k \in MemoryId : Extracted(k, q) => Topic(memory[k].content) # Topic(Head(mloc[q].facts))

NoRepeat ==
    \A q \in MemRequest : \A j, k \in MemoryId :
        Extracted(j, q) /\ Extracted(k, q) /\ Topic(memory[j].content) = Topic(memory[k].content) => j = k

MemIInv == MemTypeOK /\ Updates /\ Puts /\ NoRepeat /\ NoSecretStored
=============================================================================
