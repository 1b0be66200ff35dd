---------------------------- MODULE Conversation ----------------------------
(***************************************************************************)
(* What SqlAgent promises whoever reads the history of a chat: its         *)
(* messages are those of one turn after the other.  A turn asks, calls     *)
(* tools and is answered, stopped or abandoned; nobody else says anything  *)
(* meanwhile, and only whole turns are forgotten.  Nothing here says how   *)
(* turns are kept apart; SqlChat does, with registry, checkpoint and       *)
(* copies, and implements this module.                                     *)
(***************************************************************************)
EXTENDS Naturals, Sequences

CONSTANTS Thread, Turn,
          Number,    \* tells the messages of a turn apart
          Reliable,  \* the checkpointer does not fail
          None

VARIABLES words,     \* words[t]: the messages of a thread, as its speaker knows them
          speaker,   \* speaker[t]: the turn that is speaking, None between turns
          erased,    \* erased[t]: deleted under the speaker, who does not know
          verdict    \* verdict[r]: how the turn has ended, if its client was told

vars == <<words, speaker, erased, verdict>>

Message == [kind : {"human", "call", "tool", "answer", "empty"}, by : Turn, n : Number]
ResultOf(m) == [m EXCEPT !.kind = "tool"]
EndsWith(s, kind) == s # <<>> /\ s[Len(s)].kind = kind

TypeOK ==
    /\ words \in [Thread -> Seq(Message)]
    /\ speaker \in [Thread -> Turn \cup {None}]
    /\ erased \in [Thread -> BOOLEAN]
    /\ verdict \in [Turn -> SUBSET {"done", "cancelled"}]

Init ==
    /\ words = [t \in Thread |-> <<>>]
    /\ speaker = [t \in Thread |-> None]
    /\ erased = [t \in Thread |-> FALSE]
    /\ verdict = [r \in Turn |-> {}]

----------------------------------------------------------------------------

(* A turn begins with a question, when nobody is speaking. *)
Ask(r, t) ==
    /\ speaker[t] = None /\ verdict[r] = {}
    /\ speaker' = [speaker EXCEPT ![t] = r]
    /\ \A u \in Thread : \A i \in DOMAIN words[u] : words[u][i].by # r
    /\ \E n \in Number :
         words' = [words EXCEPT ![t] = Append(@, [kind |-> "human", by |-> r, n |-> n])]
    /\ UNCHANGED <<erased, verdict>>

(* What may be said after s: the result of a call that is open, and else   *)
(* a call, or an answer, after which nothing follows, or the lack of one.  *)
MaySay(s, m) ==
    /\ ~ EndsWith(s, "answer") /\ ~ EndsWith(s, "empty")
    /\ IF EndsWith(s, "call") THEN m = ResultOf(s[Len(s)])
                              ELSE m.kind \in {"call", "answer", "empty"}

(* The speaker says something.  What was deleted under it is back.         *)
Say(t) ==
    /\ speaker[t] # None /\ words'[t] # words[t]
    /\ \E k \in {"call", "tool", "answer", "empty"}, n \in Number :
         LET m == [kind |-> k, by |-> speaker[t], n |-> n]
         IN  MaySay(words[t], m) /\ words' = [words EXCEPT ![t] = Append(@, m)]
    /\ erased' = [erased EXCEPT ![t] = FALSE]
    /\ UNCHANGED <<speaker, verdict>>

(* Before it is answered at all, a turn may forget earlier ones as a whole. *)
Forget(t) ==
    /\ speaker[t] # None /\ EndsWith(words[t], "human")
    /\ \E i \in DOMAIN words[t] :
         /\ words[t][i].kind = "human"
         /\ words' = [words EXCEPT ![t] = SubSeq(@, i, Len(@))]
    /\ erased' = [erased EXCEPT ![t] = FALSE]
    /\ UNCHANGED <<speaker, verdict>>

(* A turn is over, leaves s, and its client was told so. *)
Left(t) == IF erased[t] THEN <<>> ELSE words[t]
End(t, s, outcome) ==
    /\ speaker[t] # None
    /\ speaker' = [speaker EXCEPT ![t] = None]
    /\ words' = [words EXCEPT ![t] = s]
    /\ erased' = [erased EXCEPT ![t] = FALSE]
    /\ verdict' = [verdict EXCEPT ![speaker[t]] = outcome]

(* "done" is said of an answer that is there, and is the turn's own. *)
Answer(t) ==
    /\ End(t, words[t], {"done"})
    /\ ~ erased[t] /\ EndsWith(words[t], "answer")
    /\ words[t][Len(words[t])].by = speaker[t]

(* "cancelled" leaves no call open, as long as the checkpointer works. *)
Closed(s) == IF EndsWith(s, "call") THEN Append(s, ResultOf(s[Len(s)])) ELSE s
Stop(t) ==
    \/ End(t, Closed(Left(t)), {"cancelled"})
    \/ ~ Reliable /\ End(t, Left(t), {"cancelled"})

(* A failure, a client that went away, or no answer. *)
Abandon(t) == End(t, Left(t), {})

Delete(t) ==
    /\ IF speaker[t] = None
         THEN words' = [words EXCEPT ![t] = <<>>] /\ UNCHANGED erased
         ELSE erased' = [erased EXCEPT ![t] = TRUE] /\ UNCHANGED words
    /\ UNCHANGED <<speaker, verdict>>

(* The process dies, and whoever was speaking with it. *)
Crash ==
    /\ speaker' = [t \in Thread |-> None]
    /\ words' = [t \in Thread |-> Left(t)]
    /\ erased' = [t \in Thread |-> FALSE]
    /\ UNCHANGED verdict

Next ==
    \/ \E t \in Thread : \/ \E r \in Turn : Ask(r, t)
                         \/ Say(t) \/ Forget(t)
                         \/ Answer(t) \/ Stop(t) \/ Abandon(t)
                         \/ Delete(t)
    \/ Crash

Spec == Init /\ [][Next]_vars

----------------------------------------------------------------------------

(* What may follow m in a history: the same turn goes on, or another asks. *)
Follows(m, next) ==
    IF next.by = m.by
    THEN /\ m.kind \in {"human", "call", "tool"} /\ next.kind # "human"
         /\ IF m.kind = "call" THEN next = ResultOf(m) ELSE next.kind # "tool"
    ELSE next.kind = "human"

(* A history is one turn after the other: it begins with a question, what  *)
(* a turn says is in the order in which the LLM wants it, and no turn is   *)
(* taken up again once another has asked, whatever was forgotten, stopped, *)
(* abandoned or deleted in between.                                        *)
Whole(s) ==
    /\ s # <<>> => s[1].kind = "human"
    /\ \A i \in DOMAIN s : i > 1 => Follows(s[i - 1], s[i])
    /\ \A i \in DOMAIN s : s[i].kind = "human" =>
         \A j \in 1..(i - 1) : s[j].by # s[i].by
WholeTurns == \A t \in Thread : Whole(words[t])

(* The speaker of a thread said the last word on it. *)
SpeakerIsLast ==
    \A t \in Thread :
        /\ speaker[t] # None => words[t] # <<>> /\ words[t][Len(words[t])].by = speaker[t]
        /\ erased[t] => speaker[t] # None

IInv == TypeOK /\ SpeakerIsLast /\ WholeTurns
=============================================================================
