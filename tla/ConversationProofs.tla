------------------------- MODULE ConversationProofs -------------------------
(***************************************************************************)
(* Proofs about Conversation: every history is one turn after the other.   *)
(***************************************************************************)
EXTENDS Conversation, TLAPS

(* A message is a record of its three parts. *)
LEMMA Messages ==
  ASSUME NEW k \in {"human", "call", "tool", "answer", "empty"}, NEW r \in Turn,
         NEW n \in Number
  PROVE  LET m == [kind |-> k, by |-> r, n |-> n]
         IN  m \in Message /\ m.kind = k /\ m.by = r
BY DEF Message

LEMMA Results ==
  ASSUME NEW m \in Message
  PROVE  ResultOf(m) \in Message /\ ResultOf(m).kind = "tool" /\ ResultOf(m).by = m.by
BY DEF Message, ResultOf

(* A history stays whole when a new turn asks, ... *)
LEMMA WholeAsk ==
  ASSUME NEW s \in Seq(Message), Whole(s), NEW m \in Message, m.kind = "human",
         \A i \in DOMAIN s : s[i].by # m.by
  PROVE  Whole(Append(s, m))
<1> DEFINE z == Append(s, m)
<1>1. z \in Seq(Message) /\ Len(z) = Len(s) + 1 /\ DOMAIN z = 1..(Len(s) + 1)
  OBVIOUS
<1>2. \A i \in DOMAIN s : z[i] = s[i]
  OBVIOUS
<1>3. z[Len(s) + 1] = m
  OBVIOUS
<1> HIDE DEF z
<1>4. z[1].kind = "human"
  <2>1. CASE s = <<>>
    BY <2>1, <1>3
  <2>2. CASE s # <<>>
    BY <2>2, <1>2 DEF Whole
  <2> QED BY <2>1, <2>2
<1>5. ASSUME NEW i \in DOMAIN z, i > 1
      PROVE  Follows(z[i - 1], z[i])
  <2>1. CASE i = Len(s) + 1
    <3>1. i - 1 \in DOMAIN s
      BY <2>1, <1>5
    <3>2. z[i - 1].by # m.by
      BY <3>1, <1>2
    <3> QED BY <3>2, <2>1, <1>3 DEF Follows
  <2>2. CASE i # Len(s) + 1
    <3>1. i \in DOMAIN s /\ i - 1 \in DOMAIN s
      BY <2>2, <1>1, <1>5
    <3> QED BY <3>1, <1>2, <1>5 DEF Whole
  <2> QED BY <2>1, <2>2
<1>6. ASSUME NEW i \in DOMAIN z, z[i].kind = "human", NEW j \in 1..(i - 1)
      PROVE  z[j].by # z[i].by
  <2>0. j \in DOMAIN s
    BY <1>1
  <2>1. CASE i = Len(s) + 1
    BY <2>0, <2>1, <1>2, <1>3
  <2>2. CASE i # Len(s) + 1
    <3>1. i \in DOMAIN s
      BY <2>2, <1>1
    <3> QED BY <3>1, <2>0, <1>2, <1>6 DEF Whole
  <2> QED BY <2>1, <2>2
<1> QED
  BY <1>4, <1>5, <1>6 DEF Whole, z

(* ... when the turn that said the last word goes on as it may, ... *)
LEMMA WholeSay ==
  ASSUME NEW s \in Seq(Message), Whole(s), s # <<>>, NEW m \in Message,
         MaySay(s, m), m.by = s[Len(s)].by
  PROVE  Whole(Append(s, m))
<1> DEFINE z == Append(s, m)
<1>1. z \in Seq(Message) /\ Len(z) = Len(s) + 1 /\ DOMAIN z = 1..(Len(s) + 1)
  OBVIOUS
<1>2. \A i \in DOMAIN s : z[i] = s[i]
  OBVIOUS
<1>3. z[Len(s) + 1] = m
  OBVIOUS
<1>0. Len(s) \in DOMAIN s /\ 1 \in DOMAIN s /\ s[Len(s)] \in Message
  OBVIOUS
<1> HIDE DEF z
<1>4. z[1].kind = "human"
  BY <1>0, <1>2 DEF Whole
<1>7. m.kind # "human"
  BY <1>0, Results DEF MaySay, EndsWith
<1>8. Follows(s[Len(s)], m)
  <2>1. s[Len(s)].kind \in {"human", "call", "tool"}
    BY <1>0 DEF MaySay, EndsWith, Message
  <2>2. IF s[Len(s)].kind = "call" THEN m = ResultOf(s[Len(s)]) ELSE m.kind # "tool"
    BY <1>0 DEF MaySay, EndsWith
  <2> QED BY <2>1, <2>2, <1>7 DEF Follows
<1>5. ASSUME NEW i \in DOMAIN z, i > 1
      PROVE  Follows(z[i - 1], z[i])
  <2>1. CASE i = Len(s) + 1
    <3>1. i - 1 = Len(s)
      BY <2>1
    <3> QED BY <3>1, <2>1, <1>0, <1>2, <1>3, <1>8
  <2>2. CASE i # Len(s) + 1
    <3>1. i \in DOMAIN s /\ i - 1 \in DOMAIN s
      BY <2>2, <1>1, <1>5
    <3> QED BY <3>1, <1>2, <1>5 DEF Whole
  <2> QED BY <2>1, <2>2
<1>6. ASSUME NEW i \in DOMAIN z, z[i].kind = "human", NEW j \in 1..(i - 1)
      PROVE  z[j].by # z[i].by
  <2>1. i \in DOMAIN s
    BY <1>1, <1>3, <1>6, <1>7
  <2>2. j \in DOMAIN s
    BY <1>1
  <2> QED BY <2>1, <2>2, <1>2, <1>6 DEF Whole
<1> QED
  BY <1>4, <1>5, <1>6 DEF Whole, z

(* ... and when the turns before a question are forgotten. *)
LEMMA WholeForget ==
  ASSUME NEW s \in Seq(Message), Whole(s), NEW i \in DOMAIN s, s[i].kind = "human"
  PROVE  /\ Whole(SubSeq(s, i, Len(s))) /\ SubSeq(s, i, Len(s)) # <<>>
         /\ SubSeq(s, i, Len(s)) \in Seq(Message)
         /\ SubSeq(s, i, Len(s))[Len(SubSeq(s, i, Len(s)))] = s[Len(s)]
<1> DEFINE z == SubSeq(s, i, Len(s))
<1>1. z \in Seq(Message) /\ Len(z) = Len(s) - i + 1 /\ DOMAIN z = 1..(Len(s) - i + 1)
  OBVIOUS
<1>2. \A j \in DOMAIN z : z[j] = s[i + j - 1]
  OBVIOUS
<1> HIDE DEF z
<1>3. Len(s) \in Nat /\ i \in 1..Len(s)
  OBVIOUS
<1>4. z[1] = s[i] /\ z[Len(z)] = s[Len(s)] /\ z # <<>>
  <2>1. 1 \in DOMAIN z /\ Len(z) \in DOMAIN z
    BY <1>1, <1>3
  <2>2. i + 1 - 1 = i /\ i + (Len(s) - i + 1) - 1 = Len(s)
    BY <1>3
  <2>3. z[1] = s[i] /\ z[Len(s) - i + 1] = s[Len(s)]
    BY <2>1, <2>2, <1>1, <1>2
  <2> QED BY <2>1, <2>3, <1>1
<1>5. ASSUME NEW j \in DOMAIN z, j > 1
      PROVE  Follows(z[j - 1], z[j])
  <2>1. j - 1 \in DOMAIN z /\ i + j - 1 \in DOMAIN s /\ i + j - 1 > 1
        /\ (i + j - 1) - 1 = i + (j - 1) - 1
    BY <1>1, <1>3, <1>5
  <2>2. Follows(s[(i + j - 1) - 1], s[i + j - 1])
    BY <2>1 DEF Whole
  <2>3. z[j - 1] = s[i + (j - 1) - 1] /\ z[j] = s[i + j - 1]
    BY <2>1, <1>2
  <2> QED BY <2>1, <2>2, <2>3
<1>6. ASSUME NEW j \in DOMAIN z, z[j].kind = "human", NEW k \in 1..(j - 1)
      PROVE  z[k].by # z[j].by
  <2>1. k \in DOMAIN z /\ i + j - 1 \in DOMAIN s /\ i + k - 1 \in 1..(i + j - 1 - 1)
    BY <1>1, <1>3
  <2>2. PICK p \in DOMAIN s : p = i + j - 1
    BY <2>1
  <2>3. PICK q \in 1..(p - 1) : q = i + k - 1
    <3>1. p \in Nat /\ i \in Nat /\ j \in Nat /\ k \in Nat /\ k >= 1 /\ k <= j - 1 /\ i >= 1
      BY <1>1, <1>3
    <3>2. i + k - 1 \in Nat /\ i + k - 1 >= 1 /\ i + k - 1 <= p - 1
      BY <2>2, <3>1
    <3>3. i + k - 1 \in 1..(p - 1)
      BY <3>1, <3>2
    <3> QED BY <3>3
  <2>4. z[k] = s[q] /\ z[j] = s[p]
    BY <2>1, <2>2, <2>3, <1>2
  <2>5. s[p].kind = "human"
    BY <2>4, <1>6
  <2> QED BY <2>4, <2>5 DEF Whole
<1> QED
  BY <1>1, <1>4, <1>5, <1>6 DEF Whole, z

(* Closing a call is one of the things its turn may say. *)
LEMMA WholeClosed ==
  ASSUME NEW s \in Seq(Message), Whole(s)
  PROVE  Whole(Closed(s)) /\ Closed(s) \in Seq(Message)
<1>1. CASE EndsWith(s, "call")
  <2>1. s # <<>> /\ s[Len(s)] \in Message /\ s[Len(s)].kind = "call"
    BY <1>1 DEF EndsWith
  <2>2. ResultOf(s[Len(s)]) \in Message /\ ResultOf(s[Len(s)]).by = s[Len(s)].by
    BY <2>1, Results
  <2>3. MaySay(s, ResultOf(s[Len(s)]))
    BY <2>1 DEF MaySay, EndsWith
  <2> QED BY <2>1, <2>2, <2>3, <1>1, WholeSay DEF Closed
<1>2. CASE ~ EndsWith(s, "call")
  BY <1>2 DEF Closed
<1> QED BY <1>1, <1>2

LEMMA WholeEmpty == Whole(<<>>) /\ <<>> \in Seq(Message)
BY DEF Whole

(* What a turn leaves is whole. *)
LEMMA LeftIsWhole ==
  ASSUME TypeOK, WholeTurns, NEW t \in Thread
  PROVE  Left(t) \in Seq(Message) /\ Whole(Left(t))
BY WholeEmpty DEF TypeOK, WholeTurns, Left

----------------------------------------------------------------------------

(* The invariant for one thread, by which the steps are examined. *)
Sound(w, s, e) ==
    /\ w \in Seq(Message) /\ Whole(w)
    /\ s \in Turn \cup {None} /\ e \in BOOLEAN
    /\ s # None => w # <<>> /\ w[Len(w)].by = s
    /\ e => s # None

LEMMA InvariantFromThreads ==
  ASSUME words' = [t \in Thread |-> words'[t]], speaker' = [t \in Thread |-> speaker'[t]],
         erased' = [t \in Thread |-> erased'[t]],
         verdict' \in [Turn -> SUBSET {"done", "cancelled"}],
         \A t \in Thread : Sound(words'[t], speaker'[t], erased'[t])
  PROVE  IInv'
<1>1. words' \in [Thread -> Seq(Message)]
  <2>1. \A t \in Thread : words'[t] \in Seq(Message)
    BY DEF Sound
  <2> QED BY <2>1
<1>2. speaker' \in [Thread -> Turn \cup {None}]
  <2>1. \A t \in Thread : speaker'[t] \in Turn \cup {None}
    BY DEF Sound
  <2> QED BY <2>1
<1>3. erased' \in [Thread -> BOOLEAN]
  <2>1. \A t \in Thread : erased'[t] \in BOOLEAN
    BY DEF Sound
  <2> QED BY <2>1
<1>4. WholeTurns' /\ SpeakerIsLast'
  BY DEF Sound, WholeTurns, SpeakerIsLast
<1>5. TypeOK'
  BY <1>1, <1>2, <1>3 DEF TypeOK
<1> QED
  BY <1>4, <1>5 DEF IInv

LEMMA ThreadsOfInvariant ==
  ASSUME IInv, NEW t \in Thread
  PROVE  Sound(words[t], speaker[t], erased[t])
BY DEF IInv, TypeOK, SpeakerIsLast, WholeTurns, Sound

LEMMA InitSound == ASSUME Init PROVE IInv
<1>1. \A t \in Thread : Sound(words[t], speaker[t], erased[t])
  BY WholeEmpty DEF Init, Sound
<1> QED
  BY <1>1 DEF Init, IInv, TypeOK, WholeTurns, SpeakerIsLast, Sound

----------------------------------------------------------------------------

(* A step touches one thread, but for a crash. *)
LEMMA OneThread ==
  ASSUME IInv, NEW t \in Thread, NEW w, NEW s, NEW e,
         words' = [words EXCEPT ![t] = w], speaker' = [speaker EXCEPT ![t] = s],
         erased' = [erased EXCEPT ![t] = e],
         verdict' \in [Turn -> SUBSET {"done", "cancelled"}],
         Sound(w, s, e)
  PROVE  IInv'
<1>1. \A u \in Thread : Sound(words'[u], speaker'[u], erased'[u])
  <2> SUFFICES ASSUME NEW u \in Thread PROVE Sound(words'[u], speaker'[u], erased'[u])
    OBVIOUS
  <2>1. CASE u = t
    BY <2>1 DEF IInv, TypeOK
  <2>2. CASE u # t
    <3>1. words'[u] = words[u] /\ speaker'[u] = speaker[u] /\ erased'[u] = erased[u]
      BY <2>2 DEF IInv, TypeOK
    <3> QED BY <3>1, ThreadsOfInvariant
  <2> QED BY <2>1, <2>2
<1>2. /\ words' = [u \in Thread |-> words'[u]] /\ speaker' = [u \in Thread |-> speaker'[u]]
      /\ erased' = [u \in Thread |-> erased'[u]]
  BY DEF IInv, TypeOK
<1> QED
  BY <1>1, <1>2, InvariantFromThreads

(* A turn that ends leaves a whole history to nobody. *)
LEMMA EndSound ==
  ASSUME IInv, NEW t \in Thread, NEW s \in Seq(Message), Whole(s),
         NEW v \in SUBSET {"done", "cancelled"}, End(t, s, v)
  PROVE  IInv'
<1>1. Sound(s, None, FALSE)
  BY DEF Sound
<1>2. verdict' \in [Turn -> SUBSET {"done", "cancelled"}]
  BY DEF End, IInv, TypeOK
<1> QED
  BY <1>1, <1>2, OneThread DEF End

LEMMA StepSound ==
  ASSUME None \notin Turn, IInv, [Next]_vars
  PROVE  IInv'
<1> USE DEF vars
<1>0. CASE UNCHANGED vars
  BY <1>0 DEF IInv, TypeOK, SpeakerIsLast, WholeTurns
<1> TypeOK /\ WholeTurns
  BY DEF IInv
<1>1. ASSUME NEW t \in Thread, NEW r \in Turn, Ask(r, t)
      PROVE  IInv'
  <2>1. PICK n \in Number : words' = [words EXCEPT ![t] =
                Append(@, [kind |-> "human", by |-> r, n |-> n])]
    BY <1>1 DEF Ask
  <2> DEFINE m == [kind |-> "human", by |-> r, n |-> n]
  <2>2. m \in Message /\ m.kind = "human" /\ m.by = r
    BY Messages
  <2>3. words[t] \in Seq(Message) /\ Whole(words[t])
    BY DEF TypeOK, WholeTurns
  <2>4. \A i \in DOMAIN words[t] : words[t][i].by # r
    BY <1>1 DEF Ask
  <2> HIDE DEF m
  <2>5. Whole(Append(words[t], m))
    BY <2>2, <2>3, <2>4, WholeAsk
  <2>6. Append(words[t], m) \in Seq(Message) /\ Append(words[t], m) # <<>>
        /\ Append(words[t], m)[Len(Append(words[t], m))].by = r
    BY <2>2, <2>3
  <2>7. erased[t] = FALSE
    BY <1>1 DEF Ask, IInv, SpeakerIsLast, TypeOK
  <2>8. Sound(Append(words[t], m), r, FALSE)
    BY <2>5, <2>6 DEF Sound
  <2>9. words' = [words EXCEPT ![t] = Append(words[t], m)]
    BY <2>1 DEF m, TypeOK
  <2>10. erased' = [erased EXCEPT ![t] = FALSE]
    BY <1>1, <2>7 DEF Ask, TypeOK
  <2>11. speaker' = [speaker EXCEPT ![t] = r]
         /\ verdict' \in [Turn -> SUBSET {"done", "cancelled"}]
    BY <1>1 DEF Ask, TypeOK
  <2> QED
    BY <2>8, <2>9, <2>10, <2>11, OneThread
<1>2. ASSUME NEW t \in Thread, Say(t)
      PROVE  IInv'
  <2>1. PICK k \in {"call", "tool", "answer", "empty"}, n \in Number :
          LET m == [kind |-> k, by |-> speaker[t], n |-> n]
          IN  MaySay(words[t], m) /\ words' = [words EXCEPT ![t] = Append(@, m)]
    BY <1>2 DEF Say
  <2> DEFINE m == [kind |-> k, by |-> speaker[t], n |-> n]
  <2>2. speaker[t] \in Turn
    BY <1>2 DEF Say, TypeOK
  <2>3. m \in Message /\ m.by = speaker[t]
    BY <2>2, Messages
  <2>4. MaySay(words[t], m) /\ words' = [words EXCEPT ![t] = Append(words[t], m)]
    BY <2>1 DEF TypeOK
  <2> HIDE DEF m
  <2>5. words[t] \in Seq(Message) /\ Whole(words[t])
    BY DEF TypeOK, WholeTurns
  <2>6. words[t] # <<>> /\ words[t][Len(words[t])].by = speaker[t]
    BY <1>2 DEF Say, IInv, SpeakerIsLast
  <2>7. Whole(Append(words[t], m))
    BY <2>3, <2>4, <2>5, <2>6, WholeSay
  <2>8. Append(words[t], m) \in Seq(Message) /\ Append(words[t], m) # <<>>
        /\ Append(words[t], m)[Len(Append(words[t], m))].by = speaker[t]
    BY <2>3, <2>5
  <2>9. Sound(Append(words[t], m), speaker[t], FALSE)
    BY <2>2, <2>7, <2>8 DEF Sound
  <2>10. speaker' = [speaker EXCEPT ![t] = speaker[t]]
         /\ erased' = [erased EXCEPT ![t] = FALSE]
         /\ verdict' \in [Turn -> SUBSET {"done", "cancelled"}]
    BY <1>2 DEF Say, TypeOK
  <2> QED
    BY <2>4, <2>9, <2>10, OneThread
<1>3. ASSUME NEW t \in Thread, Forget(t)
      PROVE  IInv'
  <2>1. PICK i \in DOMAIN words[t] :
          /\ words[t][i].kind = "human"
          /\ words' = [words EXCEPT ![t] = SubSeq(@, i, Len(@))]
    BY <1>3 DEF Forget
  <2> DEFINE z == SubSeq(words[t], i, Len(words[t]))
  <2>2. words[t] \in Seq(Message) /\ Whole(words[t])
    BY DEF TypeOK, WholeTurns
  <2>3. Whole(z) /\ z # <<>> /\ z \in Seq(Message) /\ z[Len(z)] = words[t][Len(words[t])]
    BY <2>1, <2>2, WholeForget
  <2>4. words' = [words EXCEPT ![t] = z]
    BY <2>1 DEF TypeOK
  <2> HIDE DEF z
  <2>5. words[t][Len(words[t])].by = speaker[t] /\ speaker[t] \in Turn
    BY <1>3 DEF Forget, IInv, SpeakerIsLast, TypeOK
  <2>6. Sound(z, speaker[t], FALSE)
    BY <2>3, <2>5 DEF Sound
  <2>7. speaker' = [speaker EXCEPT ![t] = speaker[t]]
        /\ erased' = [erased EXCEPT ![t] = FALSE]
        /\ verdict' \in [Turn -> SUBSET {"done", "cancelled"}]
    BY <1>3 DEF Forget, TypeOK
  <2> QED
    BY <2>4, <2>6, <2>7, OneThread
<1>4. ASSUME NEW t \in Thread, Answer(t)
      PROVE  IInv'
  <2>1. words[t] \in Seq(Message) /\ Whole(words[t])
    BY DEF TypeOK, WholeTurns
  <2> QED
    BY <1>4, <2>1, EndSound DEF Answer
<1>5. ASSUME NEW t \in Thread, Stop(t)
      PROVE  IInv'
  <2>1. Left(t) \in Seq(Message) /\ Whole(Left(t))
    BY LeftIsWhole
  <2>2. Closed(Left(t)) \in Seq(Message) /\ Whole(Closed(Left(t)))
    BY <2>1, WholeClosed
  <2>3. CASE End(t, Closed(Left(t)), {"cancelled"})
    BY <2>2, <2>3, EndSound
  <2>4. CASE End(t, Left(t), {"cancelled"})
    BY <2>1, <2>4, EndSound
  <2> QED
    BY <1>5, <2>3, <2>4 DEF Stop
<1>6. ASSUME NEW t \in Thread, Abandon(t)
      PROVE  IInv'
  BY <1>6, LeftIsWhole, EndSound DEF Abandon
<1>7. ASSUME NEW t \in Thread, Delete(t)
      PROVE  IInv'
  <2>1. CASE speaker[t] = None
    <3>1. erased[t] = FALSE
      BY <2>1 DEF IInv, SpeakerIsLast, TypeOK
    <3>2. Sound(<<>>, None, FALSE)
      BY WholeEmpty DEF Sound
    <3>3. words' = [words EXCEPT ![t] = <<>>] /\ speaker' = [speaker EXCEPT ![t] = None]
          /\ erased' = [erased EXCEPT ![t] = FALSE]
          /\ verdict' \in [Turn -> SUBSET {"done", "cancelled"}]
      BY <1>7, <2>1, <3>1 DEF Delete, TypeOK
    <3> QED BY <3>2, <3>3, OneThread
  <2>2. CASE speaker[t] # None
    <3>1. Sound(words[t], speaker[t], TRUE)
      BY <2>2, ThreadsOfInvariant DEF Sound
    <3>2. words' = [words EXCEPT ![t] = words[t]]
          /\ speaker' = [speaker EXCEPT ![t] = speaker[t]]
          /\ erased' = [erased EXCEPT ![t] = TRUE]
          /\ verdict' \in [Turn -> SUBSET {"done", "cancelled"}]
      BY <1>7, <2>2 DEF Delete, TypeOK
    <3> QED BY <3>1, <3>2, OneThread
  <2> QED BY <2>1, <2>2
<1>8. CASE Crash
  <2>1. \A t \in Thread : Sound(words'[t], speaker'[t], erased'[t])
    BY <1>8, LeftIsWhole DEF Crash, Sound
  <2>2. /\ words' = [t \in Thread |-> words'[t]] /\ speaker' = [t \in Thread |-> speaker'[t]]
        /\ erased' = [t \in Thread |-> erased'[t]]
        /\ verdict' \in [Turn -> SUBSET {"done", "cancelled"}]
    BY <1>8 DEF Crash, TypeOK
  <2> QED BY <2>1, <2>2, InvariantFromThreads
<1> QED
  BY <1>0, <1>1, <1>2, <1>3, <1>4, <1>5, <1>6, <1>7, <1>8 DEF Next

(* Whoever implements Conversation has histories that are one turn after   *)
(* the other: no question, call, result or answer of one turn is ever      *)
(* among the messages of another.                                          *)
THEOREM TurnsAreWhole ==
  ASSUME None \notin Turn
  PROVE  Spec => []IInv
<1>1. Init => IInv
  BY InitSound
<1>2. IInv /\ [Next]_vars => IInv'
  BY StepSound
<1> QED
  BY <1>1, <1>2, PTL DEF Spec
=============================================================================
