--------------------------- MODULE AgentLoopProofs ---------------------------
(***************************************************************************)
(* Proofs about AgentLoop for any set of messages and any number of steps. *)
(***************************************************************************)
EXTENDS AgentLoop, FiniteSetTheorems, SequenceTheorems, TLAPS

Resting == {"none", "replay", "starting", "closed", "exiting"}
Between == {"opened", "preStep", "decided", "stepEnded", "stopping", "failing"}
Inside == {"stepped", "model", "tools", "stepDone"}

\* The companion's bookkeeping and the driver's own counters agree at each point
\* of a turn.
TraceInv ==
  /\ trace.ok
  /\ pc \in Resting => AtRest
  /\ pc \in Between \cup Inside =>
       /\ trace.openTurn = turn /\ trace.nextTurn = turn
       /\ trace.openStep = (IF pc \in Inside THEN step ELSE 0)
       /\ trace.nextStep = (IF pc \in Inside THEN step ELSE step + 1)
  /\ pc \in {"starting", "opened"} => step = 0

\* An idle agent has nothing to abort and nothing latched.
PhaseInv ==
  /\ phase = "idle" => cause = "none" /\ latch = "none"
  /\ pc = "replay" => phase = "idle"
  /\ pc = "exiting" => exit \notin {"none", "late"}

\* The agent will not run again by itself.
Rests == \/ phase = "idle" /\ pc = "none"
         \/ phase = "maintenance" /\ latch = "none" /\ cause # "disposed"

WakeInv ==
  /\ latched \subseteq Sent
  /\ phase # "idle" /\ latch = "none" => latched = {}
  /\ LatchedWakesRun
  /\ Rests /\ Pending \cap Waking # {} =>
       exit \in {"aborted", "error", "blocked", "empty", "late"}

\* A message is sent once, and waits in the list it was sent to.
ListInv ==
  /\ \A i, j \in DOMAIN sent : sent[i].message = sent[j].message => i = j
  /\ \A i \in DOMAIN sent :
       /\ sent[i].message \in ToSet(nextTurn) => sent[i].to = "next-turn"
       /\ sent[i].message \in ToSet(nextStep) => sent[i].to = "next-step"

\* A batch exists until it is logged or dropped, and a turn opens with no prompt.
BatchInv ==
  /\ batch # <<>> => pc \in {"preStep", "decided", "stepped", "failing"}
  /\ pc = "opened" => prompts = 0

\* A prompt comes last in its batch, and is the first of its turn.
PromptInv ==
  /\ OnePromptPerTurn
  /\ \A i \in DOMAIN batch : ToPrompt(batch[i]) => i = Len(batch) /\ prompts = 0

\* Of the messages sent, the prompts of S went before those of T.
Precedes(sends, S, T) ==
  \A i, j \in DOMAIN sends :
    /\ sends[i].message \in S /\ sends[j].message \in T
    /\ sends[i].to = "next-turn" /\ sends[j].to = "next-turn"
    => i < j

Ordered(sends, q) ==
  \A a, b \in DOMAIN q : a < b => Precedes(sends, {q[a]}, {q[b]})

\* The prompt being prepared was sent after those that were logged, and the
\* queued ones follow, in the order they were sent.
OrderInv ==
  /\ Precedes(sent, ToSet(said), ToSet(batch))
  /\ Precedes(sent, ToSet(said), ToSet(nextTurn))
  /\ Precedes(sent, ToSet(batch), ToSet(nextTurn))
  /\ Ordered(sent, nextTurn)

\* The inductive invariant.
IInv == /\ TypeOK /\ TraceInv /\ PhaseInv /\ WakeInv
        /\ BatchInv /\ ListInv /\ OneFate /\ PromptInv /\ OrderInv

-----------------------------------------------------------------------------
(* Lemmas about lists of messages *)

\* Appending a new element.
LEMMA AppendFacts ==
  ASSUME NEW S, NEW q \in Seq(S), NEW m \in S
  PROVE  /\ Append(q, m) \in Seq(S) /\ ToSet(Append(q, m)) = ToSet(q) \cup {m}
         /\ Once(q) /\ m \notin ToSet(q) => Once(Append(q, m))
<1>1. /\ Append(q, m) \in Seq(S) /\ Len(q) \in Nat /\ DOMAIN q = 1..Len(q)
      /\ DOMAIN Append(q, m) = 1..Len(q) + 1 /\ Append(q, m)[Len(q) + 1] = m
      /\ \A i \in 1..Len(q) : Append(q, m)[i] = q[i]
  OBVIOUS
<1>2. ToSet(Append(q, m)) = ToSet(q) \cup {m}
  <2>1. ASSUME NEW x \in ToSet(Append(q, m)) PROVE x \in ToSet(q) \cup {m}
    BY <1>1 DEF ToSet, Seqs!ToSet
  <2>2. ASSUME NEW x \in ToSet(q) \cup {m} PROVE x \in ToSet(Append(q, m))
    <3>1. CASE x = m
      <4>1. Len(q) + 1 \in DOMAIN Append(q, m)
        BY <1>1
      <4> QED BY <1>1, <3>1, <4>1 DEF ToSet, Seqs!ToSet
    <3>2. CASE x \in ToSet(q)
      <4>1. PICK i \in DOMAIN q : x = q[i]
        BY <3>2 DEF ToSet, Seqs!ToSet
      <4>2. i \in DOMAIN Append(q, m)
        BY <1>1, <4>1
      <4> QED BY <1>1, <4>1, <4>2 DEF ToSet, Seqs!ToSet
    <3> QED BY <2>2, <3>1, <3>2
  <2> QED BY <2>1, <2>2
<1>3. ASSUME Once(q), m \notin ToSet(q) PROVE Once(Append(q, m))
  <2> SUFFICES ASSUME NEW i \in DOMAIN Append(q, m), NEW j \in DOMAIN Append(q, m),
                      Append(q, m)[i] = Append(q, m)[j]
               PROVE  i = j
    BY DEF Once
  <2>1. CASE i \in DOMAIN q /\ j \in DOMAIN q
    BY <1>1, <1>3, <2>1 DEF Once
  <2>2. CASE i \notin DOMAIN q /\ j \notin DOMAIN q
    BY <1>1, <2>2
  <2>3. CASE i \in DOMAIN q /\ j \notin DOMAIN q
    BY <1>1, <1>3, <2>3 DEF ToSet, Seqs!ToSet
  <2>4. CASE i \notin DOMAIN q /\ j \in DOMAIN q
    BY <1>1, <1>3, <2>4 DEF ToSet, Seqs!ToSet
  <2> QED BY <2>1, <2>2, <2>3, <2>4
<1> QED BY <1>1, <1>2, <1>3

\* Concatenating two lists with nothing in common.
LEMMA ConcatFacts ==
  ASSUME NEW S, NEW q \in Seq(S), NEW r \in Seq(S)
  PROVE  /\ q \o r \in Seq(S) /\ ToSet(q \o r) = ToSet(q) \cup ToSet(r)
         /\ Once(q) /\ Once(r) /\ ToSet(q) \cap ToSet(r) = {} => Once(q \o r)
<1>1. /\ q \o r \in Seq(S) /\ Len(q) \in Nat /\ Len(r) \in Nat
      /\ DOMAIN q = 1..Len(q) /\ DOMAIN r = 1..Len(r)
      /\ DOMAIN (q \o r) = 1..Len(q) + Len(r)
      /\ \A i \in 1..Len(q) + Len(r) :
           (q \o r)[i] = IF i <= Len(q) THEN q[i] ELSE r[i - Len(q)]
  BY ConcatProperties
<1>2. ASSUME NEW i \in DOMAIN (q \o r), i \notin DOMAIN q
      PROVE  i - Len(q) \in DOMAIN r /\ (q \o r)[i] = r[i - Len(q)]
  BY <1>1, <1>2
<1>3. ASSUME NEW i \in DOMAIN q PROVE i \in DOMAIN (q \o r) /\ (q \o r)[i] = q[i]
  BY <1>1
<1>4. ASSUME NEW i \in DOMAIN r
      PROVE  Len(q) + i \in DOMAIN (q \o r) /\ (q \o r)[Len(q) + i] = r[i]
  <2>1. Len(q) + i \in 1..Len(q) + Len(r) /\ ~(Len(q) + i <= Len(q))
        /\ (Len(q) + i) - Len(q) = i
    BY <1>1
  <2> QED BY <1>1, <2>1
<1>5. ToSet(q \o r) = ToSet(q) \cup ToSet(r)
  <2>1. ASSUME NEW x \in ToSet(q \o r) PROVE x \in ToSet(q) \cup ToSet(r)
    BY <1>2, <1>3 DEF ToSet, Seqs!ToSet
  <2>2. ASSUME NEW x \in ToSet(q) \cup ToSet(r) PROVE x \in ToSet(q \o r)
    <3>1. CASE x \in ToSet(q)
      BY <1>3, <3>1 DEF ToSet, Seqs!ToSet
    <3>2. CASE x \in ToSet(r)
      BY <1>4, <3>2 DEF ToSet, Seqs!ToSet
    <3> QED BY <2>2, <3>1, <3>2
  <2> QED BY <2>1, <2>2
<1>6. ASSUME Once(q), Once(r), ToSet(q) \cap ToSet(r) = {} PROVE Once(q \o r)
  <2> SUFFICES ASSUME NEW i \in DOMAIN (q \o r), NEW j \in DOMAIN (q \o r),
                      (q \o r)[i] = (q \o r)[j]
               PROVE  i = j
    BY DEF Once
  <2>1. CASE i \in DOMAIN q /\ j \in DOMAIN q
    BY <1>3, <1>6, <2>1 DEF Once
  <2>2. CASE i \notin DOMAIN q /\ j \notin DOMAIN q
    <3>1. i - Len(q) = j - Len(q)
      BY <1>2, <1>6, <2>2 DEF Once
    <3> QED BY <1>1, <3>1
  <2>3. CASE i \in DOMAIN q /\ j \notin DOMAIN q
    <3>1. (q \o r)[j] \in ToSet(r)
      BY <1>2, <2>3 DEF ToSet, Seqs!ToSet
    <3>2. (q \o r)[i] \in ToSet(q)
      BY <1>3, <2>3 DEF ToSet, Seqs!ToSet
    <3> QED BY <1>6, <3>1, <3>2
  <2>4. CASE i \notin DOMAIN q /\ j \in DOMAIN q
    <3>1. (q \o r)[i] \in ToSet(r)
      BY <1>2, <2>4 DEF ToSet, Seqs!ToSet
    <3>2. (q \o r)[j] \in ToSet(q)
      BY <1>3, <2>4 DEF ToSet, Seqs!ToSet
    <3> QED BY <1>6, <3>1, <3>2
  <2> QED BY <2>1, <2>2, <2>3, <2>4
<1> QED BY <1>1, <1>5, <1>6

\* Taking the first element off.
LEMMA TailFacts ==
  ASSUME NEW S, NEW q \in Seq(S), q # <<>>, Once(q)
  PROVE  /\ Head(q) \in S /\ Tail(q) \in Seq(S) /\ Once(Tail(q))
         /\ ToSet(q) = {Head(q)} \cup ToSet(Tail(q)) /\ Head(q) \notin ToSet(Tail(q))
         /\ \A i \in DOMAIN Tail(q) : /\ i + 1 \in DOMAIN q /\ Tail(q)[i] = q[i + 1]
                                      /\ 1 \in DOMAIN q /\ q[1] = Head(q)
<1>1. /\ Len(q) \in Nat /\ Len(q) >= 1 /\ DOMAIN q = 1..Len(q)
      /\ Head(q) = q[1] /\ Head(q) \in S /\ Tail(q) \in Seq(S)
      /\ DOMAIN Tail(q) = 1..Len(q) - 1
      /\ \A i \in 1..Len(q) - 1 : Tail(q)[i] = q[i + 1]
  OBVIOUS
<1>2. \A i \in DOMAIN Tail(q) : i + 1 \in DOMAIN q /\ Tail(q)[i] = q[i + 1] /\ i + 1 # 1
  BY <1>1
<1>3. ASSUME NEW i \in DOMAIN q, i # 1
      PROVE  i - 1 \in DOMAIN Tail(q) /\ Tail(q)[i - 1] = q[i]
  <2>1. i - 1 \in 1..Len(q) - 1 /\ (i - 1) + 1 = i
    BY <1>1, <1>3
  <2> QED BY <1>1, <2>1
<1>4. 1 \in DOMAIN q
  BY <1>1
<1>5. Once(Tail(q))
  <2> SUFFICES ASSUME NEW i \in DOMAIN Tail(q), NEW j \in DOMAIN Tail(q),
                      Tail(q)[i] = Tail(q)[j]
               PROVE  i = j
    BY DEF Once
  <2>1. i + 1 = j + 1
    BY <1>2 DEF Once
  <2> QED BY <1>1, <2>1
<1>6. Head(q) \notin ToSet(Tail(q))
  BY <1>1, <1>2, <1>4 DEF ToSet, Seqs!ToSet, Once
<1>7. ToSet(q) = {Head(q)} \cup ToSet(Tail(q))
  <2>1. ASSUME NEW x \in ToSet(q) PROVE x \in {Head(q)} \cup ToSet(Tail(q))
    <3>1. PICK i \in DOMAIN q : x = q[i]
      BY DEF ToSet, Seqs!ToSet
    <3>2. CASE i = 1
      BY <1>1, <3>1, <3>2
    <3>3. CASE i # 1
      BY <1>3, <3>1, <3>3 DEF ToSet, Seqs!ToSet
    <3> QED BY <3>2, <3>3
  <2>2. ASSUME NEW x \in {Head(q)} \cup ToSet(Tail(q)) PROVE x \in ToSet(q)
    BY <1>1, <1>2, <1>4 DEF ToSet, Seqs!ToSet
  <2> QED BY <2>1, <2>2
<1> QED BY <1>1, <1>2, <1>4, <1>5, <1>6, <1>7

\* Taking out the element at k: what is left keeps its order.
LEMMA RemoveAtFacts ==
  ASSUME NEW S, NEW q \in Seq(S), NEW k \in DOMAIN q, Once(q),
         NEW w, w = Seqs!RemoveAt(q, k)
  PROVE  /\ w \in Seq(S) /\ Once(w) /\ ToSet(w) = ToSet(q) \ {q[k]}
         /\ \A a, b \in DOMAIN w : a < b =>
              \E c, d \in DOMAIN q : c < d /\ w[a] = q[c] /\ w[b] = q[d]
<1> PICK n \in Nat : n = Len(q)
  OBVIOUS
<1> DEFINE u == SubSeq(q, 1, k - 1)
           v == SubSeq(q, k + 1, n)
           at(i) == IF i < k THEN i ELSE i + 1
<1>1. DOMAIN q = 1..n /\ k \in 1..n
  OBVIOUS
<1>2. u \in Seq(S) /\ Len(u) = k - 1 /\ \A i \in 1..k - 1 : u[i] = q[i]
  BY <1>1
<1>3. v \in Seq(S) /\ Len(v) = n - k /\ \A i \in 1..n - k : v[i] = q[k + i]
  BY <1>1
<1>4. w = u \o v
  BY DEF Seqs!RemoveAt
<1> HIDE DEF u, v
<1>5. /\ w \in Seq(S) /\ Len(w) = Len(u) + Len(v)
      /\ \A i \in 1..Len(u) + Len(v) : w[i] = IF i <= Len(u) THEN u[i] ELSE v[i - Len(u)]
  <2>1. /\ u \o v \in Seq(S) /\ Len(u \o v) = Len(u) + Len(v)
        /\ \A i \in 1..Len(u) + Len(v) :
             (u \o v)[i] = IF i <= Len(u) THEN u[i] ELSE v[i - Len(u)]
    BY <1>2, <1>3, ConcatProperties
  <2> QED BY <1>4, <2>1
<1>6. Len(w) = n - 1 /\ DOMAIN w = 1..n - 1
  <2>1. Len(u) = k - 1 /\ Len(v) = n - k
    BY <1>2, <1>3
  <2>2. k \in Nat /\ (k - 1) + (n - k) = n - 1
    BY <1>1
  <2>3. Len(w) = n - 1
    BY <1>5, <2>1, <2>2
  <2> QED BY <1>5, <2>3
<1>7. ASSUME NEW i \in DOMAIN w PROVE at(i) \in DOMAIN q /\ at(i) # k /\ w[i] = q[at(i)]
  <2>1. i \in 1..Len(u) + Len(v)
    BY <1>5
  <2>2. CASE i < k
    <3>1. i <= Len(u) /\ i \in 1..k - 1 /\ at(i) = i /\ i \in 1..n
      BY <1>1, <1>2, <1>6, <2>2
    <3> QED BY <1>1, <1>2, <1>5, <2>1, <2>2, <3>1
  <2>3. CASE ~(i < k)
    <3>1. ~(i <= Len(u)) /\ i - Len(u) = i - (k - 1) /\ i - (k - 1) \in 1..n - k
      BY <1>1, <1>2, <1>6, <2>3
    <3>2. at(i) = i + 1 /\ i + 1 \in 1..n /\ i + 1 # k /\ k + (i - (k - 1)) = i + 1
      BY <1>1, <1>6, <2>3
    <3>3. w[i] = v[i - (k - 1)]
      BY <1>5, <2>1, <3>1
    <3> QED BY <1>1, <1>3, <3>1, <3>2, <3>3
  <2> QED BY <2>2, <2>3
<1>8. ASSUME NEW j \in DOMAIN q, j # k PROVE \E i \in DOMAIN w : at(i) = j
  <2>1. CASE j < k
    <3>1. j \in DOMAIN w /\ at(j) = j
      BY <1>1, <1>6, <2>1
    <3> QED BY <3>1
  <2>2. CASE ~(j < k)
    <3>1. j - 1 \in DOMAIN w /\ at(j - 1) = j
      BY <1>1, <1>6, <1>8, <2>2
    <3> QED BY <3>1
  <2> QED BY <2>1, <2>2
<1>9. \A a, b \in DOMAIN w : (a < b => at(a) < at(b)) /\ (at(a) = at(b) => a = b)
  BY <1>1, <1>6
<1> HIDE DEF at
<1>10. Once(w)
  BY <1>7, <1>9 DEF Once
<1>11. ToSet(w) = ToSet(q) \ {q[k]}
  <2>1. ASSUME NEW x \in ToSet(w) PROVE x \in ToSet(q) \ {q[k]}
    BY <1>7 DEF ToSet, Seqs!ToSet, Once
  <2>2. ASSUME NEW x \in ToSet(q) \ {q[k]} PROVE x \in ToSet(w)
    <3>1. PICK j \in DOMAIN q : x = q[j]
      BY DEF ToSet, Seqs!ToSet
    <3>2. PICK i \in DOMAIN w : at(i) = j
      BY <1>8, <3>1, <2>2
    <3> QED BY <1>7, <3>1, <3>2 DEF ToSet, Seqs!ToSet
  <2> QED BY <2>1, <2>2
<1> QED BY <1>5, <1>7, <1>9, <1>10, <1>11

-----------------------------------------------------------------------------
(* Lemmas about the movements of messages *)

Sending == [message : Message, to : Target, wakeup : BOOLEAN]

MsgType ==
  /\ nextTurn \in Seq(Message) /\ nextStep \in Seq(Message)
  /\ batch \in Seq(Message) /\ said \in Seq(Message) /\ gone \subseteq Message
  /\ sent \in Seq(Sending) /\ prompts \in Nat

MsgInv == ListInv /\ OneFate /\ PromptInv /\ OrderInv

msgs == <<nextTurn, nextStep, batch, said, gone, sent, prompts>>

\* The empty list.
LEMMA EmptyFacts ==
  <<>> \in Seq(Message) /\ ToSet(<<>>) = {} /\ Once(<<>>) /\ DOMAIN <<>> = {}
<1>1. DOMAIN <<>> = {}
  OBVIOUS
<1> QED BY <1>1 DEF ToSet, Seqs!ToSet, Once

\* What holds of sets of messages holds of their parts.
LEMMA PrecedesParts ==
  ASSUME NEW q, NEW S, NEW T, Precedes(q, S, T)
  PROVE  \A U \in SUBSET S, V \in SUBSET T : Precedes(q, U, V)
  BY DEF Precedes

\* An invariant of messages outlives a step that moves none.
LEMMA MsgsKept ==
  ASSUME MsgType, MsgInv, UNCHANGED msgs
  PROVE  MsgType' /\ MsgInv' /\ Pending' = Pending /\ Sent' = Sent
<1> USE DEF msgs
<1>1. MsgType'
  BY DEF MsgType
<1>2. ListInv'
  BY DEF MsgInv, ListInv
<1>3. Pending' = Pending /\ Sent' = Sent
  BY DEF Pending, Sent
<1>4. OneFate'
  BY <1>3 DEF MsgInv, OneFate
<1>5. PromptInv'
  BY DEF MsgInv, PromptInv, OnePromptPerTurn, ToPrompt
<1>6. OrderInv'
  BY DEF MsgInv, OrderInv, Ordered
<1> QED BY <1>1, <1>2, <1>3, <1>4, <1>5, <1>6 DEF MsgInv

\* A message sent for the first time comes after every other.
LEMMA SendFacts ==
  ASSUME MsgType, ListInv, NEW s \in Sending, s.message \notin Sent,
         sent' = Append(sent, s)
  PROVE  /\ sent' \in Seq(Sending) /\ Sent' = Sent \cup {s.message}
         /\ DOMAIN sent = 1..Len(sent) /\ DOMAIN sent' = 1..Len(sent) + 1
         /\ Len(sent) \in Nat /\ sent'[Len(sent) + 1] = s
         /\ \A i \in DOMAIN sent : sent'[i] = sent[i] /\ sent[i].message # s.message
         /\ \A S, T : Precedes(sent, S, T) /\ S \subseteq Sent =>
              Precedes(sent', S, T \cup {s.message}) /\ Precedes(sent', S, T)
<1>1. /\ sent' \in Seq(Sending) /\ Len(sent) \in Nat /\ DOMAIN sent = 1..Len(sent)
      /\ DOMAIN sent' = 1..Len(sent) + 1 /\ sent'[Len(sent) + 1] = s
      /\ \A i \in 1..Len(sent) : sent'[i] = sent[i]
  BY DEF MsgType
<1>2. \A i \in DOMAIN sent : sent[i].message # s.message
  BY DEF Sent
<1>3. Sent' = Sent \cup {s.message}
  <2>1. ASSUME NEW x \in Sent' PROVE x \in Sent \cup {s.message}
    BY <1>1 DEF Sent
  <2>2. ASSUME NEW x \in Sent PROVE x \in Sent'
    <3>1. PICK i \in DOMAIN sent : x = sent[i].message
      BY DEF Sent
    <3>2. i \in DOMAIN sent' /\ sent'[i] = sent[i]
      BY <1>1
    <3> QED BY <3>1, <3>2 DEF Sent
  <2>3. s.message \in Sent'
    <3>1. Len(sent) + 1 \in DOMAIN sent'
      BY <1>1
    <3> QED BY <1>1, <3>1 DEF Sent
  <2> QED BY <2>1, <2>2, <2>3
<1>4. ASSUME NEW S, NEW T, Precedes(sent, S, T), S \subseteq Sent
      PROVE  Precedes(sent', S, T \cup {s.message})
  <2> SUFFICES ASSUME NEW i \in DOMAIN sent', NEW j \in DOMAIN sent',
                      sent'[i].message \in S, sent'[j].message \in T \cup {s.message},
                      sent'[i].to = "next-turn", sent'[j].to = "next-turn"
               PROVE  i < j
    BY DEF Precedes
  <2>1. i # Len(sent) + 1
    BY <1>1, <1>4
  <2>2. i \in DOMAIN sent
    BY <1>1, <2>1
  <2>3. CASE j = Len(sent) + 1
    BY <1>1, <2>2, <2>3
  <2>4. CASE j # Len(sent) + 1
    <3>1. j \in DOMAIN sent
      BY <1>1, <2>4
    <3> QED BY <1>1, <1>2, <1>4, <2>2, <3>1 DEF Precedes
  <2> QED BY <2>3, <2>4
<1>5. ASSUME NEW S, NEW T, Precedes(sent, S, T), S \subseteq Sent
      PROVE  Precedes(sent', S, T)
  <2>1. Precedes(sent', S, T \cup {s.message})
    BY <1>4, <1>5
  <2> QED BY <2>1 DEF Precedes
<1> QED BY <1>1, <1>2, <1>3, <1>4, <1>5

\* send, and a tool's context message: one fresh message is queued in its list.
LEMMA MsgsSent ==
  ASSUME MsgType, MsgInv, NEW s \in Sending, s.message \notin Sent,
         sent' = Append(sent, s), UNCHANGED <<batch, said, gone, prompts>>,
         \/ /\ s.to = "next-turn" /\ nextTurn' = Append(nextTurn, s.message)
            /\ UNCHANGED nextStep
         \/ /\ s.to = "next-step" /\ nextStep' = Append(nextStep, s.message)
            /\ UNCHANGED nextTurn
  PROVE  /\ MsgType' /\ MsgInv'
         /\ Sent' = Sent \cup {s.message} /\ Pending' = Pending \cup {s.message}
<1> DEFINE m == s.message
<1>1. m \in Message /\ ListInv /\ OneFate /\ PromptInv /\ OrderInv
  BY DEF Sending, MsgInv
<1>2. /\ sent' \in Seq(Sending) /\ Sent' = Sent \cup {m}
      /\ DOMAIN sent = 1..Len(sent) /\ DOMAIN sent' = 1..Len(sent) + 1
      /\ Len(sent) \in Nat /\ sent'[Len(sent) + 1] = s
      /\ \A i \in DOMAIN sent : sent'[i] = sent[i] /\ sent[i].message # m
      /\ \A S, T : Precedes(sent, S, T) /\ S \subseteq Sent =>
           Precedes(sent', S, T \cup {m}) /\ Precedes(sent', S, T)
  BY <1>1, SendFacts
<1>3. /\ ToSet(nextTurn) \subseteq Sent /\ ToSet(nextStep) \subseteq Sent
      /\ ToSet(batch) \subseteq Sent /\ ToSet(said) \subseteq Sent /\ gone \subseteq Sent
  BY <1>1 DEF OneFate, Pending
<1>4. \/ /\ s.to = "next-turn" /\ nextTurn' \in Seq(Message) /\ Once(nextTurn)'
         /\ ToSet(nextTurn)' = ToSet(nextTurn) \cup {m}
         /\ UNCHANGED nextStep
      \/ /\ s.to = "next-step" /\ nextStep' \in Seq(Message) /\ Once(nextStep)'
         /\ ToSet(nextStep)' = ToSet(nextStep) \cup {m}
         /\ UNCHANGED nextTurn
  <2>1. CASE s.to = "next-turn"
    <3>1. nextTurn' = Append(nextTurn, m) /\ UNCHANGED nextStep
      BY <2>1
    <3> QED BY <1>1, <1>3, <2>1, <3>1, AppendFacts DEF MsgType, OneFate
  <2>2. CASE s.to = "next-step"
    <3>1. nextStep' = Append(nextStep, m) /\ UNCHANGED nextTurn
      BY <2>2
    <3> QED BY <1>1, <1>3, <2>2, <3>1, AppendFacts DEF MsgType, OneFate
  <2> QED BY <2>1, <2>2
<1>5. MsgType'
  BY <1>2, <1>4 DEF MsgType
<1>6. Pending' = Pending \cup {m}
  BY <1>4 DEF Pending
<1>7. OneFate'
  <2>1. UNCHANGED <<ToSet(batch), ToSet(said)>>
    OBVIOUS
  <2>2. Once(said)' /\ Once(nextTurn)' /\ Once(nextStep)' /\ Once(batch)'
    BY <1>1, <1>4 DEF OneFate
  <2>3. ToSet(nextTurn)' \cap ToSet(nextStep)' = {}
    BY <1>1, <1>3, <1>4 DEF OneFate
  <2> QED BY <1>1, <1>2, <1>3, <1>6, <2>1, <2>2, <2>3 DEF OneFate
<1>8. ListInv'
  <2>1. \A i, j \in DOMAIN sent' : sent'[i].message = sent'[j].message => i = j
    BY <1>1, <1>2 DEF ListInv
  <2>2. ASSUME NEW i \in DOMAIN sent'
        PROVE  /\ sent'[i].message \in ToSet(nextTurn)' => sent'[i].to = "next-turn"
               /\ sent'[i].message \in ToSet(nextStep)' => sent'[i].to = "next-step"
    <3>1. CASE i \in DOMAIN sent
      BY <1>1, <1>2, <1>4, <3>1 DEF ListInv
    <3>2. CASE i \notin DOMAIN sent
      <4>1. sent'[i] = s
        BY <1>2, <3>2
      <4> QED BY <1>3, <1>4, <4>1
    <3> QED BY <3>1, <3>2
  <2> QED BY <2>1, <2>2 DEF ListInv
<1>9. PromptInv'
  <2>1. ASSUME NEW k \in DOMAIN batch, ToPrompt(batch[k])' PROVE ToPrompt(batch[k])
    <3>1. PICK i \in DOMAIN sent' :
            sent'[i].message = batch[k] /\ sent'[i].to = "next-turn"
      BY <2>1 DEF ToPrompt
    <3>2. batch[k] \in Sent
      BY <1>3 DEF ToSet, Seqs!ToSet
    <3>3. i \in DOMAIN sent
      BY <1>2, <3>1, <3>2
    <3> QED BY <1>2, <3>1, <3>3 DEF ToPrompt
  <2> QED BY <1>1, <2>1 DEF PromptInv, OnePromptPerTurn
<1>10. OrderInv'
  <2>1. \A S \in SUBSET Sent : \A T :
          Precedes(sent, S, T) => Precedes(sent', S, T \cup {m}) /\ Precedes(sent', S, T)
    BY <1>2
  <2>2. /\ Precedes(sent', ToSet(said), ToSet(batch))
        /\ Precedes(sent', ToSet(said), ToSet(nextTurn))
        /\ Precedes(sent', ToSet(said), ToSet(nextTurn) \cup {m})
        /\ Precedes(sent', ToSet(batch), ToSet(nextTurn))
        /\ Precedes(sent', ToSet(batch), ToSet(nextTurn) \cup {m})
    BY <1>1, <1>3, <2>1 DEF OrderInv
  <2>3. Precedes(sent', ToSet(said), ToSet(nextTurn)') /\ Precedes(sent', ToSet(batch), ToSet(nextTurn)')
    BY <1>4, <2>2
  <2>4. \A a, b \in DOMAIN nextTurn : a < b => Precedes(sent', {nextTurn[a]}, {nextTurn[b]})
    <3> SUFFICES ASSUME NEW a \in DOMAIN nextTurn, NEW b \in DOMAIN nextTurn, a < b
                 PROVE  Precedes(sent', {nextTurn[a]}, {nextTurn[b]})
      OBVIOUS
    <3>1. Precedes(sent, {nextTurn[a]}, {nextTurn[b]}) /\ {nextTurn[a]} \subseteq Sent
      BY <1>1, <1>3 DEF OrderInv, Ordered, ToSet, Seqs!ToSet
    <3> QED BY <2>1, <3>1
  <2>5. Ordered(sent', nextTurn')
    <3>1. CASE nextTurn' = nextTurn
      BY <2>4, <3>1 DEF Ordered
    <3>2. CASE nextTurn' = Append(nextTurn, m)
      <4> SUFFICES ASSUME NEW a \in DOMAIN nextTurn', NEW b \in DOMAIN nextTurn', a < b
                   PROVE  Precedes(sent', {nextTurn'[a]}, {nextTurn'[b]})
        BY DEF Ordered
      <4>1. /\ Len(nextTurn) \in Nat /\ DOMAIN nextTurn = 1..Len(nextTurn)
            /\ DOMAIN nextTurn' = 1..Len(nextTurn) + 1
            /\ nextTurn'[Len(nextTurn) + 1] = m
            /\ \A i \in 1..Len(nextTurn) : nextTurn'[i] = nextTurn[i]
        BY <1>1, <3>2 DEF MsgType
      <4>2. a \in DOMAIN nextTurn /\ nextTurn'[a] = nextTurn[a]
        BY <4>1
      <4>3. CASE b \in DOMAIN nextTurn
        BY <2>4, <4>1, <4>2, <4>3
      <4>4. CASE b \notin DOMAIN nextTurn
        <5>1. nextTurn'[b] = m
          BY <4>1, <4>4
        <5>2. {nextTurn[a]} \subseteq Sent
          BY <1>3, <4>2 DEF ToSet, Seqs!ToSet
        <5>3. Precedes(sent, {nextTurn[a]}, {}) /\ {} \cup {m} = {m}
          BY DEF Precedes
        <5> QED BY <2>1, <4>2, <5>1, <5>2, <5>3
      <4> QED BY <4>3, <4>4
    <3> QED BY <1>4, <3>1, <3>2
  <2> QED BY <2>2, <2>3, <2>5 DEF OrderInv
<1> QED BY <1>2, <1>5, <1>6, <1>7, <1>8, <1>9, <1>10 DEF MsgInv

\* What the lists and the order need when messages only leave the lists.
LEMMA ListsShrink ==
  ASSUME MsgType, ListInv, OrderInv, UNCHANGED sent,
         nextTurn' \in Seq(Message), nextStep' \in Seq(Message),
         ToSet(nextTurn)' \subseteq ToSet(nextTurn),
         ToSet(nextStep)' \subseteq ToSet(nextStep),
         \A a, b \in DOMAIN nextTurn' : a < b =>
           \E c, d \in DOMAIN nextTurn :
             c < d /\ nextTurn'[a] = nextTurn[c] /\ nextTurn'[b] = nextTurn[d]
  PROVE  ListInv' /\ Ordered(sent, nextTurn)'
<1>1. ListInv'
  BY DEF ListInv
<1>2. Ordered(sent, nextTurn)'
  BY DEF OrderInv, Ordered
<1> QED BY <1>1, <1>2

\* Inbox.remove: the message leaves its list for good.
LEMMA MsgsRemoved ==
  ASSUME MsgType, MsgInv, NEW m,
         \/ /\ \E i \in DOMAIN nextTurn :
                 nextTurn[i] = m /\ nextTurn' = Seqs!RemoveAt(nextTurn, i)
            /\ UNCHANGED nextStep
         \/ /\ \E i \in DOMAIN nextStep :
                 nextStep[i] = m /\ nextStep' = Seqs!RemoveAt(nextStep, i)
            /\ UNCHANGED nextTurn,
         gone' = gone \cup {m}, UNCHANGED <<batch, said, sent, prompts>>
  PROVE  MsgType' /\ MsgInv' /\ Pending' \subseteq Pending /\ Sent' = Sent
<1>1. ListInv /\ OneFate /\ PromptInv /\ OrderInv
  BY DEF MsgInv
<1> DEFINE Kept(q, w) == \A a, b \in DOMAIN w : a < b =>
              \E c, d \in DOMAIN q : c < d /\ w[a] = q[c] /\ w[b] = q[d]
<1>2. /\ nextTurn' \in Seq(Message) /\ Once(nextTurn)'
      /\ nextStep' \in Seq(Message) /\ Once(nextStep)'
      /\ ToSet(nextTurn)' = ToSet(nextTurn) \ {m}
      /\ ToSet(nextStep)' = ToSet(nextStep) \ {m}
      /\ m \in Pending /\ m \in Message /\ Kept(nextTurn, nextTurn')
  <2>1. CASE /\ \E i \in DOMAIN nextTurn :
                  nextTurn[i] = m /\ nextTurn' = Seqs!RemoveAt(nextTurn, i)
             /\ UNCHANGED nextStep
    <3>1. PICK i \in DOMAIN nextTurn :
            nextTurn[i] = m /\ nextTurn' = Seqs!RemoveAt(nextTurn, i)
      BY <2>1
    <3>2. /\ nextTurn' \in Seq(Message) /\ Once(nextTurn')
          /\ ToSet(nextTurn') = ToSet(nextTurn) \ {m}
          /\ Kept(nextTurn, nextTurn')
      BY <1>1, <3>1, RemoveAtFacts DEF MsgType, OneFate
    <3>3. m \in ToSet(nextTurn) /\ m \in Message
      BY <3>1 DEF ToSet, Seqs!ToSet, MsgType
    <3>4. ToSet(nextStep)' = ToSet(nextStep) \ {m}
      BY <1>1, <2>1, <3>3 DEF OneFate
    <3>5. nextStep' \in Seq(Message) /\ Once(nextStep)'
      BY <1>1, <2>1 DEF OneFate, MsgType
    <3> QED BY <3>2, <3>3, <3>4, <3>5 DEF Pending
  <2>2. CASE /\ \E i \in DOMAIN nextStep :
                  nextStep[i] = m /\ nextStep' = Seqs!RemoveAt(nextStep, i)
             /\ UNCHANGED nextTurn
    <3>1. PICK i \in DOMAIN nextStep :
            nextStep[i] = m /\ nextStep' = Seqs!RemoveAt(nextStep, i)
      BY <2>2
    <3>2. /\ nextStep' \in Seq(Message) /\ Once(nextStep')
          /\ ToSet(nextStep') = ToSet(nextStep) \ {m}
      BY <1>1, <3>1, RemoveAtFacts DEF MsgType, OneFate
    <3>3. m \in ToSet(nextStep) /\ m \in Message
      BY <3>1 DEF ToSet, Seqs!ToSet, MsgType
    <3>4. ToSet(nextTurn)' = ToSet(nextTurn) \ {m}
      BY <1>1, <2>2, <3>3 DEF OneFate
    <3>5. nextTurn' \in Seq(Message) /\ Once(nextTurn)' /\ Kept(nextTurn, nextTurn')
      BY <1>1, <2>2 DEF OneFate, MsgType
    <3> QED BY <3>2, <3>3, <3>4, <3>5 DEF Pending
  <2> QED BY <2>1, <2>2
<1>3. MsgType'
  BY <1>2 DEF MsgType
<1>4. Pending' = Pending \ {m} /\ Sent' = Sent
  BY <1>2 DEF Pending, Sent
<1>5. ListInv' /\ Ordered(sent, nextTurn)'
  BY <1>1, <1>2, ListsShrink
<1>6. OneFate'
  <2>1. UNCHANGED <<ToSet(batch), ToSet(said)>>
    OBVIOUS
  <2>2. Once(said)' /\ Once(nextTurn)' /\ Once(nextStep)' /\ Once(batch)'
    BY <1>1, <1>2 DEF OneFate
  <2>3. ToSet(nextTurn)' \cap ToSet(nextStep)' = {}
    BY <1>1, <1>2 DEF OneFate
  <2> QED BY <1>1, <1>2, <1>4, <2>1, <2>2, <2>3 DEF OneFate
<1>7. PromptInv'
  BY <1>1 DEF PromptInv, OnePromptPerTurn, ToPrompt
<1>8. OrderInv'
  BY <1>1, <1>2, <1>5, PrecedesParts DEF OrderInv, Precedes
<1> QED BY <1>3, <1>4, <1>5, <1>6, <1>7, <1>8 DEF MsgInv

\* Inbox.clear: every pending message is withdrawn.
LEMMA MsgsCleared ==
  ASSUME MsgType, MsgInv, nextTurn' = <<>>, nextStep' = <<>>,
         gone' = gone \cup Pending, UNCHANGED <<batch, said, sent, prompts>>
  PROVE  MsgType' /\ MsgInv' /\ Pending' = {} /\ Sent' = Sent
<1>1. ListInv /\ OneFate /\ PromptInv /\ OrderInv
  BY DEF MsgInv
<1>2. /\ ToSet(nextTurn)' = {} /\ ToSet(nextStep)' = {} /\ Once(nextTurn)'
      /\ Once(nextStep)' /\ DOMAIN nextTurn' = {} /\ Pending' = {} /\ Sent' = Sent
  BY EmptyFacts DEF Pending, Sent
<1>3. MsgType'
  BY <1>1 DEF MsgType, OneFate, Pending, ToSet, Seqs!ToSet
<1>4. ListInv' /\ Ordered(sent, nextTurn)'
  BY <1>1, <1>2, <1>3, ListsShrink DEF MsgType
<1>5. OneFate'
  <2>1. UNCHANGED <<ToSet(batch), ToSet(said)>>
    OBVIOUS
  <2>2. Once(said)' /\ Once(nextTurn)' /\ Once(nextStep)' /\ Once(batch)'
    BY <1>1, <1>2 DEF OneFate
  <2> QED BY <1>1, <1>2, <2>1, <2>2 DEF OneFate
<1>6. PromptInv'
  BY <1>1 DEF PromptInv, OnePromptPerTurn, ToPrompt
<1>7. OrderInv'
  BY <1>1, <1>2, <1>4 DEF OrderInv, Precedes
<1> QED BY <1>2, <1>3, <1>4, <1>5, <1>6, <1>7 DEF MsgInv

\* A claimed batch is dropped by the turn's end or by a listener.
LEMMA MsgsDropped ==
  ASSUME MsgType, MsgInv, batch' = <<>>, gone' = gone \cup ToSet(batch),
         UNCHANGED <<nextTurn, nextStep, said, sent, prompts>>
  PROVE  MsgType' /\ MsgInv' /\ Pending' = Pending /\ Sent' = Sent
<1>1. ListInv /\ OneFate /\ PromptInv /\ OrderInv
  BY DEF MsgInv
<1>2. /\ ToSet(batch)' = {} /\ Once(batch)' /\ DOMAIN batch' = {}
      /\ Pending' = Pending /\ Sent' = Sent
  BY EmptyFacts DEF Pending, Sent
<1>3. MsgType'
  BY EmptyFacts DEF MsgType, ToSet, Seqs!ToSet
<1>4. ListInv'
  BY <1>1 DEF ListInv
<1>5. OneFate'
  <2>1. UNCHANGED <<ToSet(nextTurn), ToSet(nextStep), ToSet(said)>>
    OBVIOUS
  <2>2. Once(said)' /\ Once(nextTurn)' /\ Once(nextStep)' /\ Once(batch)'
    BY <1>1, <1>2 DEF OneFate
  <2> QED BY <1>1, <1>2, <2>1, <2>2 DEF OneFate
<1>6. PromptInv'
  BY <1>1, <1>2 DEF PromptInv, OnePromptPerTurn
<1>7. OrderInv'
  BY <1>1, <1>2 DEF OrderInv, Precedes, Ordered
<1> QED BY <1>2, <1>3, <1>4, <1>5, <1>6, <1>7 DEF MsgInv

\* The admitted batch is logged; at most one message of it is a prompt.
LEMMA MsgsLogged ==
  ASSUME MsgType, MsgInv, said' = said \o batch, batch' = <<>>,
         prompts' = prompts + Cardinality({i \in DOMAIN batch : ToPrompt(batch[i])}),
         UNCHANGED <<nextTurn, nextStep, gone, sent>>
  PROVE  MsgType' /\ MsgInv' /\ Pending' = Pending /\ Sent' = Sent
<1>1. ListInv /\ OneFate /\ PromptInv /\ OrderInv
  BY DEF MsgInv
<1>2. /\ ToSet(batch)' = {} /\ Once(batch)' /\ DOMAIN batch' = {}
      /\ Pending' = Pending /\ Sent' = Sent
  BY EmptyFacts DEF Pending, Sent
<1>3. /\ said' \in Seq(Message) /\ ToSet(said)' = ToSet(said) \cup ToSet(batch)
      /\ Once(said)'
  <2>1. Once(said) /\ Once(batch) /\ ToSet(said) \cap ToSet(batch) = {}
    BY <1>1 DEF OneFate
  <2> QED BY <2>1, ConcatFacts DEF MsgType
<1>4. prompts' \in Nat /\ prompts' <= 1
  <2> DEFINE P == {i \in DOMAIN batch : ToPrompt(batch[i])}
  <2>1. CASE P = {}
    <3>1. Cardinality(P) = 0
      BY <2>1, FS_EmptySet
    <3>2. prompts' = prompts + 0 /\ prompts \in Nat /\ prompts <= 1
      BY <1>1, <3>1 DEF MsgType, PromptInv, OnePromptPerTurn
    <3> QED BY <3>2
  <2>2. CASE P # {}
    <3>1. P = {Len(batch)} /\ prompts = 0
      BY <1>1, <2>2 DEF PromptInv
    <3>2. Cardinality(P) = 1
      BY <3>1, FS_Singleton
    <3> QED BY <3>1, <3>2
  <2> QED BY <2>1, <2>2
<1>5. MsgType'
  BY <1>3, <1>4, EmptyFacts DEF MsgType
<1>6. ListInv'
  BY <1>1 DEF ListInv
<1>7. OneFate'
  <2>1. UNCHANGED <<ToSet(nextTurn), ToSet(nextStep)>>
    OBVIOUS
  <2>2. Once(said)' /\ Once(nextTurn)' /\ Once(nextStep)' /\ Once(batch)'
    BY <1>1, <1>2, <1>3 DEF OneFate
  <2> QED BY <1>1, <1>2, <1>3, <2>1, <2>2 DEF OneFate
<1>8. PromptInv'
  BY <1>2, <1>4 DEF PromptInv, OnePromptPerTurn
<1>9. OrderInv'
  <2>1. Precedes(sent, ToSet(said) \cup ToSet(batch), ToSet(nextTurn))
    BY <1>1 DEF OrderInv, Precedes
  <2>2. Precedes(sent, ToSet(said)', ToSet(nextTurn))
    BY <1>3, <2>1
  <2>3. Ordered(sent, nextTurn)'
    BY <1>1 DEF OrderInv, Ordered
  <2>4. \A S, T : S = {} \/ T = {} => Precedes(sent, S, T)
    BY DEF Precedes
  <2> QED BY <1>2, <2>2, <2>3, <2>4 DEF OrderInv
<1> QED BY <1>2, <1>5, <1>6, <1>7, <1>8, <1>9 DEF MsgInv

\* A turn opens: its prompts are counted anew.
LEMMA MsgsCounted ==
  ASSUME MsgType, MsgInv, batch = <<>>, prompts' = 0,
         UNCHANGED <<nextTurn, nextStep, batch, said, gone, sent>>
  PROVE  MsgType' /\ MsgInv' /\ Pending' = Pending /\ Sent' = Sent
<1>1. MsgType' /\ Pending' = Pending /\ Sent' = Sent
  BY DEF MsgType, Pending, Sent
<1>2. ListInv'
  BY DEF MsgInv, ListInv
<1>3. OneFate'
  BY <1>1 DEF MsgInv, OneFate
<1>4. PromptInv'
  BY DEF PromptInv, OnePromptPerTurn
<1>5. OrderInv'
  BY DEF MsgInv, OrderInv, Ordered
<1> QED BY <1>1, <1>2, <1>3, <1>4, <1>5 DEF MsgInv

\* A claim: the whole next-step list, and at a turn boundary the oldest prompt.
LEMMA MsgsClaimed ==
  ASSUME MsgType, MsgInv, batch = <<>>, NEW to,
         to = "next-turn" => prompts = 0,
         batch' = nextStep \o Prompts(to), nextStep' = <<>>,
         nextTurn' = IF Prompts(to) = <<>> THEN nextTurn ELSE Tail(nextTurn),
         UNCHANGED <<said, gone, sent, prompts>>
  PROVE  MsgType' /\ MsgInv' /\ Pending' \subseteq Pending /\ Sent' = Sent
<1> DEFINE r == Prompts(to)
<1>1. ListInv /\ OneFate /\ PromptInv /\ OrderInv
  BY DEF MsgInv
<1>2. /\ nextTurn' \in Seq(Message) /\ Once(nextTurn)' /\ r \in Seq(Message) /\ Once(r)
      /\ ToSet(r) \cap ToSet(nextTurn)' = {}
      /\ ToSet(nextTurn) = ToSet(r) \cup ToSet(nextTurn)'
      /\ Len(r) \in {0, 1} /\ (Len(r) = 1 => prompts = 0)
      /\ Precedes(sent, ToSet(r), ToSet(nextTurn)')
      /\ \A a, b \in DOMAIN nextTurn' : a < b =>
           \E c, d \in DOMAIN nextTurn :
             c < d /\ nextTurn'[a] = nextTurn[c] /\ nextTurn'[b] = nextTurn[d]
  <2>1. CASE to = "next-turn" /\ nextTurn # <<>>
    <3>1. r = <<Head(nextTurn)>> /\ r # <<>> /\ nextTurn' = Tail(nextTurn)
      BY <2>1 DEF Prompts
    <3>2. nextTurn \in Seq(Message) /\ Once(nextTurn)
      BY <1>1 DEF MsgType, OneFate
    <3>3. /\ Head(nextTurn) \in Message /\ nextTurn' \in Seq(Message) /\ Once(nextTurn')
          /\ ToSet(nextTurn) = {Head(nextTurn)} \cup ToSet(nextTurn')
          /\ Head(nextTurn) \notin ToSet(nextTurn')
          /\ \A i \in DOMAIN nextTurn' :
               /\ i + 1 \in DOMAIN nextTurn /\ nextTurn'[i] = nextTurn[i + 1]
               /\ 1 \in DOMAIN nextTurn /\ nextTurn[1] = Head(nextTurn)
      BY <2>1, <3>1, <3>2, TailFacts
    <3>4. r \in Seq(Message) /\ Once(r) /\ ToSet(r) = {Head(nextTurn)} /\ Len(r) = 1
      <4>1. r \in Seq(Message) /\ Len(r) = 1 /\ DOMAIN r = {1} /\ r[1] = Head(nextTurn)
        BY <3>1, <3>3
      <4> QED BY <4>1 DEF ToSet, Seqs!ToSet, Once
    <3>5. Precedes(sent, {Head(nextTurn)}, ToSet(nextTurn'))
      <4> SUFFICES ASSUME NEW x \in ToSet(nextTurn')
                   PROVE  Precedes(sent, {Head(nextTurn)}, {x})
        BY DEF Precedes
      <4>1. PICK i \in DOMAIN nextTurn' : x = nextTurn'[i]
        BY DEF ToSet, Seqs!ToSet
      <4>2. 1 < i + 1
        BY <3>3, <4>1
      <4> QED BY <1>1, <3>3, <4>1, <4>2 DEF OrderInv, Ordered
    <3>6. \A a, b \in DOMAIN nextTurn' : a < b => a + 1 < b + 1
      BY <3>3
    <3> QED BY <2>1, <3>3, <3>4, <3>5, <3>6
  <2>2. CASE ~(to = "next-turn" /\ nextTurn # <<>>)
    <3>1. r = <<>> /\ nextTurn' = nextTurn
      BY <2>2 DEF Prompts
    <3> HIDE DEF r
    <3>2. Precedes(sent, {}, ToSet(nextTurn))
      BY DEF Precedes
    <3>3. ToSet(r) = {} /\ r \in Seq(Message) /\ Once(r) /\ Len(r) = 0
      BY <3>1, EmptyFacts
    <3>4. nextTurn' \in Seq(Message) /\ Once(nextTurn)'
      BY <1>1, <3>1 DEF MsgType, OneFate
    <3>5. ToSet(nextTurn)' = ToSet(nextTurn) /\ Precedes(sent, {}, ToSet(nextTurn)')
      BY <3>1, <3>2
    <3>6. \A a, b \in DOMAIN nextTurn' : a < b =>
            \E c, d \in DOMAIN nextTurn :
              c < d /\ nextTurn'[a] = nextTurn[c] /\ nextTurn'[b] = nextTurn[d]
      <4>1. nextTurn' = nextTurn
        BY <3>1
      <4> QED BY <4>1, Zenon
    <3> QED BY <3>3, <3>4, <3>5, <3>6
  <2> QED BY <2>1, <2>2
<1>3. /\ ToSet(nextStep)' = {} /\ Once(nextStep)' /\ nextStep' \in Seq(Message)
  BY EmptyFacts
<1>4. /\ batch' \in Seq(Message) /\ ToSet(batch)' = ToSet(nextStep) \cup ToSet(r)
      /\ Once(batch)'
  <2>1. Once(nextStep) /\ ToSet(nextStep) \cap ToSet(r) = {}
    BY <1>1, <1>2 DEF OneFate
  <2> QED BY <1>2, <2>1, ConcatFacts DEF MsgType
<1>5. MsgType'
  BY <1>2, <1>3, <1>4 DEF MsgType
<1>6. Pending' = ToSet(nextTurn)' /\ Sent' = Sent /\ ToSet(nextTurn)' \subseteq Pending
  BY <1>2, <1>3 DEF Pending, Sent
<1>7. ListInv' /\ Ordered(sent, nextTurn)'
  BY <1>1, <1>2, <1>3, ListsShrink
<1>8. OneFate'
  <2>1. UNCHANGED ToSet(said) /\ ToSet(batch) = {}
    BY EmptyFacts
  <2>2. Once(said)' /\ Once(nextTurn)' /\ Once(nextStep)' /\ Once(batch)'
    BY <1>1, <1>2, <1>3, <1>4 DEF OneFate
  <2>3. Pending = ToSet(nextTurn)' \cup ToSet(batch)'
    BY <1>2, <1>4 DEF Pending
  <2>4. ToSet(nextTurn)' \cap ToSet(batch)' = {}
    BY <1>1, <1>2, <1>4 DEF OneFate
  <2> QED BY <1>1, <1>3, <1>6, <2>1, <2>2, <2>3, <2>4 DEF OneFate
<1>9. PromptInv'
  <2> SUFFICES ASSUME NEW i \in DOMAIN batch',
                      \E k \in DOMAIN sent : /\ sent[k].message = batch'[i]
                                             /\ sent[k].to = "next-turn"
               PROVE  i = Len(batch') /\ prompts = 0
    BY <1>1 DEF PromptInv, OnePromptPerTurn, ToPrompt
  <2>1. /\ Len(nextStep) \in Nat /\ DOMAIN nextStep = 1..Len(nextStep)
        /\ DOMAIN r = 1..Len(r) /\ Len(batch') = Len(nextStep) + Len(r)
        /\ DOMAIN batch' = 1..Len(nextStep) + Len(r)
        /\ \A k \in 1..Len(nextStep) + Len(r) :
             batch'[k] = IF k <= Len(nextStep) THEN nextStep[k] ELSE r[k - Len(nextStep)]
    <3>1. nextStep \in Seq(Message) /\ r \in Seq(Message) /\ batch' = nextStep \o r
      BY <1>2 DEF MsgType
    <3>2. /\ Len(nextStep \o r) = Len(nextStep) + Len(r)
          /\ DOMAIN (nextStep \o r) = 1..Len(nextStep) + Len(r)
          /\ \A k \in 1..Len(nextStep) + Len(r) :
               (nextStep \o r)[k] = IF k <= Len(nextStep) THEN nextStep[k]
                                   ELSE r[k - Len(nextStep)]
      BY <3>1, ConcatProperties
    <3>3. /\ Len(nextStep) \in Nat /\ DOMAIN nextStep = 1..Len(nextStep)
          /\ DOMAIN r = 1..Len(r)
      BY <3>1
    <3> QED BY <3>1, <3>2, <3>3
  <2>2. PICK k \in DOMAIN sent : sent[k].message = batch'[i] /\ sent[k].to = "next-turn"
    OBVIOUS
  <2>3. CASE i <= Len(nextStep)
    <3>1. batch'[i] \in ToSet(nextStep)
      BY <2>1, <2>3 DEF ToSet, Seqs!ToSet
    <3> QED BY <1>1, <2>2, <3>1 DEF ListInv
  <2>4. CASE ~(i <= Len(nextStep))
    <3>1. Len(r) = 1
      BY <1>2, <2>1, <2>4
    <3> QED BY <1>2, <2>1, <2>4, <3>1
  <2> QED BY <2>3, <2>4
<1>10. OrderInv'
  <2>1. Precedes(sent, ToSet(said), ToSet(batch)')
    <3> SUFFICES ASSUME NEW i \in DOMAIN sent, NEW j \in DOMAIN sent,
                        sent[i].message \in ToSet(said), sent[j].message \in ToSet(batch)',
                        sent[i].to = "next-turn", sent[j].to = "next-turn"
                 PROVE  i < j
      BY DEF Precedes
    <3>1. sent[j].message \in ToSet(nextTurn)
      BY <1>1, <1>2, <1>4 DEF ListInv
    <3> QED BY <1>1, <3>1 DEF OrderInv, Precedes
  <2>2. Precedes(sent, ToSet(batch)', ToSet(nextTurn)')
    <3> SUFFICES ASSUME NEW i \in DOMAIN sent, NEW j \in DOMAIN sent,
                        sent[i].message \in ToSet(batch)',
                        sent[j].message \in ToSet(nextTurn)',
                        sent[i].to = "next-turn", sent[j].to = "next-turn"
                 PROVE  i < j
      BY DEF Precedes
    <3>1. sent[i].message \in ToSet(r)
      BY <1>1, <1>4 DEF ListInv
    <3> QED BY <1>2, <3>1 DEF Precedes
  <2>3. Precedes(sent, ToSet(said), ToSet(nextTurn)')
    BY <1>1, <1>2 DEF OrderInv, Precedes
  <2> QED BY <1>7, <2>1, <2>2, <2>3 DEF OrderInv
<1> QED BY <1>5, <1>6, <1>7, <1>8, <1>9, <1>10 DEF MsgInv

-----------------------------------------------------------------------------
(* Lemmas about the log and the phase *)

TraceType ==
  [openTurn : Nat, openStep : Nat, nextTurn : Nat, nextStep : Nat,
   calls : SUBSET {"call"}, ok : BOOLEAN]

CtlType ==
  /\ phase \in {"idle", "maintenance", "running"}
  /\ turn \in Nat /\ step \in Nat
  /\ cause \in {"none", "user", "disposed"} /\ latch \in {"none", "set"}
  /\ pc \in {"none", "replay"} \cup {"starting", "closed", "exiting"}
            \cup Between \cup Inside
  /\ pc \notin {"none", "replay"} <=> phase = "running"
  /\ target \in Target /\ decision \in {"none", "reject", "empty", "some"}
  /\ result \in {"null", "completed", "max-tokens", "throw"}
  /\ turnEnds \in EndReason \cup {"none"} /\ latched \subseteq Message
  /\ trace \in TraceType
  /\ exit \in {"none", "aborted", "error", "blocked", "empty", "drained", "late"}
  /\ disposal \in {"none", "converging", "quiet"}

\* The type invariant, by the parts of the state.
LEMMA TypeParts == TypeOK <=> MsgType /\ CtlType
<1>1. {"none", "replay"} \cup {"starting", "closed", "exiting"} \cup Between \cup Inside
      = {"none", "replay", "starting", "opened", "preStep", "decided", "stepped",
         "model", "tools", "stepDone", "stepEnded", "stopping", "failing", "closed",
         "exiting"}
  BY DEF Between, Inside
<1> QED BY <1>1 DEF TypeOK, MsgType, CtlType, Sending, TraceType

\* The inductive invariant, by the parts of the state.
LEMMA Parts ==
  IInv <=> /\ MsgType /\ MsgInv /\ CtlType
           /\ TraceInv /\ PhaseInv /\ WakeInv /\ BatchInv
  BY TypeParts DEF IInv, MsgInv

\* w is the trace tr with other counters.
Counts(tr, w, openTurn, nextTurn0, openStep, nextStep0) ==
  /\ w \in TraceType /\ w.ok = tr.ok
  /\ w.openTurn = openTurn /\ w.nextTurn = nextTurn0
  /\ w.openStep = openStep /\ w.nextStep = nextStep0

\* What each event the driver logs makes of the trace.
LEMMA EventFacts ==
  ASSUME NEW tr \in TraceType, NEW n \in Nat, NEW s \in Nat
  PROVE  /\ tr.openTurn = 0 /\ tr.nextTurn = n =>
              Counts(tr, Record(tr, TurnStart(n)), n, n, tr.openStep, 1)
         /\ tr.openTurn = n /\ tr.openStep = 0 /\ tr.nextTurn = n =>
              \A reason :
                Counts(tr, Record(tr, TurnEnd(n, reason)), 0, n + 1, 0, tr.nextStep)
         /\ tr.openTurn = n /\ tr.openStep = 0 /\ tr.nextStep = s =>
              Counts(tr, Record(tr, StepStart(n, s)), n, tr.nextTurn, s, s)
         /\ tr.openTurn = n /\ tr.openStep = s /\ tr.nextStep = s =>
              /\ Counts(tr, Record(tr, StepEnd(n, s)), n, tr.nextTurn, 0, s + 1)
              /\ Record(tr, AssistantMessage(n, s, <<>>)) = tr
              /\ Counts(tr, Record(tr, ToolCall(n, s, "call")), n, tr.nextTurn, s, s)
              /\ Counts(tr, Record(Record(tr, ToolCall(n, s, "call")),
                                   ToolResult(n, s, "call", "none")),
                        n, tr.nextTurn, s, s)
<1> USE DEF Record, Accepts, Advance, NamesOpenStep, Counts, TraceType
<1>1. ASSUME tr.openTurn = 0, tr.nextTurn = n
      PROVE  Counts(tr, Record(tr, TurnStart(n)), n, n, tr.openStep, 1)
  BY <1>1 DEF TurnStart
<1>2. ASSUME tr.openTurn = n, tr.openStep = 0, tr.nextTurn = n, NEW reason
      PROVE  Counts(tr, Record(tr, TurnEnd(n, reason)), 0, n + 1, 0, tr.nextStep)
  <2>1. Record(tr, TurnEnd(n, reason)) =
          [tr EXCEPT !.openTurn = 0, !.nextTurn = tr.nextTurn + 1]
    BY <1>2 DEF TurnEnd
  <2>2. n + 1 \in Nat
    OBVIOUS
  <2> HIDE DEF Record
  <2> QED BY <1>2, <2>1, <2>2
<1>3. ASSUME tr.openTurn = n, tr.openStep = 0, tr.nextStep = s
      PROVE  Counts(tr, Record(tr, StepStart(n, s)), n, tr.nextTurn, s, s)
  BY <1>3 DEF StepStart
<1>4. ASSUME tr.openTurn = n, tr.openStep = s, tr.nextStep = s
      PROVE  /\ Counts(tr, Record(tr, StepEnd(n, s)), n, tr.nextTurn, 0, s + 1)
             /\ Record(tr, AssistantMessage(n, s, <<>>)) = tr
  <2>1. Record(tr, StepEnd(n, s)) =
          [tr EXCEPT !.openStep = 0, !.nextStep = s + 1, !.calls = {}]
    BY <1>4 DEF StepEnd
  <2>2. Record(tr, AssistantMessage(n, s, <<>>)) = tr
    BY <1>4 DEF AssistantMessage
  <2>3. s + 1 \in Nat /\ {} \in SUBSET {"call"}
    OBVIOUS
  <2>4. Counts(tr, [tr EXCEPT !.openStep = 0, !.nextStep = s + 1, !.calls = {}],
               n, tr.nextTurn, 0, s + 1)
    BY <1>4, <2>3
  <2> HIDE DEF Record, Counts
  <2> QED BY <2>1, <2>2, <2>4
<1>5. ASSUME tr.openTurn = n, tr.openStep = s, tr.nextStep = s
      PROVE  /\ Record(tr, ToolCall(n, s, "call")) = [tr EXCEPT !.calls = @ \cup {"call"}]
             /\ Counts(tr, Record(tr, ToolCall(n, s, "call")), n, tr.nextTurn, s, s)
  BY <1>5 DEF ToolCall
<1>6. ASSUME tr.openTurn = n, tr.openStep = s, tr.nextStep = s
      PROVE  Counts(tr, Record(Record(tr, ToolCall(n, s, "call")),
                               ToolResult(n, s, "call", "none")),
                    n, tr.nextTurn, s, s)
  <2> DEFINE w == [tr EXCEPT !.calls = @ \cup {"call"}]
  <2>1. /\ w \in TraceType /\ "call" \in w.calls /\ w.ok = tr.ok /\ w.openTurn = n
        /\ w.openStep = s /\ w.nextStep = s /\ w.nextTurn = tr.nextTurn
    BY <1>6
  <2> HIDE DEF w
  <2>2. Counts(w, Record(w, ToolResult(n, s, "call", "none")), n, tr.nextTurn, s, s)
    BY <2>1 DEF ToolResult
  <2>3. Record(tr, ToolCall(n, s, "call")) = w
    BY <1>5, <1>6 DEF w
  <2> HIDE DEF Record
  <2> QED BY <2>1, <2>2, <2>3
<1> HIDE DEF Record, Counts
<1> QED BY <1>1, <1>2, <1>3, <1>4, <1>5, <1>6

\* While a driver runs, nothing rests.
LEMMA StillRunning ==
  ASSUME PhaseInv, WakeInv, phase = "running", pc' \notin {"none", "replay", "exiting"},
         UNCHANGED <<phase, cause, latch, latched>>, Sent \subseteq Sent'
  PROVE  PhaseInv' /\ WakeInv'
<1>1. PhaseInv'
  BY DEF PhaseInv
<1>2. latched' \subseteq Sent' /\ (latch' = "none" => latched' = {})
  BY DEF WakeInv
<1>3. phase' = "running" /\ ~Rests' /\ LatchedWakesRun'
  BY DEF Rests, LatchedWakesRun
<1> QED BY <1>1, <1>2, <1>3 DEF WakeInv

\* A driver starts afresh.
LEMMA Started ==
  ASSUME StartDriver
  PROVE  PhaseInv' /\ WakeInv'
<1>1. /\ phase' = "running" /\ latched' = {} /\ latch' = "none" /\ pc' = "starting"
  BY DEF StartDriver
<1> QED BY <1>1 DEF PhaseInv, WakeInv, Rests, LatchedWakesRun

-----------------------------------------------------------------------------
(* The steps of callers *)

\* A message sent without a wake-up wakes nobody.
LEMMA SilentSend ==
  ASSUME MsgType, ListInv, NEW s \in Sending, s.message \notin Sent, ~s.wakeup,
         sent' = Append(sent, s), Pending' = Pending \cup {s.message}
  PROVE  Pending' \cap Waking' \subseteq Pending \cap Waking
<1> SUFFICES ASSUME NEW x \in Pending', x \in Waking'
             PROVE  x \in Pending /\ x \in Waking
  OBVIOUS
<1>1. PICK i \in DOMAIN sent' : x = sent'[i].message /\ sent'[i].wakeup
  BY DEF Waking, ToSet, Seqs!ToSet
<1>2. i \in DOMAIN sent /\ sent'[i] = sent[i] /\ sent[i].message # s.message
  BY <1>1, SendFacts
<1>3. sent[i] \in ToSet(sent)
  BY <1>2 DEF ToSet, Seqs!ToSet
<1> QED BY <1>1, <1>2, <1>3 DEF Waking

\* What a send does to the phase.
LEMMA SendWakes ==
  ASSUME CtlType, PhaseInv, WakeInv, NEW m \in Message, NEW after \in BOOLEAN,
         WakeDriver(after, {m}), m \in Sent', Sent \subseteq Sent',
         UNCHANGED <<exit, disposal, turn, target, decision, result, turnEnds, trace>>
  PROVE  /\ CtlType' /\ PhaseInv' /\ WakeInv'
         /\ UNCHANGED <<pc, step>> \/ (pc \in {"none", "replay"} /\ StartDriver)
<1>1. CASE phase = "idle"
  <2>1. StartDriver /\ pc \in {"none", "replay"}
    BY <1>1 DEF WakeDriver, CtlType
  <2>2. CtlType'
    BY <2>1 DEF StartDriver, CtlType
  <2> QED BY <2>1, <2>2, Started
<1>2. CASE phase # "idle" /\ Latches(after)
  <2>1. /\ latch' = "set" /\ latched' = latched \cup {m}
        /\ UNCHANGED <<phase, pc, cause, step>>
    BY <1>2 DEF WakeDriver
  <2>2. CtlType'
    BY <2>1 DEF CtlType
  <2>3. PhaseInv'
    BY <1>2, <2>1 DEF PhaseInv
  <2>4. WakeInv'
    BY <1>2, <2>1 DEF WakeInv, LatchedWakesRun, Rests
  <2> QED BY <2>1, <2>2, <2>3, <2>4
<1>3. CASE phase # "idle" /\ ~Latches(after)
  <2>1. UNCHANGED <<phase, pc, cause, step, latch, latched>>
    BY <1>3 DEF WakeDriver
  <2>2. phase = "maintenance" => cause = "disposed"
    BY <1>3 DEF Latches
  <2>3. CtlType'
    BY <2>1 DEF CtlType
  <2>4. PhaseInv'
    BY <1>3, <2>1 DEF PhaseInv
  <2>5. WakeInv'
    BY <1>3, <2>1, <2>2 DEF WakeInv, LatchedWakesRun, Rests
  <2> QED BY <2>1, <2>3, <2>4, <2>5
<1> QED BY <1>1, <1>2, <1>3

\* A step that leaves the log alone, and the driver where it is or starts it.
LEMMA TraceKept ==
  ASSUME CtlType, TraceInv, BatchInv, UNCHANGED <<trace, turn, batch, prompts>>,
         UNCHANGED <<pc, step>> \/ (pc \in {"none", "replay"} /\ StartDriver)
  PROVE  TraceInv' /\ BatchInv'
<1>1. CASE UNCHANGED <<pc, step>>
  <2>1. TraceInv'
    BY <1>1 DEF TraceInv, AtRest
  <2> QED BY <1>1, <2>1 DEF BatchInv
<1>2. CASE pc \in {"none", "replay"} /\ StartDriver
  <2>1. pc' = "starting" /\ step' = 0 /\ pc \in Resting /\ pc' \in Resting
        /\ pc' \notin Between \cup Inside
    BY <1>2 DEF StartDriver, Resting, Between, Inside
  <2>2. TraceInv'
    BY <2>1 DEF TraceInv, AtRest
  <2>3. batch = <<>>
    BY <1>2 DEF BatchInv
  <2> QED BY <2>1, <2>2, <2>3 DEF BatchInv
<1> QED BY <1>1, <1>2

\* send: the message is queued and its wake runs, is latched or is not needed.
LEMMA SendStep ==
  ASSUME IInv, NEW m \in Message, NEW wanted \in Target, NEW wakeup \in BOOLEAN,
         Send(m, wanted, wakeup)
  PROVE  IInv'
<1>1. MsgType /\ MsgInv /\ CtlType /\ TraceInv /\ PhaseInv /\ WakeInv /\ BatchInv
  BY Parts
<1>2. PICK to \in Target, after \in BOOLEAN :
        /\ m \notin Sent
        /\ sent' = Append(sent, [message |-> m, to |-> to, wakeup |-> wakeup])
        /\ nextTurn' = IF to = "next-turn" THEN Append(nextTurn, m) ELSE nextTurn
        /\ nextStep' = IF to = "next-step" THEN Append(nextStep, m) ELSE nextStep
        /\ IF wakeup THEN WakeDriver(after, {m})
                     ELSE UNCHANGED <<phaseVars, pc, step, latched>>
        /\ UNCHANGED <<turn, target, batch, decision, result, turnEnds, trace,
                       turnHistory, gone, exit, disposal>>
  <2> DEFINE afterAbort == wakeup /\ phase # "idle" /\ Aborted
             to == IF afterAbort THEN "next-turn" ELSE wanted
  <2>1. to \in Target /\ afterAbort \in BOOLEAN
    BY DEF Target
  <2> QED BY <2>1 DEF Send, Queue
<1> DEFINE s == [message |-> m, to |-> to, wakeup |-> wakeup]
<1>3. s \in Sending /\ s.message = m /\ s.wakeup = wakeup /\ s.to = to
  BY DEF Sending
<1>4. /\ MsgType' /\ MsgInv'
      /\ Sent' = Sent \cup {m} /\ Pending' = Pending \cup {m}
  <2>1. sent' = Append(sent, s) /\ UNCHANGED <<batch, said, gone, prompts>>
    BY <1>2 DEF turnHistory
  <2>2. \/ /\ s.to = "next-turn" /\ nextTurn' = Append(nextTurn, s.message)
           /\ UNCHANGED nextStep
        \/ /\ s.to = "next-step" /\ nextStep' = Append(nextStep, s.message)
           /\ UNCHANGED nextTurn
    BY <1>2, <1>3 DEF Target
  <2>3. s.message \notin Sent
    BY <1>2, <1>3
  <2> HIDE DEF s
  <2> QED BY <1>1, <1>3, <2>1, <2>2, <2>3, MsgsSent
<1>5. /\ CtlType' /\ PhaseInv' /\ WakeInv'
      /\ UNCHANGED <<pc, step>> \/ (pc \in {"none", "replay"} /\ StartDriver)
  <2>1. CASE wakeup
    BY <1>1, <1>2, <1>4, <2>1, SendWakes
  <2>2. CASE ~wakeup
    <3>1. UNCHANGED <<phase, cause, latch, pc, step, latched>>
      BY <1>2, <2>2 DEF phaseVars
    <3>2. CtlType'
      BY <1>1, <1>2, <3>1 DEF CtlType
    <3>3. PhaseInv'
      BY <1>1, <1>2, <3>1 DEF PhaseInv
    <3>4. Pending' \cap Waking' \subseteq Pending \cap Waking
      BY <1>1, <1>2, <1>3, <1>4, <2>2, SilentSend DEF MsgInv
    <3>5. m \notin latched
      BY <1>1, <1>2 DEF WakeInv
    <3>6. LatchedWakesRun'
      BY <1>1, <1>4, <3>1, <3>5 DEF WakeInv, LatchedWakesRun
    <3>7. Rests' <=> Rests
      BY <3>1 DEF Rests
    <3> QED BY <1>1, <1>2, <1>4, <3>1, <3>2, <3>3, <3>4, <3>6, <3>7 DEF WakeInv
  <2> QED BY <2>1, <2>2
<1>6. TraceInv' /\ BatchInv'
  BY <1>1, <1>2, <1>5, TraceKept DEF turnHistory
<1> QED BY <1>4, <1>5, <1>6, Parts, PTL

\* remove: one message is withdrawn.
LEMMA RemoveStep ==
  ASSUME IInv, NEW m \in Message, RemoveMessage(m)
  PROVE  IInv'
<1>1. MsgType /\ MsgInv /\ CtlType /\ TraceInv /\ PhaseInv /\ WakeInv /\ BatchInv
  BY Parts
<1>2. /\ UNCHANGED <<phase, cause, latch, pc, turn, step, target, batch, decision,
                     result, turnEnds, trace, said, prompts, sent, latched, exit,
                     disposal>>
      /\ MsgType' /\ MsgInv' /\ Pending' \subseteq Pending /\ Sent' = Sent
  <2>1. UNCHANGED <<phase, cause, latch, pc, turn, step, target, batch, decision,
                    result, turnEnds, trace, said, prompts, sent, latched, exit,
                    disposal>>
    BY DEF RemoveMessage, phaseVars, turnVars, turnHistory
  <2> QED BY <1>1, <2>1, MsgsRemoved DEF RemoveMessage
<1>3. CtlType' /\ PhaseInv'
  BY <1>1, <1>2 DEF CtlType, PhaseInv
<1>4. WakeInv'
  <2>1. Waking' = Waking /\ (Rests' <=> Rests)
    BY <1>2 DEF Waking, Rests
  <2>2. LatchedWakesRun'
    BY <1>1, <1>2 DEF WakeInv, LatchedWakesRun
  <2> QED BY <1>1, <1>2, <2>1, <2>2 DEF WakeInv
<1>5. TraceInv' /\ BatchInv'
  BY <1>1, <1>2, TraceKept
<1> QED BY <1>2, <1>3, <1>4, <1>5, Parts, PTL

\* cancel and dispose: the first cause stays, and the inbox goes with the latch.
LEMMA CancelStep ==
  ASSUME IInv, NEW reason \in {"user", "disposed"}, NEW keep \in BOOLEAN,
         reason = "disposed" => ~keep, CancelWith(reason, keep),
         disposal' \in {"none", "converging", "quiet"}
  PROVE  IInv'
<1>1. MsgType /\ MsgInv /\ CtlType /\ TraceInv /\ PhaseInv /\ WakeInv /\ BatchInv
  BY Parts
<1>2. /\ UNCHANGED <<phase, pc, turn, step, target, batch, decision, result, turnEnds,
                     trace, said, prompts, sent, exit>>
      /\ cause' = IF phase # "idle" /\ ~Aborted THEN reason ELSE cause
      /\ keep => UNCHANGED <<nextTurn, nextStep, gone, latch, latched>>
      /\ ~keep => nextTurn' = <<>> /\ nextStep' = <<>> /\ gone' = gone \cup Pending
      /\ ~keep /\ phase # "idle" => latch' = "none" /\ latched' = {}
      /\ phase = "idle" => UNCHANGED <<latch, latched>>
  BY DEF CancelWith, ClearLatch, phaseVars, turnVars, turnHistory, inboxVars
<1>3. /\ MsgType' /\ MsgInv' /\ Sent' = Sent /\ Pending' \subseteq Pending
      /\ ~keep => Pending' = {}
  <2>1. CASE keep
    BY <1>1, <1>2, <2>1, MsgsKept DEF msgs
  <2>2. CASE ~keep
    BY <1>1, <1>2, <2>2, MsgsCleared
  <2> QED BY <2>1, <2>2
<1>4. latch' \in {"none", "set"} /\ latched' \subseteq Message
      /\ cause' \in {"none", "user", "disposed"}
  BY <1>1, <1>2 DEF CtlType
<1>5. CtlType'
  BY <1>1, <1>2, <1>4 DEF CtlType
<1>6. PhaseInv'
  BY <1>1, <1>2 DEF PhaseInv
<1>7. WakeInv'
  <2>1. latched' \subseteq Sent' /\ (phase' # "idle" /\ latch' = "none" => latched' = {})
    BY <1>1, <1>2, <1>3 DEF WakeInv
  <2>2. LatchedWakesRun'
    BY <1>1, <1>2, <1>3 DEF WakeInv, LatchedWakesRun
  <2>3. Waking' = Waking
    BY <1>2 DEF Waking
  <2>4. ASSUME Rests', Pending' # {} PROVE Rests
    <3>1. keep
      BY <1>3, <2>4
    <3>2. reason = "user" /\ UNCHANGED <<phase, pc, latch>>
      BY <1>2, <3>1
    <3> QED BY <1>2, <2>4, <3>2 DEF Rests, Aborted
  <2> QED BY <1>1, <1>2, <1>3, <2>1, <2>2, <2>3, <2>4 DEF WakeInv
<1>8. TraceInv' /\ BatchInv'
  BY <1>1, <1>2, TraceKept
<1> QED BY <1>3, <1>5, <1>6, <1>7, <1>8, Parts, PTL

-----------------------------------------------------------------------------
(* The steps that begin and end an activity *)

ParkReason == {"aborted", "error", "blocked", "empty", "late"}

\* An empty inbox holds nothing.
LEMMA NothingPending == ~HasPending => Pending = {}
  BY EmptyFacts DEF HasPending, Pending

\* An activity retires: its latched wake is replayed, or what waits has a reason.
LEMMA RetireStep ==
  ASSUME IInv, phase # "idle", pc \in {"none", "replay", "exiting"}, NEW why,
         why \in {"none", "aborted", "error", "blocked", "empty", "drained", "late"},
         latch = "none" /\ Pending \cap Waking # {} => why \in ParkReason,
         Retire(why),
         UNCHANGED <<inboxVars, turnVars, turnHistory, gone, sent, latched, disposal>>
  PROVE  IInv'
<1>1. MsgType /\ MsgInv /\ CtlType /\ TraceInv /\ PhaseInv /\ WakeInv /\ BatchInv
  BY Parts
<1>2. /\ phase' = "idle" /\ cause' = "none" /\ latch' = "none" /\ exit' = why
      /\ pc' = IF latch = "set" THEN "replay" ELSE "none"
      /\ UNCHANGED <<turn, step, target, batch, decision, result, turnEnds, trace,
                     latched, prompts, sent, disposal>>
      /\ UNCHANGED msgs
  BY DEF Retire, turnVars, turnHistory, inboxVars, msgs
<1>3. MsgType' /\ MsgInv' /\ Pending' = Pending /\ Sent' = Sent
  BY <1>1, <1>2, MsgsKept
<1>4. CtlType'
  BY <1>1, <1>2 DEF CtlType
<1>5. PhaseInv'
  BY <1>2 DEF PhaseInv
<1>6. WakeInv'
  <2>1. latched' \subseteq Sent'
    BY <1>1, <1>2, <1>3 DEF WakeInv
  <2>2. latch # "set" => latch = "none" /\ latched = {}
    BY <1>1 DEF WakeInv, CtlType
  <2>3. LatchedWakesRun'
    BY <1>2, <1>3, <2>2 DEF LatchedWakesRun
  <2>4. Rests' => latch = "none"
    BY <1>2, <2>2 DEF Rests
  <2>5. Waking' = Waking
    BY <1>2 DEF Waking
  <2> QED BY <1>2, <1>3, <2>1, <2>3, <2>4, <2>5 DEF WakeInv, ParkReason
<1>7. TraceInv'
  <2>1. pc \in Resting /\ pc' \in Resting /\ pc' \notin Between \cup Inside
        /\ pc' \notin {"starting", "opened"}
    BY <1>2 DEF Resting, Between, Inside
  <2> QED BY <1>1, <1>2, <2>1 DEF TraceInv, AtRest
<1>8. BatchInv'
  BY <1>1, <1>2 DEF BatchInv
<1> QED BY <1>3, <1>4, <1>5, <1>6, <1>7, <1>8, Parts, PTL

\* The end of maintenance.
LEMMA EndMaintenanceStep ==
  ASSUME IInv, EndMaintenance
  PROVE  IInv'
<1> DEFINE why == IF cause = "disposed" THEN "aborted" ELSE exit
<1>1. CtlType /\ PhaseInv /\ WakeInv /\ phase = "maintenance"
  BY Parts DEF EndMaintenance
<1>2. pc \in {"none", "replay"}
  BY <1>1 DEF CtlType
<1>3. why \in {"none", "aborted", "error", "blocked", "empty", "drained", "late"}
  BY <1>1 DEF CtlType
<1>4. latch = "none" /\ Pending \cap Waking # {} => why \in ParkReason
  BY <1>1 DEF WakeInv, Rests, ParkReason
<1> QED BY <1>1, <1>2, <1>3, <1>4, RetireStep DEF EndMaintenance

\* The finally of kick().
LEMMA ExitStep ==
  ASSUME IInv, Exit
  PROVE  IInv'
<1> DEFINE why == IF exit = "drained" /\ HasPending THEN "late" ELSE exit
<1>1. CtlType /\ PhaseInv /\ WakeInv /\ pc = "exiting"
  BY Parts DEF Exit
<1>2. phase # "idle" /\ exit \in ParkReason \cup {"drained"}
  BY <1>1 DEF CtlType, PhaseInv, ParkReason
<1>3. why \in {"none", "aborted", "error", "blocked", "empty", "drained", "late"}
  BY <1>2 DEF ParkReason
<1>4. Pending \cap Waking # {} => why \in ParkReason
  BY <1>2, NothingPending DEF ParkReason
<1> QED BY <1>1, <1>2, <1>3, <1>4, RetireStep DEF Exit

\* Maintenance takes an idle agent, and latches a wake that was to be replayed.
LEMMA StartMaintenanceStep ==
  ASSUME IInv, StartMaintenance
  PROVE  IInv'
<1>1. MsgType /\ MsgInv /\ CtlType /\ TraceInv /\ PhaseInv /\ WakeInv /\ BatchInv
  BY Parts
<1>2. /\ phase = "idle" /\ phase' = "maintenance" /\ pc' = "none" /\ cause' = "none"
      /\ latch' = (IF pc = "replay" /\ HasPending THEN "set" ELSE "none")
      /\ latched' = (IF pc = "replay" /\ HasPending THEN latched ELSE {})
      /\ UNCHANGED <<turn, step, target, batch, decision, result, turnEnds, trace,
                     prompts, sent, exit, disposal>>
      /\ UNCHANGED msgs
  BY DEF StartMaintenance, turnVars, turnHistory, inboxVars, msgs
<1>3. MsgType' /\ MsgInv' /\ Pending' = Pending /\ Sent' = Sent
  BY <1>1, <1>2, MsgsKept
<1>4. CtlType'
  <2>1. latched' \subseteq Message /\ latch' \in {"none", "set"}
    BY <1>1, <1>2 DEF CtlType
  <2> QED BY <1>1, <1>2, <2>1 DEF CtlType
<1>5. PhaseInv'
  BY <1>2 DEF PhaseInv
<1>6. pc \in {"none", "replay"}
  BY <1>1, <1>2 DEF CtlType
<1>7. WakeInv'
  <2>1. /\ latched' \subseteq Sent' /\ (latch' = "none" => latched' = {})
        /\ LatchedWakesRun'
    BY <1>1, <1>2, <1>3 DEF WakeInv, LatchedWakesRun
  <2>2. Waking' = Waking
    BY <1>2 DEF Waking
  <2>3. ASSUME Rests', Pending \cap Waking # {} PROVE Rests
    <3>1. HasPending /\ latch' = "none"
      BY <1>2, <2>3, NothingPending DEF Rests
    <3> QED BY <1>2, <1>6, <3>1 DEF Rests
  <2> QED BY <1>1, <1>2, <1>3, <2>1, <2>2, <2>3 DEF WakeInv
<1>8. TraceInv'
  <2>1. pc \in Resting /\ pc' \in Resting /\ pc' \notin Between \cup Inside
        /\ pc' \notin {"starting", "opened"}
    BY <1>2, <1>6 DEF Resting, Between, Inside
  <2> QED BY <1>1, <1>2, <2>1 DEF TraceInv, AtRest
<1>9. BatchInv'
  BY <1>1, <1>2, <1>6 DEF BatchInv
<1> QED BY <1>3, <1>4, <1>5, <1>7, <1>8, <1>9, Parts, PTL

\* A fresh driver, from an idle agent or after a turn that went well.
LEMMA DriverStarts ==
  ASSUME IInv, pc \in {"replay", "closed"}, StartDriver,
         UNCHANGED <<inboxVars, turn, target, batch, decision, result, turnEnds,
                     trace, turnHistory, gone, sent, exit, disposal>>
  PROVE  IInv'
<1>1. MsgType /\ MsgInv /\ CtlType /\ TraceInv /\ PhaseInv /\ WakeInv /\ BatchInv
  BY Parts
<1>2. /\ UNCHANGED msgs /\ UNCHANGED <<turn, target, decision, result, turnEnds, trace,
                                       batch, exit, disposal>>
      /\ phase' = "running" /\ pc' = "starting" /\ cause' = "none"
      /\ latch' = "none" /\ step' = 0 /\ latched' = {}
  BY DEF StartDriver, turnHistory, inboxVars, msgs
<1>3. MsgType' /\ MsgInv'
  BY <1>1, <1>2, MsgsKept
<1>4. CtlType'
  BY <1>1, <1>2 DEF CtlType
<1>5. TraceInv'
  <2>1. pc \in Resting /\ pc' \in Resting /\ pc' \notin Between \cup Inside
    BY <1>2 DEF Resting, Between, Inside
  <2> QED BY <1>1, <1>2, <2>1 DEF TraceInv, AtRest
<1>6. BatchInv'
  BY <1>1, <1>2 DEF BatchInv
<1> QED BY <1>3, <1>4, <1>5, <1>6, Started, Parts, PTL

\* A latched wake is replayed, unless nothing waits any more.
LEMMA ReplayStep ==
  ASSUME IInv, Replay
  PROVE  IInv'
<1>1. MsgType /\ MsgInv /\ CtlType /\ TraceInv /\ PhaseInv /\ WakeInv /\ BatchInv
  BY Parts
<1>2. CASE HasPending
  BY <1>2, DriverStarts DEF Replay, ReplayWake
<1>3. CASE ~HasPending
  <2>1. /\ pc = "replay" /\ pc' = "none" /\ UNCHANGED msgs
        /\ UNCHANGED <<phase, cause, latch, latched, turn, step, target, batch, decision,
                       result, turnEnds, trace, prompts, exit, disposal>>
    BY <1>3 DEF Replay, ReplayWake, turnHistory, inboxVars, msgs
  <2>2. MsgType' /\ MsgInv' /\ Pending' = {} /\ Sent' = Sent
    BY <1>1, <1>3, <2>1, MsgsKept, NothingPending
  <2>3. CtlType' /\ PhaseInv'
    BY <1>1, <2>1 DEF CtlType, PhaseInv
  <2>4. WakeInv'
    BY <1>1, <2>1, <2>2 DEF WakeInv, LatchedWakesRun
  <2>5. TraceInv'
    <3>1. pc \in Resting /\ pc' \in Resting /\ pc' \notin Between \cup Inside
          /\ pc' \notin {"starting", "opened"}
      BY <2>1 DEF Resting, Between, Inside
    <3> QED BY <1>1, <2>1, <3>1 DEF TraceInv, AtRest
  <2>6. BatchInv'
    BY <1>1, <2>1 DEF BatchInv
  <2> QED BY <2>2, <2>3, <2>4, <2>5, <2>6, Parts, PTL
<1> QED BY <1>2, <1>3

\* After a turn the driver exits, or goes on with the next one.
LEMMA ClosedStep ==
  ASSUME IInv, Closed
  PROVE  IInv'
<1>1. MsgType /\ MsgInv /\ CtlType /\ TraceInv /\ PhaseInv /\ WakeInv /\ BatchInv
  BY Parts
<1>2. CASE StartDriver /\ UNCHANGED exit
  BY <1>2, DriverStarts DEF Closed
<1>3. CASE ~(StartDriver /\ UNCHANGED exit)
  <2>1. /\ pc = "closed" /\ pc' = "exiting" /\ UNCHANGED msgs
        /\ exit' \in {"aborted", "error", "blocked", "empty", "drained"}
        /\ UNCHANGED <<phase, cause, latch, latched, turn, step, target, batch, decision,
                       result, turnEnds, trace, prompts, disposal>>
    BY <1>3 DEF Closed, turnHistory, inboxVars, phaseVars, msgs
  <2>2. MsgType' /\ MsgInv' /\ Pending' = Pending /\ Sent' = Sent
    BY <1>1, <2>1, MsgsKept
  <2>3. CtlType' /\ PhaseInv'
    BY <1>1, <2>1 DEF CtlType, PhaseInv
  <2>4. WakeInv'
    <3>1. phase = "running"
      BY <1>1, <2>1 DEF CtlType
    <3> QED BY <1>1, <2>1, <2>2, <3>1 DEF WakeInv, LatchedWakesRun, Rests
  <2>5. TraceInv'
    <3>1. pc \in Resting /\ pc' \in Resting /\ pc' \notin Between \cup Inside
          /\ pc' \notin {"starting", "opened"}
      BY <2>1 DEF Resting, Between, Inside
    <3> QED BY <1>1, <2>1, <3>1 DEF TraceInv, AtRest
  <2>6. BatchInv'
    BY <1>1, <2>1 DEF BatchInv
  <2> QED BY <2>2, <2>3, <2>4, <2>5, <2>6, Parts, PTL
<1> QED BY <1>2, <1>3

-----------------------------------------------------------------------------
(* The steps of a turn *)

\* Inside a turn no wake is lost and nothing rests.
LEMMA MidTurn ==
  ASSUME CtlType, PhaseInv, WakeInv, pc \in Between \cup Inside \cup {"starting"},
         pc' \in Between \cup Inside \cup {"closed"},
         UNCHANGED <<phase, cause, latch, latched>>, Sent \subseteq Sent'
  PROVE  PhaseInv' /\ WakeInv' /\ phase = "running"
<1>1. phase = "running"
  BY DEF CtlType, Between, Inside
<1>2. pc' \notin {"none", "replay", "exiting"}
  BY DEF Between, Inside
<1> QED BY <1>1, <1>2, StillRunning

\* The turn closes: turn/end is logged, and a claimed batch is dropped.
LEMMA CloseStep ==
  ASSUME IInv, pc \in Between, NEW reason \in EndReason \cup {"none"}, Close(reason),
         UNCHANGED <<phaseVars, closing, sent, latched, exit, disposal>>
  PROVE  IInv'
<1>1. MsgType /\ MsgInv /\ CtlType /\ TraceInv /\ PhaseInv /\ WakeInv /\ BatchInv
  BY Parts
<1>2. /\ trace' = Record(trace, TurnEnd(turn, reason)) /\ turnEnds' = reason
      /\ gone' = gone \cup ToSet(batch) /\ batch' = <<>> /\ pc' = "closed"
      /\ UNCHANGED <<nextTurn, nextStep, said, sent, prompts>>
      /\ UNCHANGED <<turn, step, target, decision, result, phase, cause, latch, latched,
                     exit, disposal>>
  BY DEF Close, closing, phaseVars, inboxVars
<1>3. MsgType' /\ MsgInv' /\ Pending' = Pending /\ Sent' = Sent
  BY <1>1, <1>2, MsgsDropped
<1>4. Counts(trace, trace', 0, turn + 1, 0, step + 1)
  <2>1. /\ trace.openTurn = turn /\ trace.openStep = 0 /\ trace.nextTurn = turn
        /\ trace.nextStep = step + 1
    BY <1>1 DEF TraceInv, Between, Inside
  <2>2. trace \in TraceType /\ turn \in Nat /\ step \in Nat
    BY <1>1 DEF CtlType
  <2> QED BY <1>2, <2>1, <2>2, EventFacts
<1>5. CtlType'
  BY <1>1, <1>2, <1>4 DEF CtlType, Between, Inside, Counts
<1>6. PhaseInv' /\ WakeInv'
  BY <1>1, <1>2, <1>3, MidTurn
<1>7. TraceInv'
  BY <1>1, <1>2, <1>4 DEF TraceInv, AtRest, Resting, Between, Inside, Counts
<1>8. BatchInv'
  BY <1>2 DEF BatchInv
<1> QED BY <1>3, <1>5, <1>6, <1>7, <1>8, Parts, PTL

\* A failure is published; the batch is dropped when the turn closes.
LEMMA FailStep ==
  ASSUME IInv, pc \in Between, Failing,
         UNCHANGED <<phaseVars, closing, sent, latched, exit, disposal>>
  PROVE  IInv'
<1>1. MsgType /\ MsgInv /\ CtlType /\ TraceInv /\ PhaseInv /\ WakeInv /\ BatchInv
  BY Parts
<1>2. /\ pc' = "failing" /\ UNCHANGED msgs
      /\ UNCHANGED <<turn, step, target, batch, decision, result, turnEnds, trace, phase,
                     cause, latch, latched, exit, disposal>>
  BY DEF Failing, closing, phaseVars, inboxVars, msgs
<1>3. MsgType' /\ MsgInv' /\ Pending' = Pending /\ Sent' = Sent
  BY <1>1, <1>2, MsgsKept
<1>4. CtlType'
  BY <1>1, <1>2 DEF CtlType, Between, Inside
<1>5. PhaseInv' /\ WakeInv'
  BY <1>1, <1>2, <1>3, MidTurn DEF Between
<1>6. TraceInv'
  BY <1>1, <1>2 DEF TraceInv, Resting, Between, Inside
<1>7. BatchInv'
  BY <1>2 DEF BatchInv
<1> QED BY <1>3, <1>4, <1>5, <1>6, <1>7, Parts, PTL

\* The inbox is claimed for a step.
LEMMA ClaimStep ==
  ASSUME IInv, pc \in {"opened", "stepEnded", "stopping"}, NEW to \in Target,
         to = "next-turn" => pc = "opened", Claim(to),
         UNCHANGED <<phaseVars, closing, sent, latched, exit, disposal>>
  PROVE  IInv'
<1>1. MsgType /\ MsgInv /\ CtlType /\ TraceInv /\ PhaseInv /\ WakeInv /\ BatchInv
  BY Parts
<1>2. /\ pc' = "preStep" /\ target' = to /\ batch' = nextStep \o Prompts(to)
      /\ nextStep' = <<>>
      /\ nextTurn' = (IF Prompts(to) = <<>> THEN nextTurn ELSE Tail(nextTurn))
      /\ UNCHANGED <<said, gone, sent, prompts>>
      /\ UNCHANGED <<turn, step, decision, result, turnEnds, trace, phase, cause, latch,
                     latched, exit, disposal>>
  BY DEF Claim, closing, phaseVars
<1>3. batch = <<>> /\ (to = "next-turn" => prompts = 0) /\ pc \in Between
  BY <1>1 DEF BatchInv, Between
<1>4. MsgType' /\ MsgInv' /\ Pending' \subseteq Pending /\ Sent' = Sent
  BY <1>1, <1>2, <1>3, MsgsClaimed
<1>5. CtlType'
  BY <1>1, <1>2, <1>3 DEF CtlType, Between, Inside
<1>6. PhaseInv' /\ WakeInv'
  BY <1>1, <1>2, <1>3, <1>4, MidTurn DEF Between
<1>7. TraceInv'
  BY <1>1, <1>2, <1>3 DEF TraceInv, Resting, Between, Inside
<1>8. BatchInv'
  BY <1>2 DEF BatchInv
<1> QED BY <1>4, <1>5, <1>6, <1>7, <1>8, Parts, PTL

\* A step of the driver that moves no message and stays in the turn.
LEMMA TurnStep ==
  ASSUME IInv, pc \in Between \cup Inside, pc' \in Between \cup Inside, UNCHANGED msgs,
         batch # <<>> => pc' \in {"preStep", "decided", "stepped", "failing"},
         pc' # "opened", TraceInv', trace' \in TraceType, step' \in Nat,
         result' \in {"null", "completed", "max-tokens", "throw"},
         decision' \in {"none", "reject", "empty", "some"},
         turnEnds' \in EndReason \cup {"none"},
         UNCHANGED <<turn, target, phase, cause, latch, latched, exit, disposal>>
  PROVE  IInv'
<1>1. MsgType /\ MsgInv /\ CtlType /\ PhaseInv /\ WakeInv /\ BatchInv
  BY Parts
<1>2. MsgType' /\ MsgInv' /\ Sent' = Sent /\ batch' = batch
  BY <1>1, MsgsKept DEF msgs
<1>3. PhaseInv' /\ WakeInv' /\ phase = "running"
  BY <1>1, <1>2, MidTurn
<1>4. CtlType'
  BY <1>1, <1>3 DEF CtlType, Between, Inside
<1>5. BatchInv'
  BY <1>2 DEF BatchInv
<1> QED BY <1>2, <1>3, <1>4, <1>5, Parts, PTL

\* turn(): the turn is opened, unless the signal is aborted already.
LEMMA EnterTurnStep ==
  ASSUME IInv, EnterTurn
  PROVE  IInv'
<1>1. MsgType /\ MsgInv /\ CtlType /\ TraceInv /\ PhaseInv /\ WakeInv /\ BatchInv
  BY Parts
<1>2. /\ pc = "starting" /\ batch = <<>>
      /\ UNCHANGED <<nextTurn, nextStep, batch, said, gone, sent>>
      /\ UNCHANGED <<phase, cause, latch, latched, step, decision, result, disposal>>
  BY <1>1 DEF EnterTurn, BatchInv, turnHistory, phaseVars, inboxVars
<1>3. phase = "running" /\ phase' = "running"
  BY <1>1, <1>2 DEF CtlType
<1>4. CASE Aborted
  <2>1. /\ pc' = "exiting" /\ exit' = "aborted" /\ UNCHANGED msgs
        /\ UNCHANGED <<turn, target, turnEnds, trace, prompts>>
    BY <1>2, <1>4 DEF EnterTurn, turnHistory, msgs
  <2>2. MsgType' /\ MsgInv' /\ Sent' = Sent
    BY <1>1, <2>1, MsgsKept
  <2>3. CtlType' /\ PhaseInv'
    BY <1>1, <1>2, <1>3, <2>1 DEF CtlType, PhaseInv
  <2>4. WakeInv'
    BY <1>1, <1>2, <1>3, <2>2 DEF WakeInv, LatchedWakesRun, Rests
  <2>5. TraceInv'
    BY <1>1, <1>2, <2>1 DEF TraceInv, AtRest, Resting, Between, Inside
  <2>6. BatchInv'
    BY <1>2, <2>1 DEF BatchInv
  <2> QED BY <2>2, <2>3, <2>4, <2>5, <2>6, Parts, PTL
<1>5. CASE ~Aborted
  <2>1. /\ turn' = turn + 1 /\ trace' = Record(trace, TurnStart(turn + 1))
        /\ target' = "next-turn" /\ turnEnds' = "none" /\ pc' = "opened"
        /\ prompts' = 0 /\ UNCHANGED exit
    BY <1>5 DEF EnterTurn
  <2>2. MsgType' /\ MsgInv' /\ Sent' = Sent
    BY <1>1, <1>2, <2>1, MsgsCounted
  <2>3. Counts(trace, trace', turn + 1, turn + 1, 0, 1)
    <3>1. trace.openTurn = 0 /\ trace.openStep = 0 /\ trace.nextTurn = turn + 1
      BY <1>1, <1>2 DEF TraceInv, AtRest, Resting
    <3>2. trace \in TraceType /\ turn + 1 \in Nat
      BY <1>1 DEF CtlType
    <3> QED BY <2>1, <3>1, <3>2, EventFacts
  <2>4. CtlType'
    <3>1. turn' \in Nat /\ trace' \in TraceType
      BY <1>1, <2>1, <2>3 DEF CtlType, Counts
    <3> QED BY <1>1, <1>2, <1>3, <2>1, <3>1 DEF CtlType, Between, Inside, Target
  <2>5. PhaseInv' /\ WakeInv'
    BY <1>1, <1>2, <2>1, <2>2, MidTurn DEF Between
  <2>6. TraceInv'
    <3>1. step = 0
      BY <1>1, <1>2 DEF TraceInv
    <3>2. pc' \notin Resting \cup Inside
      BY <2>1 DEF Resting, Inside
    <3>3. /\ trace'.ok /\ trace'.openTurn = turn' /\ trace'.nextTurn = turn'
          /\ trace'.openStep = 0 /\ trace'.nextStep = step' + 1 /\ step' = 0
      <4>1. trace.ok /\ step' = 0 /\ turn' = turn + 1
        BY <1>1, <1>2, <2>1, <3>1 DEF TraceInv
      <4>2. /\ trace'.ok = trace.ok /\ trace'.openTurn = turn + 1 /\ trace'.openStep = 0
            /\ trace'.nextTurn = turn + 1 /\ trace'.nextStep = 1
        BY <2>3 DEF Counts
      <4> QED BY <4>1, <4>2
    <3> QED BY <3>2, <3>3 DEF TraceInv
  <2>7. BatchInv'
    BY <1>2, <2>1 DEF BatchInv
  <2> QED BY <2>2, <2>4, <2>5, <2>6, <2>7, Parts, PTL
<1> QED BY <1>4, <1>5

\* The first look at the inbox of a turn.
LEMMA OpenedStep ==
  ASSUME IInv, Opened
  PROVE  IInv'
<1>1. /\ pc = "opened" /\ "next-turn" \in Target /\ "aborted" \in EndReason
      /\ UNCHANGED <<phaseVars, closing, sent, latched, exit, disposal>>
  BY DEF Opened, Target, EndReason
<1>2. CASE Aborted
  BY <1>1, <1>2, CloseStep DEF Opened, Between
<1>3. CASE ~Aborted
  BY <1>1, <1>3, ClaimStep DEF Opened
<1> QED BY <1>2, <1>3

\* The pre-step listeners decide.
LEMMA PreStepStep ==
  ASSUME IInv, PreStep
  PROVE  IInv'
<1>1. /\ pc = "preStep" /\ pc \in Between /\ "aborted" \in EndReason
      /\ UNCHANGED <<phaseVars, step, result, said, prompts, sent, latched, exit,
                     disposal>>
  BY DEF PreStep, Between, EndReason
<1>2. CASE Aborted /\ Close("aborted") /\ UNCHANGED decision
  <2>1. UNCHANGED <<phaseVars, closing, sent, latched, exit, disposal>>
    BY <1>1, <1>2 DEF closing
  <2> QED BY <1>1, <1>2, <2>1, CloseStep
<1>3. CASE ~Aborted /\ Failing /\ UNCHANGED decision
  <2>1. UNCHANGED <<phaseVars, closing, sent, latched, exit, disposal>>
    BY <1>1, <1>3 DEF closing
  <2> QED BY <1>1, <1>3, <2>1, FailStep
<1>4. CASE /\ pc' = "decided" /\ decision' \in {"reject", "empty", "some"}
           /\ \/ UNCHANGED <<batch, gone>>
              \/ batch' = <<>> /\ gone' = gone \cup ToSet(batch)
           /\ UNCHANGED <<inboxVars, turn, target, turnEnds, trace>>
  <2>1. MsgType /\ MsgInv /\ CtlType /\ TraceInv /\ PhaseInv /\ WakeInv /\ BatchInv
    BY Parts
  <2>2. /\ UNCHANGED <<nextTurn, nextStep, said, sent, prompts>>
        /\ UNCHANGED <<phase, cause, latch, latched, turn, step, target, result, turnEnds,
                       trace, exit, disposal>>
    BY <1>1, <1>4 DEF phaseVars, inboxVars
  <2>3. MsgType' /\ MsgInv' /\ Sent' = Sent
    <3>1. CASE UNCHANGED <<batch, gone>>
      BY <2>1, <2>2, <3>1, MsgsKept DEF msgs
    <3>2. CASE batch' = <<>> /\ gone' = gone \cup ToSet(batch)
      BY <2>1, <2>2, <3>2, MsgsDropped
    <3> QED BY <1>4, <3>1, <3>2
  <2>4. CtlType'
    BY <1>1, <1>4, <2>1, <2>2 DEF CtlType, Between, Inside
  <2>5. PhaseInv' /\ WakeInv'
    BY <1>1, <1>4, <2>1, <2>2, <2>3, MidTurn DEF Between
  <2>6. TraceInv'
    BY <1>1, <1>4, <2>1, <2>2 DEF TraceInv, Resting, Between, Inside
  <2>7. BatchInv'
    BY <1>4 DEF BatchInv
  <2> QED BY <2>3, <2>4, <2>5, <2>6, <2>7, Parts, PTL
<1>5. ASSUME NEW kept \in {batch, <<>>}, batch' = kept,
             gone' = gone \cup (ToSet(batch) \ ToSet(kept))
      PROVE  \/ UNCHANGED <<batch, gone>>
             \/ batch' = <<>> /\ gone' = gone \cup ToSet(batch)
  BY <1>5, EmptyFacts
<1>6. \/ Aborted /\ Close("aborted") /\ UNCHANGED decision
      \/ ~Aborted /\ Failing /\ UNCHANGED decision
      \/ /\ pc' = "decided" /\ decision' \in {"reject", "empty", "some"}
         /\ \/ UNCHANGED <<batch, gone>>
            \/ batch' = <<>> /\ gone' = gone \cup ToSet(batch)
         /\ UNCHANGED <<inboxVars, turn, target, turnEnds, trace>>
  BY <1>5 DEF PreStep
<1> QED BY <1>2, <1>3, <1>4, <1>6

\* What the turn makes of the decision.
LEMMA DecidedStep ==
  ASSUME IInv, Decided
  PROVE  IInv'
<1>1. /\ pc = "decided" /\ pc \in Between /\ {"blocked", "completed", "aborted"} \subseteq EndReason
      /\ UNCHANGED <<phaseVars, decision, result, said, prompts, sent, latched, exit,
                     disposal>>
      /\ CtlType /\ TraceInv /\ turnEnds \in EndReason \cup {"none"}
  BY Parts DEF Decided, Between, EndReason, CtlType
<1>2. CASE /\ UNCHANGED step
           /\ \/ Close("blocked") \/ Close("completed") \/ Close("aborted")
              \/ Close(turnEnds)
  <2>1. UNCHANGED <<phaseVars, closing, sent, latched, exit, disposal>>
    BY <1>1, <1>2 DEF closing
  <2> QED BY <1>1, <1>2, <2>1, CloseStep
<1>3. CASE /\ step' = step + 1 /\ trace' = Record(trace, StepStart(turn, step + 1))
           /\ pc' = "stepped"
           /\ UNCHANGED <<inboxVars, turn, target, batch, turnEnds, gone>>
  <2>1. UNCHANGED msgs /\ pc' \in Inside /\ pc' \notin Resting \cup {"starting", "opened"}
    BY <1>1, <1>3 DEF msgs, inboxVars, Inside, Resting
  <2>2. /\ trace.openTurn = turn /\ trace.openStep = 0 /\ trace.nextTurn = turn
        /\ trace.nextStep = step + 1 /\ trace \in TraceType /\ turn \in Nat
        /\ step + 1 \in Nat /\ trace.ok
    BY <1>1 DEF TraceInv, CtlType, Between, Inside
  <2>3. Counts(trace, trace', turn, turn, step + 1, step + 1)
    BY <1>3, <2>2, EventFacts
  <2>4. TraceInv' /\ trace' \in TraceType
    BY <1>3, <2>1, <2>2, <2>3 DEF TraceInv, Counts
  <2> QED BY <1>1, <1>3, <2>1, <2>2, <2>4, TurnStep DEF phaseVars, CtlType
<1> QED BY <1>2, <1>3 DEF Decided

\* The admitted messages are logged.
LEMMA SteppedStep ==
  ASSUME IInv, Stepped
  PROVE  IInv'
<1>1. MsgType /\ MsgInv /\ CtlType /\ TraceInv /\ PhaseInv /\ WakeInv /\ BatchInv
  BY Parts
<1>2. /\ pc = "stepped" /\ said' = said \o batch /\ batch' = <<>>
      /\ prompts' = prompts + Cardinality({i \in DOMAIN batch : ToPrompt(batch[i])})
      /\ UNCHANGED <<nextTurn, nextStep, gone, sent>>
      /\ UNCHANGED <<phase, cause, latch, latched, turn, step, target, decision, turnEnds,
                     exit, disposal>>
      /\ pc' \in {"stepDone", "model"} /\ (result' = "throw" \/ UNCHANGED result)
  BY DEF Stepped, inboxVars, phaseVars
<1>3. /\ pc \in Inside /\ pc' \in Inside /\ pc' # "opened"
      /\ pc' \notin Resting \cup {"starting"}
  BY <1>2 DEF Inside, Resting
<1>4. MsgType' /\ MsgInv' /\ Sent' = Sent
  BY <1>1, <1>2, MsgsLogged
<1>5. /\ trace' \in TraceType /\ trace'.ok /\ trace'.openTurn = trace.openTurn
      /\ trace'.nextTurn = trace.nextTurn /\ trace'.openStep = trace.openStep
      /\ trace'.nextStep = trace.nextStep
  <2> DEFINE fine == \A m \in ToSet(batch) : Accepts(trace, UserMessage(m))
  <2>1. fine
    BY DEF Accepts, UserMessage
  <2>2. trace' = [trace EXCEPT !.ok = @ /\ fine] /\ trace \in TraceType /\ trace.ok
    BY <1>1 DEF Stepped, TraceInv, CtlType
  <2> HIDE DEF fine
  <2>3. trace' = [trace EXCEPT !.ok = TRUE]
    BY <2>1, <2>2
  <2> QED BY <2>2, <2>3 DEF TraceType
<1>6. CtlType'
  BY <1>1, <1>2, <1>3, <1>5 DEF CtlType, Inside
<1>7. PhaseInv' /\ WakeInv'
  BY <1>1, <1>2, <1>3, <1>4, MidTurn
<1>8. TraceInv'
  BY <1>1, <1>2, <1>3, <1>5 DEF TraceInv
<1>9. BatchInv'
  BY <1>2, <1>3 DEF BatchInv
<1> QED BY <1>4, <1>6, <1>7, <1>8, <1>9, Parts, PTL

\* The model answers, fails or is aborted.
LEMMA ModelStep ==
  ASSUME IInv, Model
  PROVE  IInv'
<1>1. /\ CtlType /\ TraceInv /\ BatchInv /\ pc = "model" /\ pc' \in {"stepDone", "tools"}
      /\ result' \in {"throw", "completed", "max-tokens", result}
      /\ trace' \in {trace, Record(trace, AssistantMessage(turn, step, <<>>))}
      /\ UNCHANGED msgs
      /\ UNCHANGED <<phase, cause, latch, latched, turn, step, target, batch, decision,
                     turnEnds, exit, disposal>>
  BY Parts DEF Model, msgs, inboxVars, phaseVars, turnHistory
<1>2. /\ pc \in Inside /\ pc' \in Inside /\ pc' \notin Resting \cup {"starting", "opened"}
  BY <1>1 DEF Inside, Resting
<1>3. trace' = trace
  <2>1. /\ trace.openTurn = turn /\ trace.openStep = step /\ trace.nextStep = step
        /\ trace \in TraceType /\ turn \in Nat /\ step \in Nat
    BY <1>1, <1>2 DEF TraceInv, CtlType
  <2> QED BY <1>1, <2>1, EventFacts
<1>4. TraceInv' /\ trace' \in TraceType
  BY <1>1, <1>2, <1>3 DEF TraceInv, CtlType
<1>5. batch = <<>>
  BY <1>1 DEF BatchInv
<1>6. result' \in {"null", "completed", "max-tokens", "throw"}
  BY <1>1 DEF CtlType
<1> QED BY <1>1, <1>2, <1>4, <1>5, <1>6, TurnStep DEF CtlType

\* The tool calls of a step, and at most one message they leave for the next.
LEMMA ToolsStep ==
  ASSUME IInv, Tools
  PROVE  IInv'
<1>1. MsgType /\ MsgInv /\ CtlType /\ TraceInv /\ PhaseInv /\ WakeInv /\ BatchInv
  BY Parts
<1>2. /\ pc = "tools" /\ pc' = "stepDone" /\ result' \in {"null", "completed", "throw"}
      /\ UNCHANGED <<nextTurn, batch, said, gone, prompts>>
      /\ UNCHANGED <<phase, cause, latch, latched, turn, step, target, decision, turnEnds,
                     exit, disposal>>
  BY DEF Tools, phaseVars, turnHistory
<1>3. /\ pc \in Inside /\ pc' \in Inside /\ pc' \notin Resting \cup {"starting", "opened"}
  BY <1>2 DEF Inside, Resting
<1>4. MsgType' /\ MsgInv' /\ Sent \subseteq Sent'
  <2>1. CASE UNCHANGED <<nextStep, sent>>
    BY <1>1, <1>2, <2>1, MsgsKept DEF msgs
  <2>2. ASSUME NEW m \in Message \ Sent, nextStep' = Append(nextStep, m),
               sent' = Append(sent, [message |-> m, to |-> "next-step", wakeup |-> FALSE])
        PROVE  MsgType' /\ MsgInv' /\ Sent \subseteq Sent'
    <3> DEFINE s == [message |-> m, to |-> "next-step", wakeup |-> FALSE]
    <3>1. s \in Sending /\ s.message = m /\ s.to = "next-step"
      BY DEF Sending, Target
    <3>2. /\ sent' = Append(sent, s) /\ s.message \notin Sent
          /\ s.to = "next-step" /\ nextStep' = Append(nextStep, s.message)
          /\ UNCHANGED nextTurn
      BY <1>2, <2>2, <3>1
    <3> HIDE DEF s
    <3> QED BY <1>1, <1>2, <3>1, <3>2, MsgsSent
  <2> QED BY <2>1, <2>2 DEF Tools
<1>5. Counts(trace, trace', turn, turn, step, step)
  <2>1. /\ trace.openTurn = turn /\ trace.openStep = step /\ trace.nextStep = step
        /\ trace.nextTurn = turn /\ trace \in TraceType /\ turn \in Nat /\ step \in Nat
    BY <1>1, <1>2, <1>3 DEF TraceInv, CtlType
  <2>2. /\ Counts(trace, Record(trace, ToolCall(turn, step, "call")), turn, turn, step, step)
        /\ Counts(trace, Record(Record(trace, ToolCall(turn, step, "call")),
                                ToolResult(turn, step, "call", "none")),
                  turn, turn, step, step)
    BY <2>1, EventFacts
  <2>3. trace' \in {Record(trace, ToolCall(turn, step, "call")),
                    Record(Record(trace, ToolCall(turn, step, "call")),
                           ToolResult(turn, step, "call", "none"))}
    BY DEF Tools
  <2> QED BY <2>2, <2>3
<1>6. CtlType'
  BY <1>1, <1>2, <1>3, <1>5 DEF CtlType, Inside, Counts
<1>7. PhaseInv' /\ WakeInv'
  BY <1>1, <1>2, <1>3, <1>4, MidTurn
<1>8. TraceInv'
  BY <1>1, <1>2, <1>3, <1>5 DEF TraceInv, Counts
<1>9. BatchInv'
  BY <1>1, <1>2 DEF BatchInv
<1> QED BY <1>4, <1>6, <1>7, <1>8, <1>9, Parts, PTL

\* step/end is logged whatever became of the step.
LEMMA StepDoneStep ==
  ASSUME IInv, StepDone
  PROVE  IInv'
<1>1. /\ CtlType /\ TraceInv /\ BatchInv /\ pc = "stepDone" /\ pc' = "stepEnded"
      /\ trace' = Record(trace, StepEnd(turn, step))
      /\ UNCHANGED msgs
      /\ UNCHANGED <<phase, cause, latch, latched, turn, step, target, batch, decision,
                     result, exit, disposal>>
  BY Parts DEF StepDone, StepEndLogged, msgs, inboxVars, phaseVars
<1>2. turnEnds' \in EndReason \cup {"none"}
  BY <1>1 DEF StepDone, TurnEndAfter, CtlType, EndReason
<1>3. /\ pc \in Inside /\ pc' \in Between
      /\ pc' \notin Resting \cup Inside \cup {"starting", "opened"}
  BY <1>1 DEF Inside, Between, Resting
<1>4. /\ trace.openTurn = turn /\ trace.openStep = step /\ trace.nextStep = step
      /\ trace.nextTurn = turn /\ trace \in TraceType /\ turn \in Nat /\ step \in Nat
      /\ trace.ok
  BY <1>1, <1>3 DEF TraceInv, CtlType
<1>5. Counts(trace, trace', turn, turn, 0, step + 1)
  BY <1>1, <1>4, EventFacts
<1>6. TraceInv' /\ trace' \in TraceType
  BY <1>1, <1>3, <1>4, <1>5 DEF TraceInv, Counts
<1>7. batch = <<>>
  BY <1>1 DEF BatchInv
<1> QED BY <1>1, <1>2, <1>3, <1>4, <1>6, <1>7, TurnStep DEF CtlType

\* After a step: close, fail, claim the next step or stop.
LEMMA StepEndedStep ==
  ASSUME IInv, StepEnded
  PROVE  IInv'
<1>1. /\ pc = "stepEnded" /\ pc \in Between /\ "aborted" \in EndReason
      /\ "next-step" \in Target
      /\ UNCHANGED <<phaseVars, closing, sent, latched, exit, disposal>>
  BY DEF StepEnded, Between, EndReason, Target
<1>2. CASE Close("aborted")
  BY <1>1, <1>2, CloseStep
<1>3. CASE Failing
  BY <1>1, <1>3, FailStep
<1>4. CASE Claim("next-step")
  BY <1>1, <1>4, ClaimStep
<1>5. CASE /\ pc' = "stopping"
           /\ UNCHANGED <<inboxVars, turn, target, batch, turnEnds, trace, gone>>
  <2>1. CtlType /\ TraceInv /\ BatchInv
    BY Parts
  <2>2. /\ UNCHANGED msgs
        /\ UNCHANGED <<phase, cause, latch, latched, turn, step, target, decision, result,
                       turnEnds, trace, exit, disposal>>
    BY <1>1, <1>5 DEF msgs, inboxVars, phaseVars, closing
  <2>3. /\ pc' \in Between /\ pc' \notin Resting \cup Inside \cup {"starting", "opened"}
        /\ pc \notin Inside
    BY <1>1, <1>5 DEF Inside, Between, Resting
  <2>4. TraceInv'
    BY <1>1, <2>1, <2>2, <2>3 DEF TraceInv
  <2>5. batch = <<>>
    BY <1>1, <2>1 DEF BatchInv
  <2> QED BY <1>1, <2>1, <2>2, <2>3, <2>4, <2>5, TurnStep DEF CtlType
<1> QED BY <1>2, <1>3, <1>4, <1>5 DEF StepEnded

\* The turn's end is offered to the listeners.
LEMMA StoppingStep ==
  ASSUME IInv, Stopping
  PROVE  IInv'
<1>1. /\ pc = "stopping" /\ pc \in Between /\ "aborted" \in EndReason
      /\ "next-step" \in Target /\ turnEnds \in EndReason \cup {"none"}
      /\ UNCHANGED <<phaseVars, closing, sent, latched, exit, disposal>>
  BY Parts DEF Stopping, Between, EndReason, Target, CtlType
<1>2. CASE Close("aborted") \/ Close(turnEnds)
  BY <1>1, <1>2, CloseStep
<1>3. CASE Failing
  BY <1>1, <1>3, FailStep
<1>4. CASE Claim("next-step")
  BY <1>1, <1>4, ClaimStep
<1> QED BY <1>2, <1>3, <1>4 DEF Stopping

\* A failed turn closes.
LEMMA CloseFailedStep ==
  ASSUME IInv, CloseFailed
  PROVE  IInv'
<1>1. pc \in Between /\ "error" \in EndReason
  BY DEF CloseFailed, Between, EndReason
<1> QED BY <1>1, CloseStep DEF CloseFailed

-----------------------------------------------------------------------------
(* Theorems *)

\* A fresh agent satisfies the invariant.
LEMMA InitHolds == Init => IInv
<1> SUFFICES ASSUME Init PROVE IInv
  OBVIOUS
<1> USE DEF Init
<1>1. /\ ToSet(nextTurn) = {} /\ ToSet(nextStep) = {} /\ ToSet(batch) = {}
      /\ ToSet(said) = {} /\ DOMAIN sent = {} /\ DOMAIN batch = {}
      /\ DOMAIN nextTurn = {} /\ DOMAIN nextStep = {} /\ DOMAIN said = {}
  BY EmptyFacts
<1>2. Sent = {} /\ Pending = {}
  BY <1>1 DEF Sent, Pending
<1>3. MsgType
  BY EmptyFacts DEF MsgType
<1>4. MsgInv
  BY <1>1, <1>2
    DEF MsgInv, ListInv, OneFate, Once, PromptInv, OnePromptPerTurn, OrderInv, Ordered,
        Precedes
<1>5. /\ trace \in TraceType /\ trace.ok /\ AtRest
  BY DEF FreshTrace, TraceType, AtRest
<1>6. CtlType
  BY <1>5 DEF CtlType, Target
<1>7. TraceInv /\ PhaseInv /\ BatchInv
  BY <1>5 DEF TraceInv, PhaseInv, BatchInv, Between, Inside
<1>8. WakeInv
  BY <1>2 DEF WakeInv, LatchedWakesRun
<1> QED BY <1>3, <1>4, <1>6, <1>7, <1>8, Parts

\* The invariant is inductive.
LEMMA StepHolds == IInv /\ [Next]_vars => IInv'
<1> SUFFICES ASSUME IInv, [Next]_vars PROVE IInv'
  OBVIOUS
<1>1. CASE Driver
  BY <1>1, EnterTurnStep, OpenedStep, PreStepStep, DecidedStep, SteppedStep, ModelStep,
     ToolsStep, StepDoneStep, StepEndedStep, StoppingStep, CloseFailedStep, ClosedStep,
     ExitStep, ReplayStep DEF Driver
<1>2. CASE EndMaintenance
  BY <1>2, EndMaintenanceStep
<1>3. CASE Callers
  <2>1. ASSUME NEW m \in Message, Followup(m) \/ Steer(m) \/ Inject(m) \/ RemoveMessage(m)
        PROVE  IInv'
    BY <2>1, SendStep, RemoveStep DEF Followup, Steer, Inject, Target
  <2>2. CASE Cancel
    <3>1. PICK keep \in BOOLEAN : CancelWith("user", keep) /\ UNCHANGED disposal
      BY <2>2 DEF Cancel
    <3>2. disposal' \in {"none", "converging", "quiet"}
      BY <3>1, Parts DEF CtlType
    <3> QED BY <3>1, <3>2, CancelStep
  <2>3. CASE Dispose
    <3>1. CancelWith("disposed", FALSE) /\ disposal' \in {"none", "converging", "quiet"}
      BY <2>3, Parts DEF Dispose, CtlType
    <3> QED BY <3>1, CancelStep
  <2> QED BY <1>3, <2>1, <2>2, <2>3, StartMaintenanceStep DEF Callers
<1>4. CASE WhenIdle \/ UNCHANGED vars
  <2>1. /\ UNCHANGED msgs
        /\ UNCHANGED <<phase, turn, step, cause, latch, pc, target, batch, decision, result,
                       turnEnds, trace, latched, prompts, sent, exit>>
        /\ disposal' \in {disposal, "quiet"}
    BY <1>4 DEF vars, msgs, inboxVars, phaseVars, turnVars, turnHistory, WhenIdle
  <2>2. MsgType /\ MsgInv /\ CtlType /\ TraceInv /\ PhaseInv /\ WakeInv /\ BatchInv
    BY Parts
  <2>3. MsgType' /\ MsgInv' /\ Pending' = Pending /\ Sent' = Sent
    BY <2>1, <2>2, MsgsKept
  <2>4. CtlType' /\ PhaseInv' /\ BatchInv'
    BY <2>1, <2>2 DEF CtlType, PhaseInv, BatchInv
  <2>5. TraceInv'
    BY <2>1, <2>2 DEF TraceInv, AtRest
  <2>6. WakeInv'
    BY <2>1, <2>2, <2>3 DEF WakeInv, LatchedWakesRun, Rests, Waking
  <2> QED BY <2>3, <2>4, <2>5, <2>6, Parts, PTL
<1> QED BY <1>1, <1>2, <1>3, <1>4 DEF Next

\* The inductive invariant holds in every reachable state.
THEOREM Invariance == Spec => []IInv
  BY InitHolds, StepHolds, PTL DEF Spec

\* Every variable keeps its type, and the driver stands somewhere exactly when
\* the phase is running.
THEOREM TypeAlways == Spec => []TypeOK
<1>1. IInv => TypeOK
  BY DEF IInv
<1> QED BY <1>1, Invariance, PTL

\* Every event the driver logs passes the invariant companion, and whenever no
\* driver runs, the log has nothing open and expects the next turn's number.
THEOREM GrammarAlways == Spec => []GrammarHolds
<1>1. IInv => GrammarHolds
  BY Parts DEF GrammarHolds, TraceInv, CtlType, Resting
<1> QED BY <1>1, Invariance, PTL

\* A message has one fate, a turn takes one prompt, and prompts enter the log in
\* the order they were sent.
THEOREM MessagesAlways == Spec => []MessagesAreKept
<1>1. ASSUME IInv PROVE PromptsInOrder
  <2> SUFFICES ASSUME NEW i \in DOMAIN sent, NEW j \in DOMAIN sent, i < j,
                      sent[i].to = "next-turn", sent[j].to = "next-turn",
                      sent[j].message \in ToSet(said)
               PROVE  sent[i].message \in ToSet(said) \cup gone
    BY DEF PromptsInOrder
  <2>1. ListInv /\ OneFate /\ OrderInv /\ DOMAIN sent \subseteq Nat
    BY <1>1, Parts DEF MsgInv, MsgType
  <2>2. ~(j < i)
    BY <2>1
  <2>3. sent[i].message \notin ToSet(nextTurn) /\ sent[i].message \notin ToSet(batch)
    BY <2>1, <2>2 DEF OrderInv, Precedes
  <2>4. sent[i].message \notin ToSet(nextStep)
    BY <2>1 DEF ListInv
  <2>5. sent[i].message \in Sent
    BY DEF Sent
  <2> QED BY <2>1, <2>3, <2>4, <2>5 DEF OneFate, Pending
<1>2. IInv => MessagesAreKept
  BY <1>1 DEF IInv, PromptInv, MessagesAreKept
<1> QED BY <1>2, Invariance, PTL

\* A wake latched behind an abort or maintenance runs unless its message is
\* withdrawn, and other waking input stays parked only for a reason.
THEOREM WakesAlways == Spec => []WakesAreKept
<1>1. IInv => WakesAreKept
  BY DEF IInv, WakeInv, WakesAreKept, ParkedForAReason, Rests
<1> QED BY <1>1, Invariance, PTL
=============================================================================
