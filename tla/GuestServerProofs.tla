-------------------------- MODULE GuestServerProofs --------------------------
(***************************************************************************)
(* Proofs about GuestServer for any sessions, chats and readers, and any   *)
(* ceiling and cache size.                                                 *)
(***************************************************************************)
EXTENDS GuestServer, SequenceTheorems, TLAPS

IsOpen(r) == pc[r] \in Underway

\* A chat has a session from its first step on.
ChatsInv ==
  \A r \in Chat : /\ pc[r] # "new" => at[r] \in Session
                  /\ pc[r] = "new" => at[r] = "none"
                  /\ ~IsOpen(r) => ~streamed[r]

\* A marker belongs to an open chat that will take it off, a subscription to the
\* chat that made it.
MarkInv ==
  \A s \in Session :
    /\ s \in activeTurns => \E r \in OpenChats(s) : Opened(r)
    /\ \A r \in Chat : streamers[s] = r =>
         IsOpen(r) /\ at[r] = s /\ Opened(r) /\ streamed[r]

\* Two open chats of one session overlap, whoever came first.
OverlapInv ==
  \A r, q \in Chat :
    r # q /\ IsOpen(r) /\ IsOpen(q) /\ at[r] = at[q] => r \in overlapped

\* An open chat that overlaps none has its marker once it is inside its try, and
\* its subscription.
LoneMarkInv ==
  \A r \in Chat \ overlapped :
    IsOpen(r) /\ Opened(r) =>
      at[r] \in activeTurns /\ (streamed[r] => streamers[at[r]] = r)

In(r, q) == \E i \in DOMAIN q : q[i] = r
AtEnd(r, q) == \A i \in DOMAIN q : q[i] = r => i = Len(q)

Unsent == {"new", "resolving", "resuming", "resumed", "ensured"}

Nowhere(r) == \A s \in Session : ~In(r, log[s]) /\ ~In(r, queue[s]) /\ running[s] # r

IsLast(r, s) ==
  /\ AtEnd(r, queue[s]) /\ (running[s] = r => queue[s] = <<>>)
  /\ In(r, log[s]) => /\ log[s][Len(log[s])] = r
                      /\ queue[s] = <<>> /\ running[s] = "none"
  /\ pc[r] \in {"reading", "read"} => running[s] = "none"
  /\ pc[r] = "read" /\ In(r, log[s]) => reply[r] = r

\* The message of a chat is nowhere before it is sent, and in its lone turn it is
\* the last one: in the queue, running with an empty queue, or answered with
\* nothing after it.  A turn that was waited for is over.
MessageInv ==
  \A r \in Chat : /\ pc[r] \in Unsent => Nowhere(r)
                  /\ InTurn(r) /\ r \notin overlapped => IsLast(r, at[r])

\* A session under creation is known to no chat; one chat at most has resumed an
\* agent it has not entered in the map yet, and that agent is live.
OwnerInv ==
  /\ \A s \in creating, r \in Chat : at[r] # s
  /\ \A r \in Chat : pc[r] = "resumed" =>
       /\ agents[at[r]] = "live" /\ guests[at[r]] # "owned"
       /\ \A q \in Chat : pc[q] = "resumed" /\ q # r => at[q] # at[r]

\* The inductive invariant.
IInv ==
  /\ TypeOK /\ ChatsInv /\ MarkInv /\ NoSnapshotInFlight
  /\ OverlapInv /\ LoneMarkInv /\ MessageInv /\ OwnerInv /\ OwnedIsLive

\* TypeOK, by the parts of the state.
SnapshotType == [session : Session, upTo : Nat]
Distinct(c) == \A i, j \in DOMAIN c : i # j => c[i].session # c[j].session
CacheType(c) == c \in Seq(SnapshotType) /\ Len(c) <= CacheMax /\ Distinct(c)
Holds(c, s) == \E i \in DOMAIN c : c[i].session = s

GuestsType ==
  /\ guests \in [Session -> {"none", "owned", "adopted"}]
  /\ creating \subseteq Session /\ dropping \subseteq Session
MarkersType ==
  /\ activeTurns \subseteq Session /\ streamers \in [Session -> Chat \cup {"none"}]
  /\ CacheType(cache)
CoreType ==
  /\ agents \in [Session -> {"none", "live", "closing", "unwinding"}] /\ stored \subseteq Session
  /\ queue \in [Session -> Seq(Message)] /\ log \in [Session -> Seq(Message)]
  /\ running \in [Session -> Message \cup {"none"}]
ChatType ==
  /\ at \in [Chat -> Session \cup {"none"}] /\ streamed \in [Chat -> BOOLEAN]
  /\ pc \in [Chat -> {"new", "done", "failed"} \cup Underway]
  /\ reply \in [Chat -> Message \cup {"none"}] /\ overlapped \subseteq Chat
ReadType ==
  /\ rpc \in [Reader -> {"rest", "loading", "gating"}]
  /\ rat \in [Reader -> Session \cup {"none"}] /\ snapshot \in [Reader -> Nat]
  /\ \A h \in Reader : rpc[h] # "rest" <=> rat[h] \in Session
Types == GuestsType /\ MarkersType /\ CoreType /\ ChatType /\ ReadType

-----------------------------------------------------------------------------
(* Lemmas *)

\* TypeOK is its parts.
LEMMA TypeParts == TypeOK <=> Types
  BY DEF TypeOK, Types, GuestsType, MarkersType, CoreType, ChatType, ReadType,
         CacheType, Distinct, SnapshotType

\* A queue with one message more.
LEMMA AppendFacts ==
  ASSUME NEW q \in Seq(Message), NEW x \in Message
  PROVE  /\ Append(q, x) \in Seq(Message) /\ Append(q, x) # <<>>
         /\ Len(Append(q, x)) = Len(q) + 1 /\ Append(q, x)[Len(Append(q, x))] = x
         /\ \A r : In(r, Append(q, x)) <=> In(r, q) \/ r = x
         /\ ~In(x, q) => AtEnd(x, Append(q, x))
<1>1. /\ Append(q, x) \in Seq(Message) /\ Append(q, x) # <<>>
      /\ Len(Append(q, x)) = Len(q) + 1 /\ Append(q, x)[Len(q) + 1] = x
      /\ \A i \in 1..Len(q) : Append(q, x)[i] = q[i]
      /\ Len(q) \in Nat
  OBVIOUS
<1>2. DOMAIN q = 1..Len(q) /\ DOMAIN Append(q, x) = 1..(Len(q) + 1)
  OBVIOUS
<1> DEFINE a == Append(q, x)
<1> HIDE DEF a
<1>3. \A r : In(r, a) <=> In(r, q) \/ r = x
  BY <1>1, <1>2 DEF In, a
<1>4. ~In(x, q) => AtEnd(x, a)
  BY <1>1, <1>2 DEF In, AtEnd, a
<1> QED BY <1>1, <1>3, <1>4 DEF a

\* A queue whose first message is claimed.
LEMMA ClaimedFacts ==
  ASSUME NEW q \in Seq(Message), q # <<>>
  PROVE  /\ Head(q) \in Message /\ Tail(q) \in Seq(Message) /\ In(Head(q), q)
         /\ \A r : In(r, Tail(q)) => In(r, q)
         /\ \A r : AtEnd(r, q) => /\ AtEnd(r, Tail(q))
                                  /\ (Head(q) = r => Tail(q) = <<>>)
<1>1. /\ Head(q) \in Message /\ Tail(q) \in Seq(Message) /\ Head(q) = q[1]
      /\ Len(q) \in Nat \ {0} /\ Len(Tail(q)) = Len(q) - 1
      /\ \A i \in 1..Len(Tail(q)) : Tail(q)[i] = q[i + 1]
      /\ DOMAIN q = 1..Len(q) /\ DOMAIN Tail(q) = 1..Len(Tail(q))
  OBVIOUS
<1>2. Len(q) = 1 => Tail(q) = <<>>
  <2>1. \A z \in Seq(Message) : z # <<>> => Len(z) \in Nat \ {0}
    BY EmptySeq
  <2>2. Tail(q) # <<>> => Len(Tail(q)) \in Nat \ {0}
    BY <1>1, <2>1
  <2> QED BY <1>1, <2>2
<1> DEFINE rest == Tail(q)
<1> HIDE DEF rest
<1>3. \A i \in DOMAIN rest : rest[i] = q[i + 1] /\ i + 1 \in DOMAIN q /\ i \in Nat
  BY <1>1 DEF rest
<1>4. \A r : In(r, rest) => In(r, q)
  BY <1>3 DEF In
<1>5. In(Head(q), q)
  BY <1>1 DEF In
<1>6. ASSUME NEW r, AtEnd(r, q)
      PROVE  AtEnd(r, rest) /\ (Head(q) = r => rest = <<>>)
  <2>1. AtEnd(r, rest)
    BY <1>1, <1>3, <1>6 DEF AtEnd, rest
  <2>2. ASSUME Head(q) = r PROVE Len(q) = 1
    BY <1>1, <1>6, <2>2 DEF AtEnd
  <2> QED BY <1>2, <2>1, <2>2 DEF rest
<1> QED BY <1>1, <1>4, <1>5, <1>6 DEF rest

\* The driver claims the oldest message that waits.
LEMMA ClaimsFacts ==
  ASSUME NEW s \in Session, NEW w \in Seq(Message), CoreType, Claims(s, w)
  PROVE  /\ queue' \in [Session -> Seq(Message)] /\ running' \in [Session -> Message \cup {"none"}]
         /\ \A t \in Session \ {s} : queue'[t] = queue[t] /\ running'[t] = running[t]
         /\ w = <<>> => queue'[s] = <<>> /\ running'[s] = "none"
         /\ \A r : In(r, queue'[s]) => In(r, w)
         /\ \A r \in Chat : running'[s] = r => In(r, w)
         /\ \A r \in Chat : AtEnd(r, w) => /\ AtEnd(r, queue'[s])
                                           /\ (running'[s] = r => queue'[s] = <<>>)
<1>1. CASE w = <<>>
  <2>1. /\ queue' = [queue EXCEPT ![s] = <<>>] /\ running' = [running EXCEPT ![s] = "none"]
    BY <1>1 DEF Claims
  <2>2. /\ queue' \in [Session -> Seq(Message)] /\ running' \in [Session -> Message \cup {"none"}]
        /\ queue'[s] = <<>> /\ running'[s] = "none"
        /\ \A t \in Session \ {s} : queue'[t] = queue[t] /\ running'[t] = running[t]
    BY <2>1 DEF CoreType
  <2>3. \A r : ~In(r, <<>>) /\ AtEnd(r, <<>>)
    BY DEF In, AtEnd
  <2> QED BY <1>1, <2>2, <2>3, NoneIsNoId
<1>2. CASE w # <<>>
  <2>1. /\ queue' = [queue EXCEPT ![s] = Tail(w)] /\ running' = [running EXCEPT ![s] = Head(w)]
    BY <1>2 DEF Claims
  <2>2. /\ Head(w) \in Message /\ Tail(w) \in Seq(Message) /\ In(Head(w), w)
        /\ \A r : In(r, Tail(w)) => In(r, w)
        /\ \A r : AtEnd(r, w) => /\ AtEnd(r, Tail(w))
                                 /\ (Head(w) = r => Tail(w) = <<>>)
    BY <1>2, ClaimedFacts
  <2>3. /\ queue' \in [Session -> Seq(Message)] /\ running' \in [Session -> Message \cup {"none"}]
        /\ queue'[s] = Tail(w) /\ running'[s] = Head(w)
        /\ \A t \in Session \ {s} : queue'[t] = queue[t] /\ running'[t] = running[t]
    BY <2>1, <2>2 DEF CoreType
  <2> QED BY <1>2, <2>2, <2>3
<1> QED BY <1>1, <1>2

\* Taking a session out of the cache.
LEMMA WithoutFacts ==
  ASSUME CacheType(cache), NEW s
  PROVE  /\ CacheType(Without(s)) /\ ~Holds(Without(s), s)
         /\ \A t : Holds(Without(s), t) => Holds(cache, t)
<1>1. /\ cache \in Seq(SnapshotType) /\ Len(cache) \in Nat /\ Len(cache) <= CacheMax
      /\ Distinct(cache) /\ DOMAIN cache = 1..Len(cache) /\ CacheMax \in Nat
  BY GuestBounds DEF CacheType
<1>2. CASE ~Cached(s)
  BY <1>1, <1>2 DEF Without, Cached, Holds, CacheType
<1>3. CASE Cached(s)
  <2>1. PICK k \in 1..Len(cache) :
          /\ k = (CHOOSE i \in DOMAIN cache : cache[i].session = s)
          /\ cache[k].session = s
    BY <1>1, <1>3 DEF Cached
  <2> DEFINE w == SubSeq(cache, 1, k - 1) \o SubSeq(cache, k + 1, Len(cache))
  <2>2. Without(s) = w
    BY <1>3, <2>1 DEF Without, Seqs!RemoveAt
  <2>3. /\ w \in Seq(SnapshotType) /\ Len(w) = Len(cache) - 1
        /\ \A i \in 1..(Len(cache) - 1) : i < k => w[i] = cache[i]
        /\ \A i \in 1..(Len(cache) - 1) : i >= k => w[i] = cache[i + 1]
    <3> DEFINE u == SubSeq(cache, 1, k - 1)
               v == SubSeq(cache, k + 1, Len(cache))
    <3>1. /\ u \in Seq(SnapshotType) /\ Len(u) = k - 1
          /\ \A i \in 1..(k - 1) : u[i] = cache[i]
      BY <1>1, <2>1
    <3>2. /\ v \in Seq(SnapshotType) /\ Len(v) = Len(cache) - k
          /\ \A i \in 1..(Len(cache) - k) : v[i] = cache[k + i]
      <4> PICK n \in Nat : n = Len(cache)
        BY <1>1
      <4>1. k \in 1..n /\ k + 1 \in 1..n + 1 /\ v = SubSeq(cache, k + 1, n)
        BY <2>1
      <4>2. v \in Seq(SnapshotType) /\ Len(v) = n - k
        BY <1>1, <4>1
      <4>3. \A i \in 1..n - k : v[i] = cache[k + i]
        BY <1>1, <4>1
      <4> QED BY <4>2, <4>3
    <3> HIDE DEF u, v
    <3>3. /\ u \o v \in Seq(SnapshotType) /\ Len(u \o v) = Len(u) + Len(v)
          /\ \A i \in 1..(Len(u) + Len(v)) :
               (u \o v)[i] = IF i <= Len(u) THEN u[i] ELSE v[i - Len(u)]
      BY <3>1, <3>2, ConcatProperties
    <3>4. Len(u \o v) = Len(cache) - 1
      BY <1>1, <2>1, <3>1, <3>2, <3>3
    <3>5. ASSUME NEW i \in 1..(Len(cache) - 1), i < k PROVE (u \o v)[i] = cache[i]
      <4> PICK n \in Nat : n = Len(cache)
        BY <1>1
      <4>a. i \in 1..(Len(u) + Len(v)) /\ i <= Len(u) /\ i \in 1..(k - 1)
        <5>1. k \in 1..n /\ i \in 1..(n - 1) /\ Len(u) = k - 1 /\ Len(v) = n - k
          BY <2>1, <3>1, <3>2
        <5> QED BY <5>1, <3>5
      <4>b. (u \o v)[i] = IF i <= Len(u) THEN u[i] ELSE v[i - Len(u)]
        BY <3>3, <4>a
      <4> QED BY <4>a, <4>b, <3>1
    <3>6. ASSUME NEW i \in 1..(Len(cache) - 1), i >= k PROVE (u \o v)[i] = cache[i + 1]
      <4> PICK n \in Nat : n = Len(cache)
        BY <1>1
      <4>a. /\ i \in 1..(Len(u) + Len(v)) /\ ~(i <= Len(u))
            /\ i - Len(u) = i - (k - 1) /\ i - (k - 1) \in 1..(n - k)
        <5>1. k \in 1..n /\ i \in 1..(n - 1) /\ Len(u) = k - 1 /\ Len(v) = n - k
          BY <2>1, <3>1, <3>2
        <5> QED BY <5>1, <3>6
      <4>b. (u \o v)[i] = IF i <= Len(u) THEN u[i] ELSE v[i - Len(u)]
        BY <3>3, <4>a
      <4>1. (u \o v)[i] = v[i - (k - 1)] /\ i - (k - 1) \in 1..(Len(cache) - k)
        BY <4>a, <4>b
      <4>2. v[i - (k - 1)] = cache[k + (i - (k - 1))]
        BY <3>2, <4>1
      <4>3. k + (i - (k - 1)) = i + 1
        BY <2>1
      <4> QED BY <4>1, <4>2, <4>3
    <3> QED BY <3>3, <3>4, <3>5, <3>6 DEF u, v
  <2> HIDE DEF w
  <2>4. DOMAIN w = 1..(Len(cache) - 1) /\ Len(w) <= CacheMax
    BY <1>1, <2>3
  <2> DEFINE m(i) == IF i < k THEN i ELSE i + 1
  <2>m. \A i \in DOMAIN w : m(i) \in DOMAIN cache /\ m(i) # k /\ w[i] = cache[m(i)]
    <3> SUFFICES ASSUME NEW i \in 1..(Len(cache) - 1)
                 PROVE  m(i) \in DOMAIN cache /\ m(i) # k /\ w[i] = cache[m(i)]
      BY <2>4
    <3>1. PICK n \in Nat : n = Len(cache)
      BY <1>1
    <3>2. i \in 1..(n - 1) /\ k \in 1..n
      BY <3>1
    <3>3. CASE i < k
      <4>1. i \in 1..n /\ i # k
        BY <3>2, <3>3
      <4>2. w[i] = cache[i]
        BY <2>3, <3>3
      <4>3. m(i) = i
        BY <3>3
      <4> QED BY <1>1, <3>1, <4>1, <4>2, <4>3
    <3>4. CASE ~(i < k)
      <4>1. i >= k /\ i + 1 \in 1..n /\ i + 1 # k
        BY <3>2, <3>4
      <4>2. w[i] = cache[i + 1]
        BY <2>3, <4>1
      <4>3. m(i) = i + 1
        BY <3>4
      <4> QED BY <1>1, <3>1, <4>1, <4>2, <4>3
    <3> QED BY <3>3, <3>4
  <2>n. \A i, j \in DOMAIN w : i # j => m(i) # m(j)
    BY <1>1, <2>1, <2>4
  <2> HIDE DEF m
  <2>5. Distinct(w)
    BY <1>1, <2>m, <2>n DEF Distinct
  <2>6. ~Holds(w, s)
    BY <1>1, <2>1, <2>m DEF Distinct, Holds
  <2>7. \A t : Holds(w, t) => Holds(cache, t)
    BY <2>m DEF Holds
  <2> QED BY <2>2, <2>3, <2>4, <2>5, <2>6, <2>7 DEF CacheType
<1> QED BY <1>2, <1>3

\* A snapshot that enters the cache.
LEMMA StoredFacts ==
  ASSUME CacheType(cache), NEW s \in Session, NEW n \in Nat
  PROVE  /\ CacheType(Stored(s, n))
         /\ \A t : Holds(Stored(s, n), t) => t = s \/ Holds(cache, t)
<1> DEFINE w == Without(s)
           e == [session |-> s, upTo |-> n]
           a == Append(w, e)
<1>1. /\ w \in Seq(SnapshotType) /\ Len(w) <= CacheMax /\ Distinct(w)
      /\ ~Holds(w, s) /\ \A t : Holds(w, t) => Holds(cache, t)
  BY WithoutFacts DEF CacheType
<1>2. e \in SnapshotType /\ e.session = s
  BY DEF SnapshotType
<1>3. Stored(s, n) = IF Len(a) > CacheMax THEN Tail(a) ELSE a
  BY DEF Stored
<1>4. CacheMax \in Nat \ {0} /\ Len(w) \in Nat
  BY <1>1, GuestBounds
<1> HIDE DEF w, e
<1>5. /\ a \in Seq(SnapshotType) /\ Len(a) = Len(w) + 1 /\ DOMAIN a = 1..(Len(w) + 1)
      /\ a[Len(w) + 1] = e /\ \A i \in 1..Len(w) : a[i] = w[i]
      /\ DOMAIN w = 1..Len(w) /\ a # <<>>
  BY <1>1, <1>2, <1>4, AppendProperties
<1>6. /\ Tail(a) \in Seq(SnapshotType) /\ Len(Tail(a)) = Len(w)
      /\ DOMAIN Tail(a) = 1..Len(w) /\ \A i \in 1..Len(w) : Tail(a)[i] = a[i + 1]
  <2> HIDE DEF a
  <2> QED BY <1>4, <1>5
<1> HIDE DEF a
<1>7. Distinct(a)
  <2>1. \A i \in 1..Len(w) : a[i].session # s
    BY <1>1, <1>5 DEF Holds
  <2>2. \A i, j \in 1..Len(w) : i # j => a[i].session # a[j].session
    BY <1>1, <1>5 DEF Distinct
  <2> QED BY <1>2, <1>4, <1>5, <2>1, <2>2 DEF Distinct
<1>8. \A t : Holds(a, t) => t = s \/ Holds(cache, t)
  <2> SUFFICES ASSUME NEW t, NEW i \in DOMAIN a, a[i].session = t
               PROVE  t = s \/ Holds(cache, t)
    BY DEF Holds
  <2>1. CASE i = Len(w) + 1
    BY <1>2, <1>5, <2>1
  <2>2. CASE i # Len(w) + 1
    <3>1. i \in DOMAIN w /\ w[i].session = t
      BY <1>4, <1>5, <2>2
    <3> QED BY <1>1, <3>1 DEF Holds
  <2> QED BY <2>1, <2>2
<1>9. Distinct(Tail(a))
  BY <1>4, <1>5, <1>6, <1>7 DEF Distinct
<1>10. \A t : Holds(Tail(a), t) => Holds(a, t)
  BY <1>4, <1>5, <1>6 DEF Holds
<1> QED BY <1>1, <1>3, <1>4, <1>5, <1>6, <1>7, <1>8, <1>9, <1>10 DEF CacheType

\* A step that leaves the markers alone, and moves no chat into or out of its try.
LEMMA MarksKept ==
  ASSUME ChatsInv, MarkInv, NoSnapshotInFlight, OverlapInv, LoneMarkInv,
         UNCHANGED <<activeTurns, cache, streamers, at, streamed>>,
         overlapped \subseteq overlapped',
         \A r \in Chat : /\ IsOpen(r)' <=> IsOpen(r)
                         /\ Opened(r)' <=> Opened(r)
                         /\ pc'[r] = "new" <=> pc[r] = "new",
         ChatType, MarkersType
  PROVE  ChatsInv' /\ MarkInv' /\ NoSnapshotInFlight' /\ OverlapInv' /\ LoneMarkInv'
<1>1. ChatsInv' /\ OverlapInv'
  BY DEF ChatsInv, OverlapInv
<1>2. NoSnapshotInFlight'
  BY DEF NoSnapshotInFlight, Cached
<1>3. LoneMarkInv'
  BY DEF LoneMarkInv
<1>4. ASSUME NEW s \in Session, s \in activeTurns'
      PROVE  \E r \in OpenChats(s)' : Opened(r)'
  <2>1. PICK r \in Chat : IsOpen(r) /\ at[r] = s /\ Opened(r)
    BY <1>4 DEF MarkInv, OpenChats, IsOpen
  <2> QED BY <2>1 DEF OpenChats, IsOpen
<1>5. ASSUME NEW s \in Session, NEW r \in Chat, streamers'[s] = r
      PROVE  IsOpen(r)' /\ at'[r] = s /\ Opened(r)' /\ streamed'[r]
  BY <1>5 DEF MarkInv
<1>6. MarkInv'
  BY <1>4, <1>5 DEF MarkInv
<1> QED BY <1>1, <1>2, <1>3, <1>6

\* A step that leaves the inboxes, turns and logs alone, and sends no message.
LEMMA MessagesKept ==
  ASSUME MessageInv, UNCHANGED <<queue, running, log, at>>,
         overlapped \subseteq overlapped',
         \A r \in Chat : \/ pc'[r] = pc[r] /\ reply'[r] = reply[r]
                         \/ pc[r] \in Unsent /\ pc'[r] \in Unsent
                         \/ pc'[r] \in {"done", "failed"}
  PROVE  MessageInv'
  BY DEF MessageInv, InTurn, Unsent, Nowhere, IsLast

\* A step that leaves entries and agents alone, and resumes none.
LEMMA OwnersKept ==
  ASSUME OwnerInv, OwnedIsLive, UNCHANGED <<at, guests, agents>>,
         creating' \subseteq creating,
         \A r \in Chat : pc'[r] = "resumed" => pc[r] = "resumed"
  PROVE  OwnerInv' /\ OwnedIsLive'
  BY DEF OwnerInv, OwnedIsLive

\* A chat that responds takes its marker and its subscription with it.
LEMMA EndsKeeps ==
  ASSUME IInv, NEW r \in Chat, IsOpen(r), NEW outcome \in {"done", "failed"},
         Ends(r, outcome)
  PROVE  IInv'
<1>t. Types /\ at[r] \in Session
  BY TypeParts DEF IInv, ChatsInv, IsOpen, Underway
<1> DEFINE s == at[r]
<1>1. /\ pc' = [pc EXCEPT ![r] = outcome] /\ at' = at
      /\ streamed' = [streamed EXCEPT ![r] = FALSE]
      /\ reply' = [reply EXCEPT ![r] = "none"]
      /\ UNCHANGED <<guests, creating, dropping, coreVars, readVars, overlapped>>
  BY DEF Ends
<1>2. /\ pc' \in [Chat -> {"new", "done", "failed"} \cup Underway] /\ ~IsOpen(r)'
      /\ streamed' \in [Chat -> BOOLEAN] /\ reply' \in [Chat -> Message \cup {"none"}]
      /\ pc'[r] = outcome /\ streamed'[r] = FALSE
      /\ \A q \in Chat \ {r} : /\ pc'[q] = pc[q] /\ streamed'[q] = streamed[q]
                               /\ reply'[q] = reply[q] /\ (Opened(q)' <=> Opened(q))
                               /\ (IsOpen(q)' <=> IsOpen(q))
  BY <1>t, <1>1 DEF Types, ChatType, IsOpen, Underway, Opened
<1>3. \/ /\ Opened(r) /\ activeTurns' = activeTurns \ {s} /\ cache' = Without(s)
         /\ streamers' = IF streamed[r] THEN [streamers EXCEPT ![s] = "none"] ELSE streamers
      \/ ~Opened(r) /\ UNCHANGED <<activeTurns, cache, streamers>>
  BY DEF Ends, EndTurn
<1> HIDE DEF s
<1>4. /\ CacheType(cache') /\ \A u : Holds(cache', u) => Holds(cache, u)
  BY <1>t, <1>3, WithoutFacts DEF Types, MarkersType
<1>5. Types'
  <2>1. activeTurns' \subseteq Session /\ streamers' \in [Session -> Chat \cup {"none"}]
    BY <1>t, <1>3 DEF Types, MarkersType
  <2>2. MarkersType'
    BY <1>4, <2>1 DEF MarkersType
  <2>3. GuestsType' /\ CoreType' /\ ReadType'
    BY <1>t, <1>1 DEF Types, GuestsType, CoreType, ReadType, coreVars, readVars
  <2>4. ChatType'
    BY <1>t, <1>1, <1>2 DEF Types, ChatType
  <2> QED BY <2>2, <2>3, <2>4 DEF Types
<1>6. ChatsInv' /\ OverlapInv'
  <2>1. ChatsInv'
    BY <1>t, <1>1, <1>2 DEF IInv, ChatsInv
  <2>2. OverlapInv'
    BY <1>1, <1>2 DEF IInv, OverlapInv
  <2> QED BY <2>1, <2>2
<1>7. NoSnapshotInFlight'
  BY <1>3, <1>4 DEF IInv, NoSnapshotInFlight, Cached, Holds
<1>8. MarkInv'
  <2>1. ASSUME NEW u \in Session, u \in activeTurns' PROVE \E q \in OpenChats(u)' : Opened(q)'
    <3>1. PICK q \in Chat : IsOpen(q) /\ at[q] = u /\ Opened(q)
      BY <1>3, <2>1 DEF IInv, MarkInv, OpenChats, IsOpen
    <3>2. q # r
      BY <1>3, <2>1, <3>1 DEF s
    <3> QED BY <1>1, <1>2, <3>1, <3>2 DEF OpenChats, IsOpen
  <2>2. ASSUME NEW u \in Session, NEW q \in Chat, streamers'[u] = q
        PROVE  IsOpen(q)' /\ at'[q] = u /\ Opened(q)' /\ streamed'[q]
    <3>1. streamers[u] = q /\ q # r
      BY <1>t, <1>3, <2>2, NoneIsNoId DEF IInv, MarkInv, Types, MarkersType, s
    <3> QED BY <1>1, <1>2, <3>1 DEF IInv, MarkInv
  <2> QED BY <2>1, <2>2 DEF MarkInv
<1>9. LoneMarkInv'
  <2> SUFFICES ASSUME NEW q \in Chat \ overlapped, IsOpen(q)', Opened(q)'
               PROVE  at[q] \in activeTurns' /\ (streamed'[q] => streamers'[at[q]] = q)
    BY <1>1 DEF LoneMarkInv
  <2>1. q # r /\ IsOpen(q) /\ Opened(q)
    BY <1>2
  <2>2. at[q] # s /\ at[q] \in Session
    BY <2>1 DEF IInv, OverlapInv, ChatsInv, IsOpen, Underway, s
  <2>3. at[q] \in activeTurns /\ (streamed[q] => streamers[at[q]] = q)
    BY <2>1 DEF IInv, LoneMarkInv
  <2> QED BY <1>t, <1>2, <1>3, <2>1, <2>2, <2>3 DEF Types, MarkersType
<1>10. MessageInv'
  BY <1>1, <1>2, MessagesKept DEF IInv, coreVars
<1>11. OwnerInv' /\ OwnedIsLive'
  BY <1>1, <1>2, OwnersKept DEF IInv, coreVars
<1>12. TypeOK'
  BY <1>5, TypeParts, PTL
<1> QED BY <1>6, <1>7, <1>8, <1>9, <1>10, <1>11, <1>12 DEF IInv

\* A chat opens, and marks its turn at once unless it streams.
LEMMA AskKeeps ==
  ASSUME IInv, NEW r \in Chat, NEW s \in Session, NEW stream \in BOOLEAN, Ask(r, s, stream)
  PROVE  IInv'
<1>t. Types
  BY TypeParts DEF IInv
<1>1. /\ pc[r] = "new" /\ s \notin creating /\ at[r] = "none"
      /\ pc' = [pc EXCEPT ![r] = IF guests[s] # "none" THEN "ensured" ELSE "resolving"]
      /\ at' = [at EXCEPT ![r] = s] /\ streamed' = [streamed EXCEPT ![r] = stream]
      /\ overlapped' = IF OpenChats(s) = {} /\ s \notin dropping THEN overlapped
                       ELSE overlapped \cup OpenChats(s) \cup {r}
      /\ UNCHANGED <<reply, guests, creating, dropping, streamers, coreVars, readVars>>
  BY DEF Ask, IInv, ChatsInv
<1>2. \/ stream /\ UNCHANGED <<activeTurns, cache>>
      \/ ~stream /\ activeTurns' = activeTurns \cup {s} /\ cache' = Without(s)
  BY DEF Ask, BeginTurn
<1>3. /\ pc' \in [Chat -> {"new", "done", "failed"} \cup Underway]
      /\ at' \in [Chat -> Session \cup {"none"}] /\ streamed' \in [Chat -> BOOLEAN]
      /\ pc'[r] \in {"ensured", "resolving"} /\ at'[r] = s /\ streamed'[r] = stream
      /\ IsOpen(r)' /\ ~IsOpen(r) /\ (Opened(r)' <=> ~stream)
      /\ \A q \in Chat \ {r} : /\ pc'[q] = pc[q] /\ streamed'[q] = streamed[q]
                               /\ at'[q] = at[q] /\ (Opened(q)' <=> Opened(q))
                               /\ (IsOpen(q)' <=> IsOpen(q))
  BY <1>t, <1>1 DEF Types, ChatType, IsOpen, Underway, Opened
<1>4. CacheType(cache') /\ \A u : Holds(cache', u) => Holds(cache, u)
  BY <1>t, <1>2, WithoutFacts DEF Types, MarkersType
<1>5. ~stream => ~Holds(cache', s)
  BY <1>t, <1>2, WithoutFacts DEF Types, MarkersType
<1>6. Types'
  <2>1. MarkersType'
    BY <1>t, <1>1, <1>2, <1>4 DEF Types, MarkersType
  <2>2. GuestsType' /\ CoreType' /\ ReadType'
    BY <1>t, <1>1 DEF Types, GuestsType, CoreType, ReadType, coreVars, readVars
  <2>3. overlapped' \subseteq Chat
    BY <1>t, <1>1 DEF Types, ChatType, OpenChats
  <2>4. ChatType'
    BY <1>t, <1>1, <1>3, <2>3 DEF Types, ChatType
  <2> QED BY <2>1, <2>2, <2>4 DEF Types
<1>7. ChatsInv'
  <2>1. ASSUME NEW q \in Chat
        PROVE  /\ pc'[q] # "new" => at'[q] \in Session
               /\ pc'[q] = "new" => at'[q] = "none"
               /\ ~IsOpen(q)' => ~streamed'[q]
    <3>1. CASE q = r
      BY <1>3, <3>1
    <3>2. CASE q # r
      BY <1>3, <3>2 DEF IInv, ChatsInv
    <3> QED BY <3>1, <3>2
  <2> QED BY <2>1 DEF ChatsInv
<1>8. OverlapInv'
  <2> SUFFICES ASSUME NEW p \in Chat, NEW q \in Chat, p # q, IsOpen(p)', IsOpen(q)',
                      at'[p] = at'[q]
               PROVE  p \in overlapped'
    BY DEF OverlapInv
  <2>1. CASE p # r /\ q # r
    BY <1>1, <1>3, <2>1 DEF IInv, OverlapInv
  <2>2. CASE p = r \/ q = r
    <3>1. PICK o \in {p, q} : o # r /\ IsOpen(o) /\ at[o] = s
      BY <1>3, <2>2
    <3>2. o \in OpenChats(s)
      BY <3>1 DEF OpenChats, IsOpen
    <3> QED BY <1>1, <2>2, <3>1, <3>2
  <2> QED BY <2>1, <2>2
<1>9. NoSnapshotInFlight'
  BY <1>2, <1>4, <1>5 DEF IInv, NoSnapshotInFlight, Cached, Holds
<1>10. MarkInv'
  <2>1. ASSUME NEW u \in Session, u \in activeTurns' PROVE \E q \in OpenChats(u)' : Opened(q)'
    <3>1. CASE u \in activeTurns
      <4>1. PICK q \in Chat : IsOpen(q) /\ at[q] = u /\ Opened(q)
        BY <3>1 DEF IInv, MarkInv, OpenChats, IsOpen
      <4> QED BY <1>3, <4>1 DEF OpenChats, IsOpen
    <3>2. CASE u \notin activeTurns
      <4>1. u = s /\ ~stream
        BY <1>2, <2>1, <3>2
      <4> QED BY <1>3, <4>1 DEF OpenChats, IsOpen
    <3> QED BY <3>1, <3>2
  <2>2. ASSUME NEW u \in Session, NEW q \in Chat, streamers'[u] = q
        PROVE  IsOpen(q)' /\ at'[q] = u /\ Opened(q)' /\ streamed'[q]
    <3>1. IsOpen(q) /\ at[q] = u /\ Opened(q) /\ streamed[q]
      BY <1>1, <2>2 DEF IInv, MarkInv
    <3> QED BY <1>3, <3>1
  <2> QED BY <2>1, <2>2 DEF MarkInv
<1>11. LoneMarkInv'
  <2> SUFFICES ASSUME NEW q \in Chat \ overlapped', IsOpen(q)', Opened(q)'
               PROVE  at'[q] \in activeTurns' /\ (streamed'[q] => streamers'[at'[q]] = q)
    BY DEF LoneMarkInv
  <2>1. CASE q = r
    BY <1>2, <1>3, <2>1
  <2>2. CASE q # r
    BY <1>1, <1>2, <1>3, <2>2 DEF IInv, LoneMarkInv
  <2> QED BY <2>1, <2>2
<1>12. MessageInv'
  <2>1. \A q \in Chat : \/ q # r /\ pc'[q] = pc[q] /\ at'[q] = at[q] /\ reply'[q] = reply[q]
                        \/ q = r /\ pc[q] \in Unsent /\ pc'[q] \in Unsent
    BY <1>1, <1>3 DEF Unsent
  <2>2. UNCHANGED <<queue, running, log>> /\ overlapped \subseteq overlapped'
    BY <1>1 DEF coreVars
  <2> QED BY <2>1, <2>2 DEF IInv, MessageInv, InTurn, Unsent, Nowhere, IsLast
<1>13. OwnerInv' /\ OwnedIsLive'
  <2>1. \A q \in Chat : pc'[q] = "resumed" => q # r /\ pc[q] = "resumed"
    BY <1>3
  <2> QED BY <1>1, <1>3, <2>1 DEF IInv, OwnerInv, OwnedIsLive, coreVars
<1>14. TypeOK'
  BY <1>6, TypeParts, PTL
<1> QED BY <1>7, <1>8, <1>9, <1>10, <1>11, <1>12, <1>13, <1>14 DEF IInv

\* The message is sent: a stream subscribes and marks its turn at the same time.
LEMMA FollowupKeeps ==
  ASSUME IInv, NEW r \in Chat, Followup(r)
  PROVE  IInv'
<1>t. Types
  BY TypeParts DEF IInv
<1>o. pc[r] = "ensured" /\ IsOpen(r)
  BY DEF Followup, IsOpen, Underway
<1>1. CASE Ends(r, "failed")
  BY <1>o, <1>1, EndsKeeps
<1>2. CASE ~Ends(r, "failed")
  <2>0. PICK s \in Session : at[r] = s
    BY <1>o DEF IInv, ChatsInv
  <2>1. /\ Subscribe(r)
        /\ IF running[s] = "none" THEN Claims(s, Append(queue[s], r))
           ELSE /\ queue' = [queue EXCEPT ![s] = Append(@, r)] /\ UNCHANGED running
        /\ pc' = [pc EXCEPT ![r] = "waiting"] /\ UNCHANGED <<at, streamed, reply>>
        /\ UNCHANGED <<guests, creating, dropping, agents, stored, log, readVars, overlapped>>
    BY <1>2, <2>0 DEF Followup, Goes
  <2>2. \/ /\ streamed[r] /\ streamers' = [streamers EXCEPT ![s] = r]
           /\ activeTurns' = activeTurns \cup {s} /\ cache' = Without(s)
        \/ ~streamed[r] /\ UNCHANGED <<streamers, activeTurns, cache>>
    BY <2>0, <2>1 DEF Subscribe, BeginTurn
  <2>3. /\ pc' \in [Chat -> {"new", "done", "failed"} \cup Underway] /\ pc'[r] = "waiting"
        /\ IsOpen(r)' /\ Opened(r)' /\ (Opened(r) <=> ~streamed[r])
        /\ \A q \in Chat \ {r} : pc'[q] = pc[q] /\ (Opened(q)' <=> Opened(q))
        /\ \A q \in Chat : IsOpen(q)' <=> IsOpen(q)
    BY <1>t, <1>o, <2>1 DEF Types, ChatType, IsOpen, Underway, Opened
  <2>4. CacheType(cache') /\ \A u : Holds(cache', u) => Holds(cache, u)
    BY <1>t, <2>2, WithoutFacts DEF Types, MarkersType
  <2>5. streamed[r] => ~Holds(cache', s)
    BY <1>t, <2>2, WithoutFacts DEF Types, MarkersType
  \* The message comes last, and is claimed only from an empty queue.
  <2>6. \A u \in Session : ~In(r, log[u]) /\ ~In(r, queue[u]) /\ running[u] # r
    BY <1>o DEF IInv, MessageInv, Unsent, Nowhere
  <2>7. /\ queue' \in [Session -> Seq(Message)] /\ running' \in [Session -> Message \cup {"none"}]
        /\ \A u \in Session \ {s} : queue'[u] = queue[u] /\ running'[u] = running[u]
        /\ \A q \in Chat \ {r} : ~In(q, queue[s]) /\ running[s] # q =>
                                  ~In(q, queue'[s]) /\ running'[s] # q
        /\ AtEnd(r, queue'[s]) /\ (running'[s] = r => queue'[s] = <<>>)
    <3> DEFINE w == Append(queue[s], r)
    <3>1. /\ w \in Seq(Message) /\ w # <<>> /\ AtEnd(r, w)
          /\ \A q : In(q, w) <=> In(q, queue[s]) \/ q = r
      BY <1>t, <2>6, AppendFacts DEF Types, CoreType, Message
    <3> HIDE DEF w
    <3>2. CASE running[s] = "none"
      <4>1. Claims(s, w)
        BY <2>1, <3>2 DEF w
      <4>2. /\ queue' \in [Session -> Seq(Message)] /\ running' \in [Session -> Message \cup {"none"}]
            /\ \A t \in Session \ {s} : queue'[t] = queue[t] /\ running'[t] = running[t]
            /\ \A q : In(q, queue'[s]) => In(q, w)
            /\ \A q \in Chat : running'[s] = q => In(q, w)
            /\ \A q \in Chat : AtEnd(q, w) => /\ AtEnd(q, queue'[s])
                                              /\ (running'[s] = q => queue'[s] = <<>>)
        BY <1>t, <3>1, <4>1, ClaimsFacts DEF Types
      <4> QED BY <3>1, <4>2
    <3>3. CASE running[s] # "none"
      <4>1. queue' = [queue EXCEPT ![s] = w] /\ running' = running
        BY <2>1, <3>3 DEF w
      <4>2. queue'[s] = w /\ \A t \in Session \ {s} : queue'[t] = queue[t]
        BY <1>t, <4>1 DEF Types, CoreType
      <4>3. queue' \in [Session -> Seq(Message)]
        BY <1>t, <3>1, <4>1 DEF Types, CoreType
      <4> QED BY <1>t, <2>6, <3>1, <4>1, <4>2, <4>3 DEF Types, CoreType
    <3> QED BY <3>2, <3>3
  <2>8. Types'
    <3>1. MarkersType'
      BY <1>t, <2>2, <2>4 DEF Types, MarkersType
    <3>2. GuestsType' /\ ReadType'
      BY <1>t, <2>1 DEF Types, GuestsType, ReadType, readVars
    <3>3. CoreType'
      BY <1>t, <2>1, <2>7 DEF Types, CoreType
    <3>4. ChatType'
      BY <1>t, <2>1, <2>3 DEF Types, ChatType
    <3> QED BY <3>1, <3>2, <3>3, <3>4 DEF Types
  <2>9. ChatsInv' /\ OverlapInv'
    <3>1. \A q \in Chat : pc'[q] = "new" <=> pc[q] = "new"
      BY <1>o, <2>3
    <3> QED BY <2>1, <2>3, <3>1 DEF IInv, ChatsInv, OverlapInv
  <2>10. NoSnapshotInFlight'
    BY <2>2, <2>4, <2>5 DEF IInv, NoSnapshotInFlight, Cached, Holds
  <2>11. MarkInv'
    <3>1. ASSUME NEW u \in Session, u \in activeTurns' PROVE \E q \in OpenChats(u)' : Opened(q)'
      <4>1. CASE u = s
        BY <2>0, <2>1, <2>3, <4>1 DEF OpenChats, IsOpen
      <4>2. CASE u # s
        <5>1. PICK q \in Chat : IsOpen(q) /\ at[q] = u /\ Opened(q)
          BY <2>2, <3>1, <4>2 DEF IInv, MarkInv, OpenChats, IsOpen
        <5> QED BY <2>0, <2>1, <2>3, <4>2, <5>1 DEF OpenChats, IsOpen
      <4> QED BY <4>1, <4>2
    <3>2. ASSUME NEW u \in Session, NEW q \in Chat, streamers'[u] = q
          PROVE  IsOpen(q)' /\ at'[q] = u /\ Opened(q)' /\ streamed'[q]
      <4>1. (q = r /\ u = s /\ streamed[r]) \/ streamers[u] = q
        BY <1>t, <2>2, <3>2 DEF Types, MarkersType
      <4>2. CASE streamers[u] = q
        BY <2>1, <2>3, <4>2 DEF IInv, MarkInv
      <4> QED BY <2>0, <2>1, <2>3, <4>1, <4>2
    <3> QED BY <3>1, <3>2 DEF MarkInv
  <2>12. LoneMarkInv'
    <3> SUFFICES ASSUME NEW q \in Chat \ overlapped, IsOpen(q)', Opened(q)'
                 PROVE  at[q] \in activeTurns' /\ (streamed[q] => streamers'[at[q]] = q)
      BY <2>1 DEF LoneMarkInv
    <3>1. CASE q = r /\ streamed[r]
      BY <1>t, <2>0, <2>2, <3>1 DEF Types, MarkersType
    <3>2. CASE q = r /\ ~streamed[r]
      BY <1>o, <2>2, <2>3, <3>2 DEF IInv, LoneMarkInv
    <3>3. CASE q # r
      <4>1. at[q] # s /\ at[q] \in Session
        BY <1>o, <2>0, <2>3, <3>3 DEF IInv, OverlapInv, ChatsInv, IsOpen, Underway
      <4>2. at[q] \in activeTurns /\ (streamed[q] => streamers[at[q]] = q)
        BY <2>3, <3>3 DEF IInv, LoneMarkInv
      <4> QED BY <1>t, <2>2, <4>1, <4>2 DEF Types, MarkersType
    <3> QED BY <3>1, <3>2, <3>3
  <2>13. MessageInv'
    <3> SUFFICES ASSUME NEW q \in Chat
                 PROVE  /\ pc'[q] \in Unsent => Nowhere(q)'
                        /\ InTurn(q)' /\ q \notin overlapped => IsLast(q, at[q])'
      BY <2>1 DEF MessageInv
    <3>1. CASE q = r
      <4>1. IsLast(r, s)'
        BY <2>1, <2>3, <2>6, <2>7 DEF IsLast
      <4> QED BY <2>0, <2>1, <2>3, <3>1, <4>1 DEF Unsent
    <3>2. CASE q # r
      <4>1. Nowhere(q) => Nowhere(q)'
        BY <2>1, <2>7, <3>2 DEF Nowhere
      <4>2. ASSUME InTurn(q)', q \notin overlapped
            PROVE  IsLast(q, at[q]) /\ (IsLast(q, at[q]) => IsLast(q, at[q])')
        <5>1. InTurn(q) /\ IsOpen(q) /\ pc'[q] = pc[q]
          BY <2>3, <3>2, <4>2 DEF InTurn, IsOpen, Underway
        <5>2. at[q] # s /\ at[q] \in Session
          BY <1>o, <2>0, <3>2, <4>2, <5>1 DEF IInv, OverlapInv, ChatsInv, IsOpen, Underway
        <5>3. IsLast(q, at[q])
          BY <4>2, <5>1 DEF IInv, MessageInv
        <5> QED BY <2>1, <2>7, <5>1, <5>2, <5>3 DEF IsLast
      <4> QED BY <2>3, <3>2, <4>1, <4>2 DEF IInv, MessageInv
    <3> QED BY <3>1, <3>2
  <2>14. OwnerInv' /\ OwnedIsLive'
    BY <2>1, <2>3, OwnersKept DEF IInv
  <2>15. TypeOK'
    BY <2>8, TypeParts, PTL
  <2> QED BY <2>9, <2>10, <2>11, <2>12, <2>13, <2>14, <2>15 DEF IInv
<1> QED BY <1>1, <1>2

\* Every step keeps the invariant.
LEMMA NextIInv == IInv /\ [Next]_vars => IInv'
<1> SUFFICES ASSUME IInv, [Next]_vars PROVE IInv'
  OBVIOUS
<1>t. /\ Types /\ ChatsInv /\ MarkInv /\ NoSnapshotInFlight
      /\ OverlapInv /\ LoneMarkInv /\ MessageInv /\ OwnerInv /\ OwnedIsLive
      /\ GuestsType /\ MarkersType /\ CoreType /\ ChatType /\ ReadType
  BY TypeParts DEF IInv, Types
<1>0. ASSUME Types', ChatsInv' /\ MarkInv' /\ NoSnapshotInFlight' /\ OverlapInv' /\ LoneMarkInv',
             MessageInv', OwnerInv' /\ OwnedIsLive'
      PROVE  IInv'
  <2>1. TypeOK'
    BY <1>0, TypeParts, PTL
  <2> QED BY <1>0, <2>1 DEF IInv
\* A step that moves no chat and leaves the markers alone.
<1>m. ASSUME UNCHANGED <<activeTurns, cache, streamers, pc, at, streamed>>,
             overlapped \subseteq overlapped'
      PROVE  ChatsInv' /\ MarkInv' /\ NoSnapshotInFlight' /\ OverlapInv' /\ LoneMarkInv'
  <2>1. \A r \in Chat : /\ IsOpen(r)' <=> IsOpen(r)
                        /\ Opened(r)' <=> Opened(r)
                        /\ pc'[r] = "new" <=> pc[r] = "new"
    BY <1>m DEF IsOpen, Opened
  <2> QED BY <1>m, <1>t, <2>1, MarksKept
<1>1. ASSUME NEW s \in Session, CreateGuest(s) PROVE IInv'
  <2>1. /\ s \notin creating /\ (\A r \in Chat : at[r] # s) /\ creating' = creating \cup {s}
        /\ UNCHANGED <<guests, dropping, activeTurns, cache, streamers, coreVars, chatVars,
                       readVars, overlapped>>
    BY <1>1 DEF CreateGuest, Fresh
  <2>2. Types'
    BY <1>t, <2>1 DEF Types, GuestsType, MarkersType, CoreType, ChatType, ReadType, coreVars,
                      chatVars, readVars
  <2>3. ChatsInv' /\ MarkInv' /\ NoSnapshotInFlight' /\ OverlapInv' /\ LoneMarkInv'
    BY <1>m, <2>1 DEF chatVars
  <2>4. MessageInv'
    BY <1>t, <2>1, MessagesKept DEF chatVars, coreVars
  <2>5. OwnerInv' /\ OwnedIsLive'
    BY <1>t, <2>1 DEF OwnerInv, OwnedIsLive, chatVars, coreVars
  <2> QED BY <1>0, <2>2, <2>3, <2>4, <2>5
<1>2. ASSUME NEW s \in Session, Created(s) PROVE IInv'
  <2>1. /\ s \in creating /\ creating' = creating \ {s}
        /\ \/ UNCHANGED <<guests, agents, stored>>
           \/ /\ guests' = [guests EXCEPT ![s] = "owned"]
              /\ agents' = [agents EXCEPT ![s] = "live"] /\ stored' = stored \cup {s}
        /\ UNCHANGED <<dropping, activeTurns, cache, streamers, queue, running, log,
                       chatVars, readVars, overlapped>>
    BY <1>2 DEF Created
  <2>2. Types'
    <3>1. GuestsType' /\ CoreType'
      BY <1>t, <2>1 DEF GuestsType, CoreType
    <3>2. MarkersType' /\ ChatType' /\ ReadType'
      BY <1>t, <2>1 DEF MarkersType, ChatType, ReadType, chatVars, readVars
    <3> QED BY <3>1, <3>2 DEF Types
  <2>3. ChatsInv' /\ MarkInv' /\ NoSnapshotInFlight' /\ OverlapInv' /\ LoneMarkInv'
    BY <1>m, <2>1 DEF chatVars
  <2>4. MessageInv'
    BY <1>t, <2>1, MessagesKept DEF chatVars
  <2>5. \A r \in Chat : at[r] # s
    BY <1>t, <2>1 DEF OwnerInv
  <2>6. \A u \in Session : \/ guests'[u] = guests[u] /\ agents'[u] = agents[u]
                           \/ u = s /\ guests'[u] = "owned" /\ agents'[u] = "live"
    BY <1>t, <2>1 DEF GuestsType, CoreType
  <2>7. \A r \in Chat : pc[r] = "resumed" => at[r] \in Session
    BY <1>t DEF ChatsInv
  <2>8. OwnerInv' /\ OwnedIsLive'
    BY <1>t, <2>1, <2>5, <2>6, <2>7 DEF OwnerInv, OwnedIsLive, chatVars
  <2> QED BY <1>0, <2>2, <2>3, <2>4, <2>8
\* The chats of the session overlap from here on, whatever becomes of their messages.
<1>3. ASSUME NEW s \in Session, DropGuest(s) PROVE IInv'
  <2>1. /\ dropping' = dropping \cup {s} /\ guests' = [guests EXCEPT ![s] = "none"]
        /\ \/ /\ guests[s] = "owned" /\ agents' = [agents EXCEPT ![s] = "closing"]
              /\ queue' = [queue EXCEPT ![s] = <<>>]
           \/ UNCHANGED <<agents, queue>>
        /\ overlapped' = overlapped \cup OpenChats(s)
        /\ UNCHANGED <<creating, activeTurns, cache, streamers, stored, running, log,
                       chatVars, readVars>>
    BY <1>3 DEF DropGuest, EntryRemoved
  <2>2. OpenChats(s) \subseteq Chat
    BY DEF OpenChats
  <2>3. Types'
    <3>1. CoreType'
      <4>1. <<>> \in Seq(Message)
        BY EmptySeq
      <4> QED BY <1>t, <2>1, <4>1 DEF CoreType
    <3> QED BY <1>t, <2>1, <2>2, <3>1 DEF Types, GuestsType, MarkersType, ChatType, ReadType,
                                          chatVars, readVars
  <2>4. ChatsInv' /\ MarkInv' /\ NoSnapshotInFlight' /\ OverlapInv' /\ LoneMarkInv'
    BY <1>m, <2>1 DEF chatVars
  <2>5. \A u \in Session : queue'[u] = queue[u] \/ queue'[u] = <<>>
    BY <1>t, <2>1 DEF CoreType
  <2>6. \A r : ~In(r, <<>>) /\ AtEnd(r, <<>>)
    BY DEF In, AtEnd
  <2>7. MessageInv'
    <3>1. ASSUME NEW r \in Chat, pc[r] \in Unsent PROVE Nowhere(r)'
      BY <1>t, <2>1, <2>5, <2>6, <3>1 DEF MessageInv, Nowhere
    <3>2. ASSUME NEW r \in Chat, InTurn(r), r \notin overlapped' PROVE IsLast(r, at[r])'
      <4>1. IsLast(r, at[r]) /\ at[r] \in Session
        BY <1>t, <2>1, <3>2 DEF MessageInv, ChatsInv, InTurn
      <4> QED BY <2>1, <2>5, <2>6, <4>1 DEF IsLast, chatVars
    <3> QED BY <2>1, <3>1, <3>2 DEF MessageInv, chatVars, InTurn
  <2>8. \A r \in Chat : pc[r] = "resumed" => at[r] \in Session
    BY <1>t DEF ChatsInv
  <2>9. \A u \in Session : /\ guests'[u] = "owned" => guests[u] = "owned" /\ agents'[u] = agents[u]
                           /\ guests[u] # "owned" => agents'[u] = agents[u]
    BY <1>t, <2>1 DEF GuestsType, CoreType
  <2>10. OwnedIsLive'
    BY <1>t, <2>9 DEF OwnedIsLive
  <2>11. OwnerInv'
    BY <1>t, <2>1, <2>8, <2>9 DEF OwnerInv, chatVars
  <2> QED BY <1>0, <2>3, <2>4, <2>7, <2>10, <2>11
<1>4. ASSUME NEW s \in Session, Dropped(s) PROVE IInv'
  <2>1. /\ dropping' = dropping \ {s} /\ cache' = Without(s)
        /\ UNCHANGED <<guests, creating, activeTurns, streamers, coreVars, chatVars, readVars,
                       overlapped>>
    BY <1>4 DEF Dropped
  <2>2. CacheType(cache') /\ \A u : Holds(cache', u) => Holds(cache, u)
    BY <1>t, <2>1, WithoutFacts DEF MarkersType
  <2>3. Types'
    BY <1>t, <2>1, <2>2 DEF Types, GuestsType, MarkersType, CoreType, ChatType, ReadType,
                            coreVars, chatVars, readVars
  <2>4. NoSnapshotInFlight'
    BY <1>t, <2>1, <2>2 DEF NoSnapshotInFlight, Cached, Holds
  <2>5. ChatsInv' /\ MarkInv' /\ OverlapInv' /\ LoneMarkInv'
    BY <1>t, <2>1 DEF ChatsInv, MarkInv, OverlapInv, LoneMarkInv, IsOpen, Opened, OpenChats,
                      chatVars
  <2>6. MessageInv'
    BY <1>t, <2>1, MessagesKept DEF chatVars, coreVars
  <2>7. OwnerInv' /\ OwnedIsLive'
    BY <1>t, <2>1, OwnersKept DEF chatVars, coreVars
  <2> QED BY <1>0, <2>3, <2>4, <2>5, <2>6, <2>7
<1>5. ASSUME NEW s \in Session, TurnAnswers(s) PROVE IInv'
  <2>1. /\ running[s] # "none" /\ log' = [log EXCEPT ![s] = Append(@, running[s])]
        /\ \/ Claims(s, queue[s])
           \/ running' = [running EXCEPT ![s] = "none"] /\ queue' = queue
        /\ UNCHANGED <<serverVars, agents, stored, chatVars, readVars, overlapped>>
    BY <1>5 DEF TurnAnswers
  <2>2. queue[s] \in Seq(Message) /\ log[s] \in Seq(Message) /\ running[s] \in Message
    BY <1>t, <2>1 DEF CoreType
  <2>3. /\ queue' \in [Session -> Seq(Message)] /\ running' \in [Session -> Message \cup {"none"}]
        /\ \A u \in Session \ {s} : queue'[u] = queue[u] /\ running'[u] = running[u]
        /\ queue[s] = <<>> => queue'[s] = <<>> /\ running'[s] = "none"
        /\ \A r : In(r, queue'[s]) => In(r, queue[s])
        /\ \A r \in Chat : running'[s] = r => In(r, queue[s])
        /\ \A r \in Chat : AtEnd(r, queue[s]) => /\ AtEnd(r, queue'[s])
                                                 /\ (running'[s] = r => queue'[s] = <<>>)
    <3>1. CASE Claims(s, queue[s])
      BY <1>t, <2>2, <3>1, ClaimsFacts
    <3>2. CASE running' = [running EXCEPT ![s] = "none"] /\ queue' = queue
      BY <1>t, <3>2, NoneIsNoId DEF CoreType
    <3> QED BY <2>1, <3>1, <3>2
  <2>4. /\ log' \in [Session -> Seq(Message)] /\ log'[s][Len(log'[s])] = running[s]
        /\ \A u \in Session \ {s} : log'[u] = log[u]
        /\ \A r : In(r, log'[s]) <=> In(r, log[s]) \/ r = running[s]
    <3>1. log'[s] = Append(log[s], running[s]) /\ \A u \in Session \ {s} : log'[u] = log[u]
      BY <1>t, <2>1 DEF CoreType
    <3>2. /\ Append(log[s], running[s]) \in Seq(Message)
          /\ Append(log[s], running[s])[Len(Append(log[s], running[s]))] = running[s]
          /\ \A r : In(r, Append(log[s], running[s])) <=> In(r, log[s]) \/ r = running[s]
      BY <2>2, AppendFacts
    <3>3. log' \in [Session -> Seq(Message)]
      BY <1>t, <2>1, <3>2 DEF CoreType
    <3> QED BY <3>1, <3>2, <3>3
  <2>5. Types'
    <3>1. CoreType'
      BY <1>t, <2>1, <2>3, <2>4 DEF CoreType
    <3> QED BY <1>t, <2>1, <3>1 DEF Types, GuestsType, MarkersType, ChatType, ReadType,
                                    serverVars, chatVars, readVars
  <2>6. ChatsInv' /\ MarkInv' /\ NoSnapshotInFlight' /\ OverlapInv' /\ LoneMarkInv'
    BY <1>m, <2>1 DEF serverVars, chatVars
  <2>7. MessageInv'
    <3>1. ASSUME NEW r \in Chat, pc[r] \in Unsent PROVE Nowhere(r)'
      BY <1>t, <2>3, <2>4, <3>1 DEF MessageInv, Nowhere
    <3>2. ASSUME NEW r \in Chat, InTurn(r), r \notin overlapped PROVE IsLast(r, at[r])'
      <4>1. IsLast(r, at[r]) /\ at[r] \in Session
        BY <1>t, <3>2 DEF MessageInv, ChatsInv, InTurn
      <4>2. CASE at[r] # s
        BY <2>1, <2>3, <2>4, <4>1, <4>2 DEF IsLast, chatVars
      <4>3. CASE at[r] = s
        <5>1. ~In(r, log[s]) /\ pc[r] \notin {"reading", "read"}
          BY <2>1, <4>1, <4>3 DEF IsLast
        <5>2. /\ AtEnd(r, queue'[s]) /\ (running'[s] = r => queue'[s] = <<>>)
              /\ In(r, log'[s]) => /\ log'[s][Len(log'[s])] = r
                                   /\ queue'[s] = <<>> /\ running'[s] = "none"
          BY <2>3, <2>4, <4>1, <4>3, <5>1 DEF IsLast
        <5> QED BY <2>1, <4>3, <5>1, <5>2 DEF IsLast, chatVars
      <4> QED BY <4>2, <4>3
    <3> QED BY <2>1, <3>1, <3>2 DEF MessageInv, chatVars, InTurn
  <2>8. OwnerInv' /\ OwnedIsLive'
    BY <1>t, <2>1, OwnersKept DEF serverVars, chatVars
  <2> QED BY <1>0, <2>5, <2>6, <2>7, <2>8
\* A turn fails, or a disposal goes on from an agent that is quiet.
<1>6. ASSUME NEW s \in Session, TurnFails(s) \/ AgentQuiet(s) PROVE IInv'
  <2>1. /\ \/ running' = [running EXCEPT ![s] = "none"] /\ UNCHANGED agents
           \/ /\ agents[s] = "closing" /\ agents' = [agents EXCEPT ![s] = "unwinding"]
              /\ UNCHANGED running
        /\ UNCHANGED <<serverVars, stored, queue, log, chatVars, readVars, overlapped>>
    BY <1>6 DEF TurnFails, AgentQuiet
  <2>2. Types'
    <3>1. CoreType'
      BY <1>t, <2>1 DEF CoreType
    <3> QED BY <1>t, <2>1, <3>1 DEF Types, GuestsType, MarkersType, ChatType, ReadType,
                                    serverVars, chatVars, readVars
  <2>3. ChatsInv' /\ MarkInv' /\ NoSnapshotInFlight' /\ OverlapInv' /\ LoneMarkInv'
    BY <1>m, <2>1 DEF serverVars, chatVars
  <2>4. \A u \in Session : running'[u] = running[u] \/ running'[u] = "none"
    BY <1>t, <2>1 DEF CoreType
  <2>5. \A r \in Chat : r # "none"
    BY NoneIsNoId
  <2>6. MessageInv'
    <3>1. ASSUME NEW r \in Chat, pc[r] \in Unsent PROVE Nowhere(r)'
      BY <1>t, <2>1, <2>4, <2>5, <3>1 DEF MessageInv, Nowhere
    <3>2. ASSUME NEW r \in Chat, InTurn(r), r \notin overlapped PROVE IsLast(r, at[r])'
      <4>1. IsLast(r, at[r]) /\ at[r] \in Session
        BY <1>t, <3>2 DEF MessageInv, ChatsInv, InTurn
      <4> QED BY <2>1, <2>4, <2>5, <4>1 DEF IsLast, chatVars
    <3> QED BY <2>1, <3>1, <3>2 DEF MessageInv, chatVars, InTurn
  <2>7. \A u \in Session : agents'[u] = agents[u] \/ agents[u] = "closing"
    BY <1>t, <2>1 DEF CoreType
  <2>8. \A r \in Chat : pc[r] = "resumed" => at[r] \in Session
    BY <1>t DEF ChatsInv
  <2>9. OwnerInv' /\ OwnedIsLive'
    BY <1>t, <2>1, <2>7, <2>8 DEF OwnerInv, OwnedIsLive, serverVars, chatVars
  <2> QED BY <1>0, <2>2, <2>3, <2>6, <2>9
\* An agent leaves: its turn is seen no more, its messages stay in the log.
<1>61. ASSUME NEW s \in Session, AgentGone(s) PROVE IInv'
  <2>1. /\ agents[s] = "unwinding" /\ agents' = [agents EXCEPT ![s] = "none"]
        /\ running' = [running EXCEPT ![s] = "none"]
        /\ pc' = [r \in Chat |->
                    IF pc[r] = "waiting" /\ at[r] = s THEN "reading" ELSE pc[r]]
        /\ UNCHANGED <<serverVars, stored, queue, log, at, streamed, reply, readVars,
                       overlapped>>
    BY <1>61 DEF AgentGone
  <2>2. \A r \in Chat : \/ pc'[r] = pc[r]
                        \/ pc[r] = "waiting" /\ pc'[r] = "reading" /\ at[r] = s
    <3>1. ASSUME NEW r \in Chat
          PROVE  \/ pc'[r] = pc[r]
                 \/ pc[r] = "waiting" /\ pc'[r] = "reading" /\ at[r] = s
      <4>1. pc'[r] = IF pc[r] = "waiting" /\ at[r] = s THEN "reading" ELSE pc[r]
        BY <2>1
      <4> QED BY <4>1
    <3> QED BY <3>1
  <2>3. pc' \in [Chat -> {"new", "done", "failed"} \cup Underway]
    <3>1. ASSUME NEW r \in Chat
          PROVE  (IF pc[r] = "waiting" /\ at[r] = s THEN "reading" ELSE pc[r])
                   \in {"new", "done", "failed"} \cup Underway
      BY <1>t DEF ChatType, Underway
    <3> QED BY <2>1, <3>1
  <2>4. Types'
    <3>1. CoreType'
      BY <1>t, <2>1 DEF CoreType
    <3>2. ChatType'
      BY <1>t, <2>1, <2>3 DEF ChatType
    <3> QED BY <1>t, <2>1, <3>1, <3>2 DEF Types, GuestsType, MarkersType, ReadType, serverVars,
                                          readVars
  <2>5. ChatsInv' /\ MarkInv' /\ NoSnapshotInFlight' /\ OverlapInv' /\ LoneMarkInv'
    <3>1. \A r \in Chat : /\ IsOpen(r)' <=> IsOpen(r)
                          /\ Opened(r)' <=> Opened(r)
                          /\ pc'[r] = "new" <=> pc[r] = "new"
      BY <2>1, <2>2 DEF IsOpen, Opened, Underway
    <3> QED BY <1>t, <2>1, <3>1, MarksKept DEF serverVars
  <2>6. \A u \in Session : /\ u # s => running'[u] = running[u] /\ agents'[u] = agents[u]
                           /\ running'[s] = "none"
    BY <1>t, <2>1 DEF CoreType
  <2>7. MessageInv'
    <3>1. ASSUME NEW r \in Chat, pc'[r] \in Unsent PROVE Nowhere(r)'
      <4>1. Nowhere(r) /\ r # "none"
        BY <1>t, <2>2, <3>1, NoneIsNoId DEF MessageInv, Unsent
      <4> QED BY <2>1, <2>6, <4>1 DEF Nowhere
    <3>2. ASSUME NEW r \in Chat, InTurn(r)', r \notin overlapped PROVE IsLast(r, at[r])'
      <4>1. IsLast(r, at[r]) /\ at[r] \in Session /\ r # "none"
        BY <1>t, <2>2, <3>2, NoneIsNoId DEF MessageInv, ChatsInv, InTurn
      <4>2. CASE at[r] = s
        BY <2>1, <2>2, <2>6, <4>1, <4>2 DEF IsLast
      <4>3. CASE at[r] # s
        BY <2>1, <2>2, <2>6, <4>1, <4>3 DEF IsLast
      <4> QED BY <4>2, <4>3
    <3> QED BY <2>1, <3>1, <3>2 DEF MessageInv
  <2>8. OwnerInv' /\ OwnedIsLive'
    <3>1. \A r \in Chat : pc'[r] = "resumed" <=> pc[r] = "resumed"
      BY <2>2
    <3>2. \A r \in Chat : pc[r] = "resumed" => at[r] \in Session
      BY <1>t DEF ChatsInv
    <3>3. \A u \in Session : agents[u] = "live" => agents'[u] = "live"
      BY <2>1, <2>6
    <3>4. OwnedIsLive'
      BY <1>t, <2>1, <3>3 DEF OwnedIsLive, serverVars
    <3>5. OwnerInv'
      BY <1>t, <2>1, <3>1, <3>2, <3>3 DEF OwnerInv, serverVars
    <3> QED BY <3>4, <3>5
  <2> QED BY <1>0, <2>4, <2>5, <2>7, <2>8
<1>7. ASSUME NEW r \in Chat, NEW s \in Session, NEW stream \in BOOLEAN, Ask(r, s, stream)
      PROVE  IInv'
  BY <1>7, AskKeeps
\* An open chat that goes on before its message is sent, or after it is claimed.
<1>8. ASSUME NEW r \in Chat, NEW to \in Underway, pc' = [pc EXCEPT ![r] = to],
             UNCHANGED <<at, streamed, activeTurns, cache, streamers, overlapped>>,
             \/ pc[r] \in Unsent \ {"new"} /\ to \in Unsent
             \/ InTurn(r) /\ to \in {"waiting", "reading", "read"}
      PROVE  /\ ChatsInv' /\ MarkInv' /\ NoSnapshotInFlight' /\ OverlapInv' /\ LoneMarkInv'
             /\ pc' \in [Chat -> {"new", "done", "failed"} \cup Underway]
             /\ pc'[r] = to /\ \A q \in Chat \ {r} : pc'[q] = pc[q]
  <2>1. /\ pc' \in [Chat -> {"new", "done", "failed"} \cup Underway]
        /\ pc'[r] = to /\ \A q \in Chat \ {r} : pc'[q] = pc[q]
    BY <1>t, <1>8 DEF ChatType
  <2>2. \A q \in Chat : /\ IsOpen(q)' <=> IsOpen(q)
                        /\ Opened(q)' <=> Opened(q)
                        /\ pc'[q] = "new" <=> pc[q] = "new"
    BY <1>8, <2>1 DEF IsOpen, Opened, Underway, Unsent, InTurn
  <2>3. ChatsInv' /\ MarkInv' /\ NoSnapshotInFlight' /\ OverlapInv' /\ LoneMarkInv'
    BY <1>8, <1>t, <2>2, MarksKept
  <2> QED BY <2>1, <2>3
<1>9. ASSUME NEW r \in Chat, Resolved(r) PROVE IInv'
  <2>1. pc[r] = "resolving" /\ IsOpen(r)
    BY <1>9 DEF Resolved, IsOpen, Underway
  <2>2. CASE Ends(r, "failed")
    BY <2>1, <2>2, EndsKeeps
  <2>3. CASE ~Ends(r, "failed")
    <3>1. PICK to \in {"ensured", "resuming"} :
            /\ pc' = [pc EXCEPT ![r] = to]
            /\ guests' = guests \/ guests' = [guests EXCEPT ![at[r]] = "adopted"]
            /\ UNCHANGED <<at, streamed, reply, creating, dropping, activeTurns, cache, streamers,
                           coreVars, readVars, overlapped>>
      BY <1>9, <2>3 DEF Resolved, Goes, serverVars
    <3>2. /\ ChatsInv' /\ MarkInv' /\ NoSnapshotInFlight' /\ OverlapInv' /\ LoneMarkInv'
          /\ pc' \in [Chat -> {"new", "done", "failed"} \cup Underway]
          /\ pc'[r] = to /\ \A q \in Chat \ {r} : pc'[q] = pc[q]
      BY <1>8, <2>1, <3>1 DEF Unsent, Underway
    <3>3. Types'
      BY <1>t, <3>1, <3>2 DEF Types, GuestsType, MarkersType, CoreType, ChatType, ReadType,
                              coreVars, readVars
    <3>4. MessageInv'
      <4>1. \A q \in Chat : \/ pc'[q] = pc[q] /\ reply'[q] = reply[q]
                            \/ pc[q] \in Unsent /\ pc'[q] \in Unsent
        BY <2>1, <3>1, <3>2 DEF Unsent
      <4> QED BY <1>t, <3>1, <4>1, MessagesKept DEF coreVars
    <3>5. \A u \in Session : guests'[u] = "owned" => guests[u] = "owned"
      BY <1>t, <3>1 DEF GuestsType
    <3>6. \A q \in Chat : pc'[q] = "resumed" => pc[q] = "resumed" /\ at[q] \in Session
      BY <1>t, <3>1, <3>2 DEF ChatsInv
    <3>7. OwnerInv' /\ OwnedIsLive'
      BY <1>t, <3>1, <3>5, <3>6 DEF OwnerInv, OwnedIsLive, coreVars
    <3> QED BY <1>0, <3>2, <3>3, <3>4, <3>7
  <2> QED BY <2>2, <2>3
\* The agent is live, and was not in the map as owned: an owned one is live.
<1>10. ASSUME NEW r \in Chat, Resume(r) PROVE IInv'
  <2>1. pc[r] = "resuming" /\ IsOpen(r)
    BY <1>10 DEF Resume, IsOpen, Underway
  <2>2. CASE Ends(r, "failed")
    BY <2>1, <2>2, EndsKeeps
  <2>3. CASE ~Ends(r, "failed")
    <3>0. PICK s \in Session : at[r] = s
      BY <1>t, <2>1 DEF ChatsInv
    <3>1. /\ agents[s] = "none" /\ agents' = [agents EXCEPT ![s] = "live"]
          /\ pc' = [pc EXCEPT ![r] = "resumed"] /\ UNCHANGED <<at, streamed, reply>>
          /\ UNCHANGED <<serverVars, stored, queue, running, log, readVars, overlapped>>
      BY <1>10, <2>3, <3>0 DEF Resume, Goes
    <3>2. /\ ChatsInv' /\ MarkInv' /\ NoSnapshotInFlight' /\ OverlapInv' /\ LoneMarkInv'
          /\ pc' \in [Chat -> {"new", "done", "failed"} \cup Underway]
          /\ pc'[r] = "resumed" /\ \A q \in Chat \ {r} : pc'[q] = pc[q]
      BY <1>8, <2>1, <3>1 DEF Unsent, Underway, serverVars
    <3>3. Types'
      BY <1>t, <3>1, <3>2 DEF Types, GuestsType, MarkersType, CoreType, ChatType, ReadType,
                              serverVars, readVars
    <3>4. MessageInv'
      <4>1. \A q \in Chat : \/ pc'[q] = pc[q] /\ reply'[q] = reply[q]
                            \/ pc[q] \in Unsent /\ pc'[q] \in Unsent
        BY <2>1, <3>1, <3>2 DEF Unsent
      <4> QED BY <1>t, <3>1, <4>1, MessagesKept
    <3>5. agents'[s] = "live" /\ \A u \in Session \ {s} : agents'[u] = agents[u]
      BY <1>t, <3>1 DEF CoreType
    <3>6. guests[s] # "owned"
      BY <1>t, <3>1 DEF OwnedIsLive
    <3>7. \A q \in Chat : pc[q] = "resumed" => at[q] # s /\ at[q] \in Session
      BY <1>t, <3>1 DEF OwnerInv, ChatsInv
    <3>8. OwnedIsLive'
      BY <1>t, <3>1, <3>5, <3>6 DEF OwnedIsLive, serverVars
    <3>9. OwnerInv'
      BY <1>t, <3>0, <3>1, <3>2, <3>5, <3>6, <3>7 DEF OwnerInv, serverVars
    <3> QED BY <1>0, <3>2, <3>3, <3>4, <3>8, <3>9
  <2> QED BY <2>2, <2>3
<1>11. ASSUME NEW r \in Chat, Resumed(r) PROVE IInv'
  <2>0. PICK s \in Session : at[r] = s
    BY <1>11, <1>t DEF ChatsInv, Resumed
  <2>1. /\ pc[r] = "resumed" /\ guests' = [guests EXCEPT ![s] = "owned"]
        /\ pc' = [pc EXCEPT ![r] = "ensured"] /\ UNCHANGED <<at, streamed, reply>>
        /\ UNCHANGED <<creating, dropping, activeTurns, cache, streamers, coreVars, readVars,
                       overlapped>>
    BY <1>11, <2>0 DEF Resumed, Goes
  <2>2. /\ ChatsInv' /\ MarkInv' /\ NoSnapshotInFlight' /\ OverlapInv' /\ LoneMarkInv'
        /\ pc' \in [Chat -> {"new", "done", "failed"} \cup Underway]
        /\ pc'[r] = "ensured" /\ \A q \in Chat \ {r} : pc'[q] = pc[q]
    BY <1>8, <2>1 DEF Unsent, Underway
  <2>3. Types'
    BY <1>t, <2>1, <2>2 DEF Types, GuestsType, MarkersType, CoreType, ChatType, ReadType,
                            coreVars, readVars
  <2>4. MessageInv'
    <3>1. \A q \in Chat : \/ pc'[q] = pc[q] /\ reply'[q] = reply[q]
                          \/ pc[q] \in Unsent /\ pc'[q] \in Unsent
      BY <2>1, <2>2 DEF Unsent
    <3> QED BY <1>t, <2>1, <3>1, MessagesKept DEF coreVars
  <2>5. guests'[s] = "owned" /\ \A u \in Session \ {s} : guests'[u] = guests[u]
    BY <1>t, <2>1 DEF GuestsType
  <2>6. agents[s] = "live" /\ \A q \in Chat \ {r} : pc[q] = "resumed" => at[q] # s /\ at[q] \in Session
    BY <1>t, <2>0, <2>1 DEF OwnerInv, ChatsInv
  <2>7. OwnedIsLive'
    BY <1>t, <2>1, <2>5, <2>6 DEF OwnedIsLive, coreVars
  <2>8. OwnerInv'
    BY <1>t, <2>1, <2>2, <2>5, <2>6 DEF OwnerInv, coreVars
  <2> QED BY <1>0, <2>2, <2>3, <2>4, <2>7, <2>8
<1>12. ASSUME NEW r \in Chat, Followup(r) PROVE IInv'
  BY <1>12, FollowupKeeps
\* The agent is idle: nothing of it runs, and nobody sends to it, until the reply is read.
<1>13. ASSUME NEW r \in Chat, WhenIdle(r) PROVE IInv'
  <2>1. /\ pc[r] = "waiting" /\ running[at[r]] = "none" /\ pc' = [pc EXCEPT ![r] = "reading"]
        /\ UNCHANGED <<at, streamed, reply, serverVars, coreVars, readVars, overlapped>>
    BY <1>13 DEF WhenIdle, Idle, Goes
  <2>2. /\ ChatsInv' /\ MarkInv' /\ NoSnapshotInFlight' /\ OverlapInv' /\ LoneMarkInv'
        /\ pc' \in [Chat -> {"new", "done", "failed"} \cup Underway]
        /\ pc'[r] = "reading" /\ \A q \in Chat \ {r} : pc'[q] = pc[q]
    BY <1>8, <2>1 DEF InTurn, Underway, serverVars
  <2>3. Types'
    BY <1>t, <2>1, <2>2 DEF Types, GuestsType, MarkersType, CoreType, ChatType, ReadType,
                            serverVars, coreVars, readVars
  <2>4. MessageInv'
    BY <1>t, <2>1, <2>2 DEF MessageInv, InTurn, Unsent, Nowhere, IsLast, coreVars
  <2>5. OwnerInv' /\ OwnedIsLive'
    BY <1>t, <2>1, <2>2, OwnersKept DEF serverVars, coreVars
  <2> QED BY <1>0, <2>2, <2>3, <2>4, <2>5
<1>14. ASSUME NEW r \in Chat, ReadReply(r) PROVE IInv'
  <2>1. pc[r] = "reading" /\ IsOpen(r)
    BY <1>14 DEF ReadReply, IsOpen, Underway
  <2>2. CASE Ends(r, "failed")
    BY <2>1, <2>2, EndsKeeps
  <2>3. CASE ~Ends(r, "failed")
    <3>0. PICK s \in Session : at[r] = s
      BY <1>t, <2>1 DEF ChatsInv
    <3>1. /\ reply' = [reply EXCEPT ![r] = LatestAnswer(s)] /\ pc' = [pc EXCEPT ![r] = "read"]
          /\ UNCHANGED <<at, streamed, serverVars, coreVars, readVars, overlapped>>
      BY <1>14, <2>3, <3>0 DEF ReadReply
    <3>2. /\ ChatsInv' /\ MarkInv' /\ NoSnapshotInFlight' /\ OverlapInv' /\ LoneMarkInv'
          /\ pc' \in [Chat -> {"new", "done", "failed"} \cup Underway]
          /\ pc'[r] = "read" /\ \A q \in Chat \ {r} : pc'[q] = pc[q]
      BY <1>8, <2>1, <3>1 DEF InTurn, Underway, serverVars
    <3>3. LatestAnswer(s) \in Message \cup {"none"}
      <4>1. log[s] \in Seq(Message)
        BY <1>t DEF CoreType
      <4>2. log[s] # <<>> => Len(log[s]) \in 1..Len(log[s])
        BY <4>1, EmptySeq
      <4> QED BY <4>1, <4>2 DEF LatestAnswer
    <3>4. /\ reply' \in [Chat -> Message \cup {"none"}] /\ reply'[r] = LatestAnswer(s)
          /\ \A q \in Chat \ {r} : reply'[q] = reply[q]
      BY <1>t, <3>1, <3>3 DEF ChatType
    <3>5. Types'
      BY <1>t, <3>1, <3>2, <3>4 DEF Types, GuestsType, MarkersType, CoreType, ChatType, ReadType,
                                    serverVars, coreVars, readVars
    <3>6. MessageInv'
      <4>1. ASSUME NEW q \in Chat PROVE pc'[q] \in Unsent => Nowhere(q)'
        BY <1>t, <3>1, <3>2 DEF MessageInv, Unsent, Nowhere, coreVars
      <4>2. ASSUME NEW q \in Chat, InTurn(q)', q \notin overlapped PROVE IsLast(q, at[q])'
        <5>1. IsLast(q, at[q])
          BY <1>t, <2>1, <3>2, <4>2 DEF MessageInv, InTurn
        <5>2. CASE q = r
          <6>1. In(r, log[s]) => log[s] # <<>> /\ log[s][Len(log[s])] = r
            BY <3>0, <5>1, <5>2 DEF IsLast, In
          <6>2. In(r, log[s]) => reply'[r] = r
            BY <3>4, <6>1 DEF LatestAnswer
          <6> QED BY <2>1, <3>0, <3>1, <5>1, <5>2, <6>2 DEF IsLast, coreVars
        <5>3. CASE q # r
          BY <3>1, <3>2, <3>4, <5>1, <5>3 DEF IsLast, coreVars
        <5> QED BY <5>2, <5>3
      <4> QED BY <3>1, <4>1, <4>2 DEF MessageInv
    <3>7. OwnerInv' /\ OwnedIsLive'
      BY <1>t, <3>1, <3>2, OwnersKept DEF serverVars, coreVars
    <3> QED BY <1>0, <3>2, <3>5, <3>6, <3>7
  <2> QED BY <2>2, <2>3
<1>15. ASSUME NEW r \in Chat, Answered(r) PROVE IInv'
  BY <1>15, EndsKeeps DEF Answered, IsOpen, Underway
<1>16. ASSUME NEW h \in Reader, NEW s \in Session, StartRead(h, s) PROVE IInv'
  <2>1. /\ rpc[h] = "rest" /\ rpc' = [rpc EXCEPT ![h] = "loading"] /\ rat' = [rat EXCEPT ![h] = s]
        /\ UNCHANGED <<snapshot, serverVars, coreVars, chatVars, overlapped>>
    BY <1>16 DEF StartRead
  <2>2. ReadType'
    BY <1>t, <2>1 DEF ReadType
  <2>3. Types'
    BY <1>t, <2>1, <2>2 DEF Types, GuestsType, MarkersType, CoreType, ChatType,
                            serverVars, coreVars, chatVars
  <2>4. ChatsInv' /\ MarkInv' /\ NoSnapshotInFlight' /\ OverlapInv' /\ LoneMarkInv'
    BY <1>m, <2>1 DEF serverVars, chatVars
  <2>5. MessageInv'
    BY <1>t, <2>1, MessagesKept DEF chatVars, coreVars
  <2>6. OwnerInv' /\ OwnedIsLive'
    BY <1>t, <2>1, OwnersKept DEF serverVars, chatVars, coreVars
  <2> QED BY <1>0, <2>3, <2>4, <2>5, <2>6
<1>17. ASSUME NEW h \in Reader, Load(h) PROVE IInv'
  <2>1. /\ rpc[h] = "loading" /\ UNCHANGED <<serverVars, coreVars, chatVars, overlapped>>
        /\ \/ /\ rpc' = [rpc EXCEPT ![h] = "rest"] /\ rat' = [rat EXCEPT ![h] = "none"]
              /\ UNCHANGED snapshot
           \/ /\ rpc' = [rpc EXCEPT ![h] = "gating"] /\ UNCHANGED rat
              /\ snapshot' = [snapshot EXCEPT ![h] = Len(log[rat[h]])]
    BY <1>17 DEF Load
  <2>2. Len(log[rat[h]]) \in Nat
    BY <1>t, <2>1 DEF ReadType, CoreType
  <2>3. ReadType'
    BY <1>t, <2>1, <2>2, NoneIsNoId DEF ReadType
  <2>4. Types'
    BY <1>t, <2>1, <2>3 DEF Types, GuestsType, MarkersType, CoreType, ChatType,
                            serverVars, coreVars, chatVars
  <2>5. ChatsInv' /\ MarkInv' /\ NoSnapshotInFlight' /\ OverlapInv' /\ LoneMarkInv'
    BY <1>m, <2>1 DEF serverVars, chatVars
  <2>6. MessageInv'
    BY <1>t, <2>1, MessagesKept DEF chatVars, coreVars
  <2>7. OwnerInv' /\ OwnedIsLive'
    BY <1>t, <2>1, OwnersKept DEF serverVars, chatVars, coreVars
  <2> QED BY <1>0, <2>4, <2>5, <2>6, <2>7
\* Only a session that is not marked gets a snapshot.
<1>18. ASSUME NEW h \in Reader, Serve(h) PROVE IInv'
  <2>0. PICK s \in Session : rat[h] = s
    BY <1>18, <1>t DEF Serve, ReadType
  <2>1. /\ rpc' = [rpc EXCEPT ![h] = "rest"] /\ rat' = [rat EXCEPT ![h] = "none"]
        /\ snapshot' = [snapshot EXCEPT ![h] = 0]
        /\ \/ s \notin activeTurns /\ cache' = Stored(s, snapshot[h])
           \/ cache' = cache
        /\ UNCHANGED <<guests, creating, dropping, activeTurns, streamers, coreVars, chatVars,
                       overlapped>>
    BY <1>18, <2>0 DEF Serve, MayStore
  <2>2. CacheType(cache') /\ \A u \in activeTurns : Holds(cache', u) => Holds(cache, u)
    <3>1. snapshot[h] \in Nat
      BY <1>t DEF ReadType
    <3>2. /\ CacheType(Stored(s, snapshot[h]))
          /\ \A u : Holds(Stored(s, snapshot[h]), u) => u = s \/ Holds(cache, u)
      BY <1>t, <3>1, StoredFacts DEF MarkersType
    <3> QED BY <1>t, <2>1, <3>2 DEF MarkersType
  <2>3. ReadType'
    BY <1>t, <2>1, NoneIsNoId DEF ReadType
  <2>4. Types'
    BY <1>t, <2>1, <2>2, <2>3 DEF Types, GuestsType, MarkersType, CoreType, ChatType,
                                  coreVars, chatVars
  <2>5. NoSnapshotInFlight'
    BY <1>t, <2>1, <2>2 DEF NoSnapshotInFlight, Cached, Holds
  <2>6. ChatsInv' /\ MarkInv' /\ OverlapInv' /\ LoneMarkInv'
    BY <1>t, <2>1 DEF ChatsInv, MarkInv, OverlapInv, LoneMarkInv, IsOpen, Opened, OpenChats,
                      chatVars
  <2>7. MessageInv'
    BY <1>t, <2>1, MessagesKept DEF chatVars, coreVars
  <2>8. OwnerInv' /\ OwnedIsLive'
    BY <1>t, <2>1, OwnersKept DEF chatVars, coreVars
  <2> QED BY <1>0, <2>4, <2>5, <2>6, <2>7, <2>8
<1>19. ASSUME UNCHANGED vars PROVE IInv'
  <2>1. UNCHANGED <<serverVars, coreVars, chatVars, readVars, overlapped>>
    BY <1>19 DEF vars
  <2>2. Types'
    BY <1>t, <2>1 DEF Types, GuestsType, MarkersType, CoreType, ChatType, ReadType,
                      serverVars, coreVars, chatVars, readVars
  <2>3. ChatsInv' /\ MarkInv' /\ NoSnapshotInFlight' /\ OverlapInv' /\ LoneMarkInv'
    BY <1>m, <2>1 DEF serverVars, chatVars
  <2>4. MessageInv'
    BY <1>t, <2>1, MessagesKept DEF chatVars, coreVars
  <2>5. OwnerInv' /\ OwnedIsLive'
    BY <1>t, <2>1, OwnersKept DEF serverVars, chatVars, coreVars
  <2> QED BY <1>0, <2>2, <2>3, <2>4, <2>5
<1> QED
  BY <1>1, <1>2, <1>3, <1>4, <1>5, <1>6, <1>61, <1>7, <1>9, <1>10, <1>11, <1>12, <1>13, <1>14, <1>15,
     <1>16, <1>17, <1>18, <1>19 DEF Next

\* The invariant holds when the process has started, whatever is in storage.
LEMMA InitIInv == Init => IInv
<1> SUFFICES ASSUME Init PROVE IInv
  OBVIOUS
<1>1. <<>> \in Seq(Message) /\ <<>> \in Seq(SnapshotType) /\ Len(<<>>) = 0 /\ DOMAIN <<>> = {}
      /\ <<"earlier">> \in Seq(Message)
  BY EmptySeq DEF Message
<1>2. CacheType(cache)
  BY <1>1, GuestBounds DEF Init, CacheType, Distinct
<1>3. Types
  BY <1>1, <1>2, NoneIsNoId
     DEF Init, Types, GuestsType, MarkersType, CoreType, ChatType, ReadType
<1>4. TypeOK
  BY <1>3, TypeParts
<1>p. /\ \A s \in Session, r \in Chat : ~In(r, queue[s]) /\ ~In(r, log[s])
      /\ \A s \in Session, r \in Chat : running[s] # r
  <2>1. \A r \in Chat : ~In(r, <<>>) /\ ~In(r, <<"earlier">>)
    BY NoneIsNoId DEF In
  <2> QED BY <2>1, NoneIsNoId DEF Init
<1>5. ChatsInv /\ MarkInv /\ NoSnapshotInFlight /\ OverlapInv /\ LoneMarkInv /\ OwnerInv
      /\ OwnedIsLive
  BY NoneIsNoId DEF Init, ChatsInv, MarkInv, NoSnapshotInFlight, OverlapInv, LoneMarkInv, OwnerInv,
                    OwnedIsLive, IsOpen, Underway
<1>6. MessageInv
  BY <1>p DEF Init, MessageInv, Nowhere, InTurn
<1> QED BY <1>4, <1>5, <1>6 DEF IInv

-----------------------------------------------------------------------------
(* Theorems *)

\* The inductive invariant holds throughout.
THEOREM Invariance == Spec => []IInv
  BY InitIInv, NextIInv, PTL DEF Spec

\* The types hold for any number of visitors: the cache never outgrows its bound,
\* nor holds two snapshots of a session.
THEOREM TypeAlways == Spec => []TypeOK
<1>1. IInv => TypeOK
  BY DEF IInv
<1> QED BY <1>1, Invariance, PTL

\* No marker and no subscription outlives the chats of its session, and no snapshot
\* is cached while a turn is marked, however requests interleave and fail.
THEOREM MarkersAlways == Spec => []MarkersHold
<1>1. IInv => MarkersHold
  <2> SUFFICES ASSUME IInv PROVE NothingLeaks
    BY DEF IInv, MarkersHold
  <2>1. ASSUME NEW s \in Session, OpenChats(s) = {}
        PROVE  s \notin activeTurns /\ streamers[s] = "none"
    <3>1. s \notin activeTurns
      BY <2>1 DEF IInv, MarkInv
    <3>2. \A r \in Chat : streamers[s] # r
      BY <2>1 DEF IInv, MarkInv, OpenChats, IsOpen
    <3> QED BY <3>1, <3>2 DEF IInv, TypeOK
  <2> QED BY <2>1 DEF NothingLeaks
<1> QED BY <1>1, Invariance, PTL

\* A chat that shares its session with no other is marked and subscribed through its
\* turn, and returns its own answer.
THEOREM LoneChatsAlways == Spec => []LoneChats
<1>1. IInv => LoneChats
  <2> SUFFICES ASSUME IInv, NEW r \in Chat \ overlapped, InTurn(r)
               PROVE  /\ at[r] \in activeTurns /\ (streamed[r] => streamers[at[r]] = r)
                      /\ pc[r] = "read" /\ In(r, log[at[r]]) => reply[r] = r
    BY DEF LoneChats, LoneTurnIsMarked, LoneReply, In, InTurn
  <2>1. IsOpen(r) /\ Opened(r)
    BY DEF IsOpen, Underway, Opened, InTurn
  <2>2. at[r] \in activeTurns /\ (streamed[r] => streamers[at[r]] = r)
    BY <2>1 DEF IInv, LoneMarkInv
  <2>3. IsLast(r, at[r])
    BY DEF IInv, MessageInv
  <2> QED BY <2>2, <2>3 DEF IsLast
<1> QED BY <1>1, Invariance, PTL

\* An entry of the map that owns its agent finds it live, also while another request
\* resumes, adopts or drops the session.
THEOREM OwnedAlways == Spec => []OwnedIsLive
<1>1. IInv => OwnedIsLive
  BY DEF IInv
<1> QED BY <1>1, Invariance, PTL
=============================================================================
