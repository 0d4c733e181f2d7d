---------------------- MODULE SessionPreparationsProofs ----------------------
(***************************************************************************)
(* Proofs about SessionPreparations for any finite sets of ids and clients *)
(* and any bounds.                                                         *)
(*                                                                         *)
(* The parts of the invariant take the state as arguments, so that an      *)
(* action can be followed change by change: the operation leaves the       *)
(* chain, then the entry changes, then the caller goes on.                 *)
(***************************************************************************)
EXTENDS SessionPreparations, FiniteSetTheorems, SequenceTheorems,
        WellFoundedInduction, TLAPS

\* The types, except for the pins, which PinsInv bounds.
PoolEntry == [tag : Tag, phase : {"loading", "ready", "committing", "reserved"},
              source : Log, pins : Nat]

Types(L, Q, E, S, V, C) ==
  /\ L \in [Id -> Log] /\ Q \in [Id -> Seq(Operation)]
  /\ E \in [Id -> PoolEntry \cup {NoEntry}] /\ S \in [Id -> State \cup {NoState}]
  /\ V \in [Id -> Live \cup {NoLive}] /\ C \in [Client -> Call]

\* A log that was read is the stored one, or shorter.
Old(L, s, i) == s.len <= L[i].len /\ (s.len = L[i].len => s = L[i])

\* An operation of a client is the one it waits for; a load fills an entry that
\* is loading, a commit has its entry unless the log grew meanwhile, and only a
\* live session is written or detached.
OpInv(L, E, V, C, i, o) ==
  /\ o.op \in {"load", "init", "write", "detach"} => o.client = "none"
  /\ o.op \in {"commit", "check", "append"} =>
       /\ o.client \in Client /\ C[o.client].id = i
       /\ o.op = "commit" => C[o.client].step = "committing"
       /\ o.op = "check" => C[o.client].step = "checking"
       /\ o.op = "append" => C[o.client].step \in {"appending", "writing"}
  /\ o.op = "load" => o.tag # 0 /\ (E[i].tag = o.tag => E[i].phase = "loading")
  /\ o.op = "commit" =>
       /\ o.tag # 0 /\ o.tag = C[o.client].tag
       /\ \/ E[i].tag = o.tag /\ E[i].phase = "committing"
          \/ E[i].tag # o.tag /\ C[o.client].source.len < L[i].len
  /\ o.op \in {"init", "write"} =>
       V[i].phase \in {"live", "draining"} /\ V[i].saved < V[i].next
  /\ o.op = "detach" => V[i].phase = "draining" /\ V[i].saved = V[i].next

\* Two operations that are never queued together.
Clash(o, p) ==
  \/ o.client = p.client /\ o.client # "none"
  \/ o.op = p.op /\ (o.op = "detach" \/ (o.op \in {"load", "commit"} /\ o.tag = p.tag))
  \/ o.op \in {"init", "write"} /\ p.op \in {"init", "write"}

ChainInv(L, Q, E, V, C) ==
  \A i \in Id :
    /\ \A k \in DOMAIN Q[i] : OpInv(L, E, V, C, i, Q[i][k])
    /\ \A k, l \in DOMAIN Q[i] : k # l => ~Clash(Q[i][k], Q[i][l])

\* A session that is live here has no entry, and its state is owned.
EntryInv(L, E, S, V) ==
  \A i \in Id :
    /\ L[i].len # 0 /\ Old(L, E[i].source, i)
    /\ V[i].phase \in {"live", "broken", "draining"} => E[i] = NoEntry
    /\ V[i].phase # "none" => S[i].owner = "live"

\* The clients that have a pin on the entry of an id.
Pins(E, v, i) == v.id = i /\ v.pinned = "yes" /\ v.tag = E[i].tag
Pinned(E, C, i) == { c \in Client : Pins(E, C[c], i) }
PinsInv(E, C) ==
  \A i \in Id : E[i] # NoEntry => E[i].pins = Cardinality(Pinned(E, C, i))

\* ReservationHolds.
HoldersOf(C, i) == { c \in Client : C[c].step = "holding" /\ C[c].id = i }
ReservedAt(L, E, S, V, C, i) ==
  /\ (E[i].phase = "reserved") <=> (HoldersOf(C, i) # {})
  /\ \A c \in HoldersOf(C, i) :
       /\ HoldersOf(C, i) = {c} /\ E[i].tag = C[c].tag
       /\ C[c].source = L[i] /\ L[i].turn = "closed"
       /\ S[i] = [cursor |-> L[i].len, owner |-> "none"]
       /\ V[i].phase = "none"
ReservedInv(L, E, S, V, C) == \A i \in Id : ReservedAt(L, E, S, V, C, i)

Loaded == {"loaded", "settling", "committing", "holding", "checking", "leasing"}

\* A caller has read what its entry holds; only a borrow has a pin.
CallOK(L, E, v) ==
  /\ Old(L, v.source, v.id)
  /\ v.pinned = "yes" =>
       /\ v.kind = "borrow" /\ v.tag # 0
       /\ v.step \in {"loading", "loaded", "checking", "leasing"}
  /\ E[v.id] # NoEntry /\ E[v.id].tag = v.tag /\ v.step \in Loaded =>
       E[v.id].phase # "loading" /\ v.source = E[v.id].source

Good(L, Q, E, S, V, C) ==
  /\ Types(L, Q, E, S, V, C) /\ ChainInv(L, Q, E, V, C) /\ EntryInv(L, E, S, V)
  /\ PinsInv(E, C) /\ ReservedInv(L, E, S, V, C)
  /\ \A c \in Client : CallOK(L, E, C[c])

\* The order of the entries.
Order(E, r) ==
  /\ r \in Seq(Id) /\ Seqs!IsInjective(r)
  /\ \A i \in Id : E[i] # NoEntry <=> Listed(r, i)

-----------------------------------------------------------------------------
(* Sequences *)

\* Taking out the element at k: the others stay, in their order.
LEMMA RemoveAtFacts ==
  ASSUME NEW S, NEW q \in Seq(S), NEW k \in DOMAIN q,
         NEW w, w = Seqs!RemoveAt(q, k)
  PROVE  /\ w \in Seq(S)
         /\ \A a \in DOMAIN w : \E b \in DOMAIN q \ {k} :
              w[a] = q[b] /\ b = IF a < k THEN a ELSE a + 1
         /\ \A b \in DOMAIN q \ {k} : \E a \in DOMAIN w : w[a] = q[b]
<1> PICK n \in Nat : n = Len(q)
  OBVIOUS
<1> DEFINE u == SubSeq(q, 1, k - 1)
           v == SubSeq(q, k + 1, n)
           at(i) == IF i < k THEN i ELSE i + 1
<1>1. DOMAIN q = 1..n /\ k \in 1..n
  OBVIOUS
<1>2. u \in Seq(S) /\ Len(u) = k - 1 /\ \A i \in 1..k - 1 : u[i] = q[i]
  BY <1>1
<1>3. v \in Seq(S) /\ Len(v) = n - k /\ \A i \in 1..n - k : v[i] = q[k + i]
  BY <1>1
<1>4. w = u \o v
  BY DEF Seqs!RemoveAt
<1> HIDE DEF u, v
<1>5. /\ w \in Seq(S) /\ Len(w) = Len(u) + Len(v)
      /\ \A i \in 1..Len(u) + Len(v) : w[i] = IF i <= Len(u) THEN u[i] ELSE v[i - Len(u)]
  <2>1. /\ u \o v \in Seq(S) /\ Len(u \o v) = Len(u) + Len(v)
        /\ \A i \in 1..Len(u) + Len(v) :
             (u \o v)[i] = IF i <= Len(u) THEN u[i] ELSE v[i - Len(u)]
    BY <1>2, <1>3, ConcatProperties
  <2> QED BY <1>4, <2>1
<1>6. Len(w) = n - 1 /\ DOMAIN w = 1..n - 1
  <2>1. Len(u) = k - 1 /\ Len(v) = n - k
    BY <1>2, <1>3
  <2>2. k \in Nat /\ (k - 1) + (n - k) = n - 1
    BY <1>1
  <2>3. Len(w) = n - 1
    BY <1>5, <2>1, <2>2
  <2> QED BY <1>5, <2>3
<1>7. ASSUME NEW i \in DOMAIN w PROVE at(i) \in DOMAIN q /\ at(i) # k /\ w[i] = q[at(i)]
  <2>1. i \in 1..Len(u) + Len(v)
    BY <1>5
  <2>2. CASE i < k
    <3>1. i <= Len(u) /\ i \in 1..k - 1 /\ at(i) = i /\ i \in 1..n
      BY <1>1, <1>2, <1>6, <2>2
    <3> QED BY <1>1, <1>2, <1>5, <2>1, <2>2, <3>1
  <2>3. CASE ~(i < k)
    <3>1. ~(i <= Len(u)) /\ i - Len(u) = i - (k - 1) /\ i - (k - 1) \in 1..n - k
      BY <1>1, <1>2, <1>6, <2>3
    <3>2. at(i) = i + 1 /\ i + 1 \in 1..n /\ i + 1 # k /\ k + (i - (k - 1)) = i + 1
      BY <1>1, <1>6, <2>3
    <3>3. w[i] = v[i - (k - 1)]
      BY <1>5, <2>1, <3>1
    <3> QED BY <1>1, <1>3, <3>1, <3>2, <3>3
  <2> QED BY <2>2, <2>3
<1>8. ASSUME NEW j \in DOMAIN q, j # k PROVE \E i \in DOMAIN w : at(i) = j
  <2>1. CASE j < k
    <3>1. j \in DOMAIN w /\ at(j) = j
      BY <1>1, <1>6, <2>1
    <3> QED BY <3>1
  <2>2. CASE ~(j < k)
    <3>1. j - 1 \in DOMAIN w /\ at(j - 1) = j
      BY <1>1, <1>6, <1>8, <2>2
    <3> QED BY <3>1
  <2> QED BY <2>1, <2>2
<1>9. ASSUME NEW a \in DOMAIN w
      PROVE  \E b \in DOMAIN q \ {k} : w[a] = q[b] /\ b = IF a < k THEN a ELSE a + 1
  BY <1>7
<1>10. ASSUME NEW b \in DOMAIN q \ {k} PROVE \E a \in DOMAIN w : w[a] = q[b]
  BY <1>7, <1>8
<1> QED BY <1>5, <1>9, <1>10

\* One more element at the end.
LEMMA AppendFacts ==
  ASSUME NEW S, NEW q \in Seq(S), NEW x \in S, NEW w, w = Append(q, x)
  PROVE  /\ w \in Seq(S) /\ w # <<>> /\ Len(q) + 1 \in DOMAIN w /\ w[Len(q) + 1] = x
         /\ \A k \in DOMAIN w : \/ k \in DOMAIN q /\ w[k] = q[k]
                                \/ k = Len(q) + 1 /\ w[k] = x
         /\ \A k \in DOMAIN q : k \in DOMAIN w /\ w[k] = q[k]
<1>1. /\ w \in Seq(S) /\ Len(w) = Len(q) + 1 /\ w[Len(q) + 1] = x
      /\ \A k \in 1..Len(q) : w[k] = q[k]
  BY AppendProperties
<1>2. DOMAIN w = 1..Len(w) /\ DOMAIN q = 1..Len(q) /\ Len(q) \in Nat
  BY <1>1
<1>3. DOMAIN w = DOMAIN q \cup {Len(q) + 1}
  BY <1>1, <1>2
<1> QED BY <1>1, <1>2, <1>3

\* Recency without an id, and with an id as the most recent one.
LEMMA RecencyFacts ==
  ASSUME NEW r \in Seq(Id), Seqs!IsInjective(r), NEW i \in Id,
         NEW w, w = Without(r, i)
  PROVE  /\ w \in Seq(Id) /\ Seqs!IsInjective(w)
         /\ \A j \in Id : Listed(w, j) <=> Listed(r, j) /\ j # i
         /\ Append(w, i) \in Seq(Id) /\ Seqs!IsInjective(Append(w, i))
         /\ \A j \in Id : Listed(Append(w, i), j) <=> Listed(r, j) \/ j = i
<1> USE DEF Seqs!IsInjective, Listed
<1>1. /\ w \in Seq(Id) /\ Seqs!IsInjective(w)
      /\ \A j \in Id : Listed(w, j) <=> Listed(r, j) /\ j # i
  <2>1. CASE ~Listed(r, i)
    BY <2>1 DEF Without
  <2>2. CASE Listed(r, i)
    <3> DEFINE k == CHOOSE k \in DOMAIN r : r[k] = i
    <3>1. k \in DOMAIN r /\ r[k] = i
      BY <2>2
    <3>2. w = Seqs!RemoveAt(r, k)
      BY <2>2 DEF Without
    <3> HIDE DEF k
    <3>3. /\ w \in Seq(Id)
          /\ \A a \in DOMAIN w : \E b \in DOMAIN r \ {k} :
               w[a] = r[b] /\ b = IF a < k THEN a ELSE a + 1
          /\ \A b \in DOMAIN r \ {k} : \E a \in DOMAIN w : w[a] = r[b]
      BY <3>1, <3>2, RemoveAtFacts
    <3>4. ASSUME NEW a \in DOMAIN w, NEW b \in DOMAIN w, w[a] = w[b] PROVE a = b
      <4>1. PICK x \in DOMAIN r \ {k} : w[a] = r[x] /\ x = IF a < k THEN a ELSE a + 1
        BY <3>3
      <4>2. PICK y \in DOMAIN r \ {k} : w[b] = r[y] /\ y = IF b < k THEN b ELSE b + 1
        BY <3>3
      <4>3. x = y
        BY <3>4, <4>1, <4>2
      <4>4. a \in Nat /\ b \in Nat /\ k \in Nat
        BY <3>1, <3>3
      <4> QED BY <4>1, <4>2, <4>3, <4>4
    <3>5. ASSUME NEW j \in Id PROVE Listed(w, j) <=> Listed(r, j) /\ j # i
      <4>1. Listed(w, j) => Listed(r, j) /\ j # i
        BY <3>1, <3>3
      <4>2. Listed(r, j) /\ j # i => Listed(w, j)
        BY <3>1, <3>3
      <4> QED BY <4>1, <4>2
    <3> QED BY <3>3, <3>4, <3>5
  <2> QED BY <2>1, <2>2
<1> DEFINE z == Append(w, i)
<1>2. /\ z \in Seq(Id) /\ Len(w) + 1 \in DOMAIN z /\ z[Len(w) + 1] = i
      /\ \A k \in DOMAIN z : \/ k \in DOMAIN w /\ z[k] = w[k]
                             \/ k = Len(w) + 1 /\ z[k] = i
      /\ \A k \in DOMAIN w : k \in DOMAIN z /\ z[k] = w[k]
  BY <1>1, AppendFacts
<1>3. ~Listed(w, i)
  BY <1>1
<1> HIDE DEF z
<1>4. ASSUME NEW a \in DOMAIN z, NEW b \in DOMAIN z, z[a] = z[b] PROVE a = b
  BY <1>1, <1>2, <1>3, <1>4
<1>5. ASSUME NEW j \in Id PROVE Listed(z, j) <=> Listed(r, j) \/ j = i
  <2>1. Listed(z, j) <=> Listed(w, j) \/ j = i
    BY <1>2
  <2> QED BY <1>1, <2>1
<1>6. z \in Seq(Id) /\ Seqs!IsInjective(z)
  BY <1>2, <1>4
<1> QED BY <1>1, <1>5, <1>6 DEF z
-----------------------------------------------------------------------------
(* One change of the state at a time *)

\* Client c waits for no operation; none of a kind is queued for i; operation
\* o clashes with none.
NoOps(Q, c) == \A i \in Id : \A k \in DOMAIN Q[i] : Q[i][k].client # c
NoneOf(Q, i, op) == \A k \in DOMAIN Q[i] : Q[i][k].op # op

\* No load fills the entry with this tag, no commit takes it, or one that the
\* log has outgrown.
NoLoad(Q, i, tag) == \A k \in DOMAIN Q[i] : Q[i][k].op = "load" => Q[i][k].tag # tag
NoCommit(Q, i, tag) == \A k \in DOMAIN Q[i] : Q[i][k].op = "commit" => Q[i][k].tag # tag
Loose(L, Q, C, i, tag) ==
  \A k \in DOMAIN Q[i] : Q[i][k].op = "commit" /\ Q[i][k].tag = tag
                          => C[Q[i][k].client].source.len < L[i].len
Fits(q, o) == \A k \in DOMAIN q : ~Clash(q[k], o) /\ ~Clash(o, q[k])

\* The operation at k left the queue q: w is what stays, in its order.
Drops(q, k, w) ==
  /\ w \in Seq(Operation)
  /\ \A a \in DOMAIN w : \E b \in DOMAIN q \ {k} :
       w[a] = q[b] /\ b = IF a < k THEN a ELSE a + 1

\* Taking back one operation, or running the first, leaves the others.
LEMMA DropFacts ==
  ASSUME NEW q \in Seq(Operation)
  PROVE  /\ \A k \in DOMAIN q : Drops(q, k, Seqs!RemoveAt(q, k))
         /\ q # <<>> => 1 \in DOMAIN q /\ Drops(q, 1, Tail(q)) /\ Head(q) = q[1]
<1>1. ASSUME NEW k \in DOMAIN q PROVE Drops(q, k, Seqs!RemoveAt(q, k))
  BY RemoveAtFacts DEF Drops
<1>2. ASSUME q # <<>>
      PROVE  1 \in DOMAIN q /\ Drops(q, 1, Tail(q)) /\ Head(q) = q[1]
  <2> DEFINE w == Tail(q)
  <2>1. /\ w \in Seq(Operation) /\ Len(w) = Len(q) - 1 /\ Head(q) = q[1]
        /\ \A a \in 1..Len(q) - 1 : w[a] = q[a + 1]
        /\ Len(q) \in Nat /\ Len(q) > 0
    BY <1>2
  <2>2. DOMAIN w = 1..Len(q) - 1 /\ DOMAIN q = 1..Len(q)
    BY <2>1
  <2> HIDE DEF w
  <2>3. ASSUME NEW a \in DOMAIN w
        PROVE  a + 1 \in DOMAIN q \ {1} /\ w[a] = q[a + 1] /\ ~(a < 1)
    BY <2>1, <2>2
  <2>4. Drops(q, 1, w)
    BY <2>1, <2>3 DEF Drops
  <2> QED BY <2>1, <2>2, <2>4 DEF w
<1> QED BY <1>1, <1>2

\* An operation leaves its chain.
Cleared(Q, i, w) == [Q EXCEPT ![i] = w]

\* A chain without one of its operations stays good, and the operation that
\* left it clashes with none that stays.
LEMMA DropKeeps ==
  ASSUME NEW L, NEW Q, NEW E, NEW S, NEW V, NEW C, Good(L, Q, E, S, V, C),
         NEW i \in Id, NEW k \in DOMAIN Q[i], NEW w, Drops(Q[i], k, w),
         NEW R, R = Cleared(Q, i, w), NEW o, o = Q[i][k]
  PROVE  /\ Good(L, R, E, S, V, C) /\ o \in Operation /\ OpInv(L, E, V, C, i, o)
         /\ o.client # "none" => NoOps(R, o.client)
         /\ Fits(R[i], o)
<1>1. /\ Types(L, Q, E, S, V, C) /\ ChainInv(L, Q, E, V, C)
      /\ Q \in [Id -> Seq(Operation)]
  BY DEF Good, Types
<1>2. /\ R \in [Id -> Seq(Operation)] /\ R[i] = w /\ \A j \in Id \ {i} : R[j] = Q[j]
  BY <1>1 DEF Drops, Cleared
<1>3. ASSUME NEW a \in DOMAIN w
      PROVE  \E b \in DOMAIN Q[i] \ {k} : w[a] = Q[i][b] /\ b = IF a < k THEN a ELSE a + 1
  BY DEF Drops
<1>4. ChainInv(L, R, E, V, C)
  <2> SUFFICES ASSUME NEW j \in Id
               PROVE  /\ \A a \in DOMAIN R[j] : OpInv(L, E, V, C, j, R[j][a])
                      /\ \A a, b \in DOMAIN R[j] : a # b => ~Clash(R[j][a], R[j][b])
    BY DEF ChainInv
  <2>1. CASE j # i
    BY <1>1, <1>2, <2>1 DEF ChainInv
  <2>2. CASE j = i
    <3>1. ASSUME NEW a \in DOMAIN w PROVE OpInv(L, E, V, C, i, w[a])
      BY <1>1, <1>3 DEF ChainInv
    <3>2. ASSUME NEW a \in DOMAIN w, NEW b \in DOMAIN w, a # b
          PROVE  ~Clash(w[a], w[b])
      <4>1. PICK x \in DOMAIN Q[i] \ {k} : w[a] = Q[i][x] /\ x = IF a < k THEN a ELSE a + 1
        BY <1>3
      <4>2. PICK y \in DOMAIN Q[i] \ {k} : w[b] = Q[i][y] /\ y = IF b < k THEN b ELSE b + 1
        BY <1>3
      <4>3. a \in Nat /\ b \in Nat /\ k \in Nat
        BY <1>1 DEF Drops
      <4>4. x # y
        BY <3>2, <4>1, <4>2, <4>3
      <4> QED BY <1>1, <4>1, <4>2, <4>4 DEF ChainInv
    <3> QED BY <1>2, <2>2, <3>1, <3>2
  <2> QED BY <2>1, <2>2
<1>5. o \in Operation /\ OpInv(L, E, V, C, i, o)
  <2>1. Q[i] \in Seq(Operation)
    BY <1>1
  <2> QED BY <1>1, <2>1 DEF ChainInv
<1>6. Fits(R[i], o)
  BY <1>1, <1>2, <1>3 DEF ChainInv, Fits
<1>7. ASSUME o.client # "none" PROVE NoOps(R, o.client)
  <2> SUFFICES ASSUME NEW j \in Id, NEW a \in DOMAIN R[j], R[j][a].client = o.client
               PROVE  FALSE
    BY DEF NoOps
  <2>1. j # i
    BY <1>6, <1>7 DEF Clash, Fits
  <2>2. R[j] \in Seq(Operation) /\ R[j][a] \in Operation /\ OpInv(L, E, V, C, j, R[j][a])
    BY <1>2, <1>4 DEF ChainInv
  <2>3. C[o.client].id = i /\ C[o.client].id = j
    BY <1>5, <1>7, <2>2 DEF OpInv, Operation
  <2> QED BY <2>1, <2>3
<1>8. Good(L, R, E, S, V, C)
  BY <1>1, <1>2, <1>4 DEF Good, Types
<1> QED BY <1>5, <1>6, <1>7, <1>8

\* An operation joins its chain.
LEMMA EnqueueKeeps ==
  ASSUME NEW L, NEW Q, NEW E, NEW S, NEW V, NEW C, Good(L, Q, E, S, V, C),
         NEW i \in Id, NEW o \in Operation, OpInv(L, E, V, C, i, o),
         Fits(Q[i], o),
         NEW R, R = [Q EXCEPT ![i] = Append(Q[i], o)]
  PROVE  Good(L, R, E, S, V, C)
<1> DEFINE w == Append(Q[i], o)
<1>1. /\ Types(L, Q, E, S, V, C) /\ ChainInv(L, Q, E, V, C)
      /\ Q \in [Id -> Seq(Operation)] /\ Q[i] \in Seq(Operation)
  BY DEF Good, Types
<1>2. /\ w \in Seq(Operation)
      /\ \A k \in DOMAIN w : \/ k \in DOMAIN Q[i] /\ w[k] = Q[i][k]
                             \/ k = Len(Q[i]) + 1 /\ w[k] = o
  BY <1>1, AppendFacts
<1> HIDE DEF w
<1>3. R \in [Id -> Seq(Operation)] /\ R[i] = w /\ \A j \in Id \ {i} : R[j] = Q[j]
  BY <1>1, <1>2 DEF w
<1>4. ChainInv(L, R, E, V, C)
  <2> SUFFICES ASSUME NEW j \in Id
               PROVE  /\ \A a \in DOMAIN R[j] : OpInv(L, E, V, C, j, R[j][a])
                      /\ \A a, b \in DOMAIN R[j] : a # b => ~Clash(R[j][a], R[j][b])
    BY DEF ChainInv
  <2>1. CASE j # i
    BY <1>1, <1>3, <2>1 DEF ChainInv
  <2>2. CASE j = i
    <3>1. ASSUME NEW a \in DOMAIN w PROVE OpInv(L, E, V, C, i, w[a])
      BY <1>1, <1>2 DEF ChainInv
    <3>2. ASSUME NEW a \in DOMAIN w, NEW b \in DOMAIN w, a # b
          PROVE  ~Clash(w[a], w[b])
      BY <1>1, <1>2, <3>2 DEF ChainInv, Fits
    <3> QED BY <1>3, <2>2, <3>1, <3>2
  <2> QED BY <2>1, <2>2
<1> QED BY <1>1, <1>3, <1>4 DEF Good, Types

\* Two states of a call have the same pins; a call without operations can go
\* from u to v.
SamePins(E, u, v) ==
  \A i \in Id : E[i] # NoEntry => (Pins(E, u, i) <=> Pins(E, v, i))
CanGo(L, Q, E, c, u, v) ==
  /\ NoOps(Q, c) /\ u.step # "holding" /\ v.step # "holding"
  /\ CallOK(L, E, v) /\ SamePins(E, u, v)

\* Callers that wait for no operation go on, and no pin comes or goes.
LEMMA CallsKeep ==
  ASSUME NEW L, NEW Q, NEW E, NEW S, NEW V, NEW C, Good(L, Q, E, S, V, C),
         NEW D \in [Client -> Call],
         \A c \in Client : D[c] # C[c] => CanGo(L, Q, E, c, C[c], D[c])
  PROVE  Good(L, Q, E, S, V, D)
<1>1. /\ Types(L, Q, E, S, V, C) /\ ChainInv(L, Q, E, V, C) /\ PinsInv(E, C)
      /\ ReservedInv(L, E, S, V, C) /\ \A c \in Client : CallOK(L, E, C[c])
  BY DEF Good
<1>2. ChainInv(L, Q, E, V, D)
  <2>1. ASSUME NEW i \in Id, NEW k \in DOMAIN Q[i]
        PROVE  OpInv(L, E, V, D, i, Q[i][k])
    <3>1. OpInv(L, E, V, C, i, Q[i][k])
      BY <1>1 DEF ChainInv
    <3>2. Q[i][k].client \in Client => D[Q[i][k].client] = C[Q[i][k].client]
      BY DEF NoOps, CanGo
    <3> QED BY <3>1, <3>2 DEF OpInv
  <2> QED BY <1>1, <2>1 DEF ChainInv
<1>3. PinsInv(E, D)
  <2> SUFFICES ASSUME NEW i \in Id, E[i] # NoEntry
               PROVE  Pinned(E, D, i) = Pinned(E, C, i)
    BY <1>1 DEF PinsInv
  <2> QED BY DEF Pinned, CanGo, SamePins
<1>4. ReservedInv(L, E, S, V, D)
  <2>1. ASSUME NEW i \in Id
        PROVE  /\ HoldersOf(D, i) = HoldersOf(C, i)
               /\ \A c \in HoldersOf(D, i) : D[c] = C[c]
    BY DEF HoldersOf, CanGo
  <2> QED BY <1>1, <2>1 DEF ReservedInv, ReservedAt
<1>5. \A c \in Client : CallOK(L, E, D[c])
  BY <1>1 DEF CanGo
<1>6. Types(L, Q, E, S, V, D)
  BY <1>1 DEF Types
<1> QED BY <1>1, <1>2, <1>3, <1>4, <1>5, <1>6 DEF Good

\* One caller goes on, and no pin comes or goes.
LEMMA CallKeeps ==
  ASSUME NEW L, NEW Q, NEW E, NEW S, NEW V, NEW C, Good(L, Q, E, S, V, C),
         NEW c \in Client, NEW v \in Call, CanGo(L, Q, E, c, C[c], v),
         NEW D, D = [C EXCEPT ![c] = v]
  PROVE  Good(L, Q, E, S, V, D)
<1>1. C \in [Client -> Call]
  BY DEF Good, Types
<1>2. D \in [Client -> Call] /\ D[c] = v /\ \A d \in Client \ {c} : D[d] = C[d]
  BY <1>1
<1>3. ASSUME NEW d \in Client, D[d] # C[d]
      PROVE  CanGo(L, Q, E, d, C[d], D[d])
  <2>1. d = c
    BY <1>2, <1>3
  <2> QED BY <1>2, <2>1
<1> QED BY <1>2, <1>3, CallsKeep

\* Entries that nobody reserved or commits go.
Shrinks(L, Q, C, E, F) ==
  /\ F \in [Id -> PoolEntry \cup {NoEntry}]
  /\ \A i \in Id :
       F[i] # E[i] => /\ F[i] = NoEntry /\ E[i].phase # "reserved"
                      /\ Loose(L, Q, C, i, E[i].tag)

\* Entries that nobody reserved or commits may go.
LEMMA ShrinkKeeps ==
  ASSUME NEW L, NEW Q, NEW E, NEW S, NEW V, NEW C, Good(L, Q, E, S, V, C),
         NEW F, Shrinks(L, Q, C, E, F)
  PROVE  Good(L, Q, F, S, V, C)
<1>1. /\ Types(L, Q, E, S, V, C) /\ ChainInv(L, Q, E, V, C) /\ EntryInv(L, E, S, V)
      /\ PinsInv(E, C) /\ ReservedInv(L, E, S, V, C)
      /\ \A c \in Client : CallOK(L, E, C[c])
  BY DEF Good
<1>2. Types(L, Q, F, S, V, C)
  BY <1>1 DEF Types, Shrinks
<1>3. NoEntry.tag = 0 /\ NoEntry.phase = "absent" /\ NoEntry.source = NoLog
  BY DEF NoEntry
<1>4. ChainInv(L, Q, F, V, C)
  <2>1. ASSUME NEW i \in Id, NEW k \in DOMAIN Q[i]
        PROVE  OpInv(L, F, V, C, i, Q[i][k])
    <3>1. OpInv(L, E, V, C, i, Q[i][k])
      BY <1>1 DEF ChainInv
    <3> QED BY <1>3, <3>1 DEF OpInv, Shrinks, Loose
  <2> QED BY <1>1, <2>1 DEF ChainInv
<1>5. EntryInv(L, F, S, V)
  <2> SUFFICES ASSUME NEW i \in Id PROVE Old(L, F[i].source, i)
    BY <1>1 DEF EntryInv, Shrinks
  <2>1. L[i] \in Log /\ L[i].len # 0
    BY <1>1 DEF Types, EntryInv
  <2>2. Old(L, NoLog, i)
    BY <2>1 DEF Old, NoLog, Log
  <2> QED BY <1>1, <1>3, <2>2 DEF EntryInv, Shrinks
<1>6. PinsInv(F, C)
  <2> SUFFICES ASSUME NEW i \in Id, F[i] # NoEntry
               PROVE  F[i] = E[i] /\ Pinned(F, C, i) = Pinned(E, C, i)
    BY <1>1 DEF PinsInv
  <2> QED BY DEF Pinned, Pins, Shrinks
<1>7. ReservedInv(L, F, S, V, C)
  <2> SUFFICES ASSUME NEW i \in Id
               PROVE  /\ (F[i].phase = "reserved") <=> (E[i].phase = "reserved")
                      /\ E[i].phase = "reserved" => F[i] = E[i]
    BY <1>1 DEF ReservedInv, ReservedAt
  <2> QED BY <1>3 DEF Shrinks
<1>8. \A c \in Client : CallOK(L, F, C[c])
  <2> SUFFICES ASSUME NEW c \in Client PROVE CallOK(L, F, C[c])
    OBVIOUS
  <2>1. C[c].id \in Id /\ CallOK(L, E, C[c])
    BY <1>1 DEF Types, Call
  <2> QED BY <2>1 DEF CallOK, Shrinks
<1> QED BY <1>2, <1>4, <1>5, <1>6, <1>7, <1>8 DEF Good

\* Only an entry that is committing has a commit, only one loading a load.
LEMMA Unclaimed ==
  ASSUME NEW L, NEW Q, NEW E, NEW S, NEW V, NEW C, Good(L, Q, E, S, V, C), NEW i \in Id
  PROVE  /\ E[i].phase # "committing" => /\ NoCommit(Q, i, E[i].tag)
                                         /\ Loose(L, Q, C, i, E[i].tag)
         /\ E[i].phase # "loading" => NoLoad(Q, i, E[i].tag)
<1>1. \A k \in DOMAIN Q[i] : OpInv(L, E, V, C, i, Q[i][k])
  BY DEF Good, ChainInv
<1> QED BY <1>1 DEF NoCommit, NoLoad, Loose, OpInv

\* An entry changes its phase or gets its source; a commit keeps it.
LEMMA EntryKeeps ==
  ASSUME NEW L, NEW Q, NEW E, NEW S, NEW V, NEW C, Good(L, Q, E, S, V, C),
         NEW i \in Id, E[i] # NoEntry, NEW x \in PoolEntry,
         x.tag = E[i].tag, x.pins = E[i].pins, Old(L, x.source, i),
         x.source = E[i].source \/ E[i].phase = "loading",
         x.phase \in {"ready", "committing"}, E[i].phase # "reserved",
         x.phase = "ready" => NoCommit(Q, i, E[i].tag), NoLoad(Q, i, E[i].tag),
         NEW F, F = [E EXCEPT ![i] = x]
  PROVE  Good(L, Q, F, S, V, C)
<1>1. /\ Types(L, Q, E, S, V, C) /\ ChainInv(L, Q, E, V, C) /\ EntryInv(L, E, S, V)
      /\ PinsInv(E, C) /\ ReservedInv(L, E, S, V, C)
      /\ \A c \in Client : CallOK(L, E, C[c])
  BY DEF Good
<1>2. /\ F \in [Id -> PoolEntry \cup {NoEntry}] /\ F[i] = x
      /\ \A j \in Id \ {i} : F[j] = E[j]
  BY <1>1 DEF Types
<1>3. Types(L, Q, F, S, V, C)
  BY <1>1, <1>2 DEF Types
<1>4. ChainInv(L, Q, F, V, C)
  <2>1. ASSUME NEW j \in Id, NEW k \in DOMAIN Q[j]
        PROVE  OpInv(L, F, V, C, j, Q[j][k])
    <3>1. OpInv(L, E, V, C, j, Q[j][k])
      BY <1>1 DEF ChainInv
    <3>2. CASE j = i
      BY <1>2, <3>1, <3>2 DEF OpInv, NoCommit, NoLoad
    <3>3. CASE j # i
      BY <1>2, <3>1, <3>3 DEF OpInv
    <3> QED BY <3>2, <3>3
  <2> QED BY <1>1, <2>1 DEF ChainInv
<1>5. EntryInv(L, F, S, V)
  BY <1>1, <1>2 DEF EntryInv
<1>6. PinsInv(F, C)
  <2> SUFFICES ASSUME NEW j \in Id, F[j] # NoEntry
               PROVE  /\ E[j] # NoEntry /\ F[j].pins = E[j].pins
                      /\ Pinned(F, C, j) = Pinned(E, C, j)
    BY <1>1 DEF PinsInv
  <2> QED BY <1>2 DEF Pinned, Pins
<1>7. ReservedInv(L, F, S, V, C)
  <2> SUFFICES ASSUME NEW j \in Id
               PROVE  /\ (F[j].phase = "reserved") <=> (E[j].phase = "reserved")
                      /\ E[j].phase = "reserved" => F[j] = E[j]
    BY <1>1 DEF ReservedInv, ReservedAt
  <2> QED BY <1>2
<1>8. \A c \in Client : CallOK(L, F, C[c])
  <2> SUFFICES ASSUME NEW c \in Client PROVE CallOK(L, F, C[c])
    OBVIOUS
  <2>1. C[c].id \in Id /\ CallOK(L, E, C[c])
    BY <1>1 DEF Types, Call
  <2>2. CASE C[c].id = i
    BY <1>2, <2>1, <2>2 DEF CallOK
  <2>3. CASE C[c].id # i
    BY <1>2, <2>1, <2>3 DEF CallOK
  <2> QED BY <2>2, <2>3
<1> QED BY <1>3, <1>4, <1>5, <1>6, <1>7, <1>8 DEF Good

\* Another id keeps its holders, and its entry the phase and tag.
Steady(E, F, C, D, j) ==
  /\ F[j].phase = E[j].phase /\ F[j].tag = E[j].tag
  /\ HoldersOf(D, j) = HoldersOf(C, j) /\ \A d \in HoldersOf(D, j) : D[d] = C[d]

\* Such an id keeps its reservation as it was.
LEMMA ReservedSame ==
  ASSUME NEW L, NEW E, NEW S, NEW V, NEW C, NEW F, NEW D, NEW j,
         ReservedAt(L, E, S, V, C, j), Steady(E, F, C, D, j)
  PROVE  ReservedAt(L, F, S, V, D, j)
<1>1. (F[j].phase = "reserved") <=> (HoldersOf(D, j) # {})
  BY DEF ReservedAt, Steady
<1>2. ASSUME NEW c \in HoldersOf(D, j)
      PROVE  /\ HoldersOf(D, j) = {c} /\ F[j].tag = D[c].tag
             /\ D[c].source = L[j] /\ L[j].turn = "closed"
             /\ S[j] = [cursor |-> L[j].len, owner |-> "none"]
             /\ V[j].phase = "none"
  BY DEF ReservedAt, Steady
<1> QED BY <1>1, <1>2 DEF ReservedAt

\* An operation stays good when its caller stays, and the entry as far as the
\* operation looks at it.
Alike(E, F, C, D, i, o) ==
  /\ o.client \in Client => D[o.client] = C[o.client]
  /\ \/ F[i].phase = E[i].phase /\ F[i].tag = E[i].tag
     \/ /\ o.op \in {"load", "commit"} => F[i].tag # o.tag
        /\ o.op = "commit" => E[i].tag # o.tag

\* The operation is still the one its caller waits for.
LEMMA OpSame ==
  ASSUME NEW L, NEW E, NEW F, NEW V, NEW C, NEW D, NEW i, NEW o,
         OpInv(L, E, V, C, i, o), Alike(E, F, C, D, i, o)
  PROVE  OpInv(L, F, V, D, i, o)
BY DEF OpInv, Alike

\* A commit ends by reserving its entry for the caller.
LEMMA GrantKeeps ==
  ASSUME NEW L, NEW Q, NEW E, NEW S, NEW V, NEW C, Good(L, Q, E, S, V, C),
         NEW c \in Client, NEW i \in Id, C[c].id = i, C[c].step = "committing",
         NoOps(Q, c), NoCommit(Q, i, E[i].tag),
         E[i].phase = "committing", E[i].tag = C[c].tag,
         C[c].source = L[i], L[i].turn = "closed", V[i].phase = "none",
         S[i] = [cursor |-> L[i].len, owner |-> "none"],
         NEW F, F = [E EXCEPT ![i] = [E[i] EXCEPT !.phase = "reserved"]],
         NEW D, D = [C EXCEPT ![c] = [C[c] EXCEPT !.step = "holding"]]
  PROVE  Good(L, Q, F, S, V, D)
<1>1. /\ Types(L, Q, E, S, V, C) /\ ChainInv(L, Q, E, V, C) /\ EntryInv(L, E, S, V)
      /\ PinsInv(E, C) /\ ReservedInv(L, E, S, V, C)
      /\ \A d \in Client : CallOK(L, E, C[d])
  BY DEF Good
<1> DEFINE x == [E[i] EXCEPT !.phase = "reserved"]
           v == [C[c] EXCEPT !.step = "holding"]
<1>2. E[i] \in PoolEntry /\ C[c] \in Call
  BY <1>1 DEF Types, NoEntry
<1>3. /\ x \in PoolEntry /\ x.phase = "reserved" /\ x.tag = E[i].tag
      /\ x.pins = E[i].pins /\ x.source = E[i].source /\ x # NoEntry /\ E[i] # NoEntry
  BY <1>2 DEF PoolEntry, NoEntry
<1>4. /\ v \in Call /\ v.step = "holding" /\ v.id = i /\ v.tag = C[c].tag
      /\ v.source = C[c].source /\ v.pinned = C[c].pinned /\ v.floor = C[c].floor
      /\ v.kind = C[c].kind
  BY <1>2 DEF Call
<1> HIDE DEF x, v
<1>5. /\ F \in [Id -> PoolEntry \cup {NoEntry}] /\ F[i] = x
      /\ \A j \in Id \ {i} : F[j] = E[j]
  BY <1>1, <1>3 DEF Types, x
<1>6. D \in [Client -> Call] /\ D[c] = v /\ \A d \in Client \ {c} : D[d] = C[d]
  BY <1>1, <1>4 DEF Types, v
<1>7. Types(L, Q, F, S, V, D)
  BY <1>1, <1>5, <1>6 DEF Types
<1>8. ChainInv(L, Q, F, V, D)
  <2>1. ASSUME NEW j \in Id, NEW k \in DOMAIN Q[j]
        PROVE  OpInv(L, F, V, D, j, Q[j][k])
    <3>1. OpInv(L, E, V, C, j, Q[j][k])
      BY <1>1 DEF ChainInv
    <3>2. Q[j][k].client \in Client => D[Q[j][k].client] = C[Q[j][k].client]
      BY <1>6 DEF NoOps
    <3>3. CASE j = i
      <4>1. Q[i][k].op \in {"load", "commit"} => E[i].tag # Q[i][k].tag
        BY <3>1, <3>3 DEF NoCommit, OpInv
      <4>2. F[i].tag = E[i].tag
        BY <1>3, <1>5
      <4>3. Alike(E, F, C, D, j, Q[j][k])
        BY <3>2, <3>3, <4>1, <4>2 DEF Alike
      <4> QED BY <3>1, <4>3, OpSame
    <3>4. CASE j # i
      <4>1. F[j] = E[j]
        BY <1>5, <3>4
      <4>2. Alike(E, F, C, D, j, Q[j][k])
        BY <3>2, <4>1 DEF Alike
      <4> QED BY <3>1, <4>2, OpSame
    <3> QED BY <3>3, <3>4
  <2> QED BY <1>1, <2>1 DEF ChainInv
<1>9. EntryInv(L, F, S, V)
  BY <1>1, <1>3, <1>5 DEF EntryInv
<1>10. PinsInv(F, D)
  <2> SUFFICES ASSUME NEW j \in Id, F[j] # NoEntry
               PROVE  /\ E[j] # NoEntry /\ F[j].pins = E[j].pins
                      /\ Pinned(F, D, j) = Pinned(E, C, j)
    BY <1>1 DEF PinsInv
  <2> QED BY <1>3, <1>4, <1>5, <1>6 DEF Pinned, Pins
<1>11. ReservedInv(L, F, S, V, D)
  <2>1. HoldersOf(C, i) = {}
    BY <1>1 DEF ReservedInv, ReservedAt
  <2>2. HoldersOf(D, i) = {c}
    BY <1>4, <1>6, <2>1 DEF HoldersOf
  <2>3. ASSUME NEW j \in Id \ {i} PROVE ReservedAt(L, F, S, V, D, j)
    <3>1. Steady(E, F, C, D, j)
      BY <1>4, <1>5, <1>6 DEF Steady, HoldersOf
    <3>2. ReservedAt(L, E, S, V, C, j)
      BY <1>1 DEF ReservedInv
    <3> QED BY <3>1, <3>2, ReservedSame
  <2>4. /\ F[i].phase = "reserved" /\ F[i].tag = D[c].tag /\ D[c].source = L[i]
    BY <1>3, <1>4, <1>5, <1>6
  <2>5. ReservedAt(L, F, S, V, D, i)
    BY <2>2, <2>4 DEF ReservedAt
  <2> QED BY <2>3, <2>5 DEF ReservedInv
<1>12. ASSUME NEW d \in Client PROVE CallOK(L, F, D[d])
  <2>1. C[d].id \in Id /\ CallOK(L, E, C[d]) /\ CallOK(L, E, C[c])
    BY <1>1 DEF Types, Call
  <2>2. CASE d = c
    BY <1>3, <1>4, <1>5, <1>6, <2>1, <2>2 DEF CallOK, Loaded
  <2>3. CASE d # c /\ C[d].id = i
    BY <1>3, <1>5, <1>6, <2>1, <2>3 DEF CallOK
  <2>4. CASE d # c /\ C[d].id # i
    BY <1>5, <1>6, <2>1, <2>4 DEF CallOK
  <2> QED BY <2>2, <2>3, <2>4
<1> QED BY <1>7, <1>8, <1>9, <1>10, <1>11, <1>12 DEF Good

\* The holder of a reservation publishes or releases it.
LEMMA LetGoKeeps ==
  ASSUME NEW L, NEW Q, NEW E, NEW S, NEW V, NEW C, Good(L, Q, E, S, V, C),
         NEW c \in Client, NEW i \in Id, C[c].id = i, C[c].step = "holding",
         NEW x, x = NoEntry \/ x = [E[i] EXCEPT !.phase = "ready"],
         NEW F, F = [E EXCEPT ![i] = x], NEW D, D = [C EXCEPT ![c] = NoCall(i)]
  PROVE  Good(L, Q, F, S, V, D)
<1>1. /\ Types(L, Q, E, S, V, C) /\ ChainInv(L, Q, E, V, C) /\ EntryInv(L, E, S, V)
      /\ PinsInv(E, C) /\ ReservedInv(L, E, S, V, C)
      /\ \A d \in Client : CallOK(L, E, C[d])
  BY DEF Good
<1>2. HoldersOf(C, i) = {c} /\ E[i].phase = "reserved"
  <2>1. c \in HoldersOf(C, i)
    BY DEF HoldersOf
  <2> QED BY <1>1, <2>1 DEF ReservedInv, ReservedAt
<1>3. E[i] \in PoolEntry /\ C[c] \in Call /\ L[i] \in Log /\ L[i].len # 0
  BY <1>1, <1>2 DEF Types, NoEntry, EntryInv
<1>4. /\ x \in PoolEntry \cup {NoEntry} /\ x.phase \in {"ready", "absent"}
      /\ x # NoEntry => /\ E[i] # NoEntry /\ x.tag = E[i].tag /\ x.pins = E[i].pins
                        /\ x.source = E[i].source /\ x.phase = "ready"
      /\ x = NoEntry => x.tag = 0 /\ x.source = NoLog
  BY <1>3 DEF PoolEntry, NoEntry
<1> DEFINE v == NoCall(i)
<1>5. /\ v \in Call /\ v.step = "idle" /\ v.id = i /\ v.pinned = "no"
      /\ v.source = NoLog /\ v.floor = 0
  BY DEF NoCall, Call, Kind, NoLog, Log
<1> HIDE DEF v
<1>6. /\ F \in [Id -> PoolEntry \cup {NoEntry}] /\ F[i] = x
      /\ \A j \in Id \ {i} : F[j] = E[j]
  BY <1>1, <1>4 DEF Types
<1>7. D \in [Client -> Call] /\ D[c] = v /\ \A d \in Client \ {c} : D[d] = C[d]
  BY <1>1, <1>5 DEF Types, v
<1>8. Types(L, Q, F, S, V, D)
  BY <1>1, <1>6, <1>7 DEF Types
<1>9. ChainInv(L, Q, F, V, D)
  <2>1. ASSUME NEW j \in Id, NEW k \in DOMAIN Q[j]
        PROVE  OpInv(L, F, V, D, j, Q[j][k])
    <3>1. OpInv(L, E, V, C, j, Q[j][k]) /\ Q[j][k] \in Operation
      BY <1>1 DEF ChainInv, Types
    <3>2. Q[j][k].client # c
      BY <3>1, ActorsAssumption DEF OpInv, Operation
    <3>3. Q[j][k].client \in Client => D[Q[j][k].client] = C[Q[j][k].client]
      BY <1>7, <3>2
    <3>4. CASE j = i
      <4>1. Q[i][k].op \in {"load", "commit"} =>
              E[i].tag # Q[i][k].tag /\ Q[i][k].tag # 0
        BY <1>2, <3>1, <3>4 DEF OpInv
      <4>2. F[i].tag = E[i].tag \/ F[i].tag = 0
        BY <1>4, <1>6
      <4>3. Alike(E, F, C, D, j, Q[j][k])
        BY <3>3, <3>4, <4>1, <4>2 DEF Alike
      <4> QED BY <3>1, <4>3, OpSame
    <3>5. CASE j # i
      <4>1. F[j] = E[j]
        BY <1>6, <3>5
      <4>2. Alike(E, F, C, D, j, Q[j][k])
        BY <3>3, <4>1 DEF Alike
      <4> QED BY <3>1, <4>2, OpSame
    <3> QED BY <3>4, <3>5
  <2> QED BY <1>1, <2>1 DEF ChainInv
<1>10. Old(L, NoLog, i)
  BY <1>3 DEF Old, NoLog, Log
<1>11. EntryInv(L, F, S, V)
  <2> SUFFICES ASSUME NEW j \in Id
               PROVE  /\ Old(L, F[j].source, j)
                      /\ V[j].phase \in {"live", "broken", "draining"} => F[j] = NoEntry
    BY <1>1 DEF EntryInv
  <2>1. CASE j # i
    BY <1>1, <1>6, <2>1 DEF EntryInv
  <2>2. CASE j = i /\ x = NoEntry
    BY <1>4, <1>6, <1>10, <2>2
  <2>3. CASE j = i /\ x # NoEntry
    BY <1>1, <1>4, <1>6, <2>3 DEF EntryInv
  <2> QED BY <2>1, <2>2, <2>3
<1>12. PinsInv(F, D)
  <2> SUFFICES ASSUME NEW j \in Id, F[j] # NoEntry
               PROVE  /\ E[j] # NoEntry /\ F[j].pins = E[j].pins
                      /\ Pinned(F, D, j) = Pinned(E, C, j)
    BY <1>1 DEF PinsInv
  <2>1. E[j] # NoEntry /\ F[j].pins = E[j].pins /\ F[j].tag = E[j].tag
    BY <1>4, <1>6
  <2>2. C[c].pinned # "yes"
    BY <1>1 DEF CallOK
  <2>3. ASSUME NEW d \in Client PROVE Pins(F, D[d], j) <=> Pins(E, C[d], j)
    BY <1>5, <1>7, <2>1, <2>2 DEF Pins
  <2> QED BY <2>1, <2>3 DEF Pinned
<1>13. ReservedInv(L, F, S, V, D)
  <2>1. HoldersOf(D, i) = {}
    BY <1>2, <1>5, <1>7 DEF HoldersOf
  <2>2. ASSUME NEW j \in Id \ {i} PROVE ReservedAt(L, F, S, V, D, j)
    <3>1. Steady(E, F, C, D, j)
      BY <1>5, <1>6, <1>7 DEF Steady, HoldersOf
    <3>2. ReservedAt(L, E, S, V, C, j)
      BY <1>1 DEF ReservedInv
    <3> QED BY <3>1, <3>2, ReservedSame
  <2>3. F[i].phase # "reserved"
    BY <1>4, <1>6
  <2>4. ReservedAt(L, F, S, V, D, i)
    BY <2>1, <2>3 DEF ReservedAt
  <2> QED BY <2>2, <2>4 DEF ReservedInv
<1>14. ASSUME NEW d \in Client PROVE CallOK(L, F, D[d])
  <2>1. C[d].id \in Id /\ CallOK(L, E, C[d])
    BY <1>1 DEF Types, Call
  <2>2. CASE d = c
    BY <1>3, <1>5, <1>7, <1>10, <2>2 DEF CallOK, Loaded, Log
  <2>3. CASE d # c /\ C[d].id = i
    BY <1>2, <1>4, <1>6, <1>7, <2>1, <2>3 DEF CallOK
  <2>4. CASE d # c /\ C[d].id # i
    BY <1>6, <1>7, <2>1, <2>4 DEF CallOK
  <2> QED BY <2>2, <2>3, <2>4
<1> QED BY <1>8, <1>9, <1>11, <1>12, <1>13, <1>14 DEF Good

\* The entry of i with its pins counted again.
Repinned(E, C, i) ==
  [E EXCEPT ![i] = [E[i] EXCEPT !.pins = Cardinality(Pinned(E, C, i))]]

\* A borrow joins an entry, or leaves it.
LEMMA PinsKeep ==
  ASSUME NEW L, NEW Q, NEW E, NEW S, NEW V, NEW C, Good(L, Q, E, S, V, C),
         NEW c \in Client, NEW i \in Id, NEW v \in Call,
         E[i] # NoEntry, C[c].id = i, v.id = i, NoOps(Q, c),
         C[c].step # "holding", v.step # "holding", CallOK(L, E, v),
         NEW D, D = [C EXCEPT ![c] = v],
         NEW F, F = Repinned(E, D, i)
  PROVE  Good(L, Q, F, S, V, D)
<1>1. /\ Types(L, Q, E, S, V, C) /\ ChainInv(L, Q, E, V, C) /\ EntryInv(L, E, S, V)
      /\ PinsInv(E, C) /\ ReservedInv(L, E, S, V, C)
      /\ \A d \in Client : CallOK(L, E, C[d])
  BY DEF Good
<1> DEFINE n == Cardinality(Pinned(E, D, i))
           x == [E[i] EXCEPT !.pins = n]
<1>2. n \in Nat
  <2>1. Pinned(E, D, i) \in SUBSET Client
    BY DEF Pinned
  <2> QED BY <2>1, ActorsAssumption, FS_Subset, FS_CardinalityType
<1> HIDE DEF n
<1>3. E[i] \in PoolEntry
  BY <1>1 DEF Types
<1>4. /\ x \in PoolEntry /\ x.phase = E[i].phase /\ x.tag = E[i].tag /\ x.pins = n
      /\ x.source = E[i].source /\ x # NoEntry
  BY <1>2, <1>3 DEF PoolEntry, NoEntry, Tag
<1> HIDE DEF x
<1>5. /\ F \in [Id -> PoolEntry \cup {NoEntry}] /\ F[i] = x
      /\ \A j \in Id \ {i} : F[j] = E[j]
  BY <1>1, <1>4 DEF Types, x, n, Repinned
<1>6. \A j \in Id : /\ F[j].phase = E[j].phase /\ F[j].tag = E[j].tag
                    /\ F[j].source = E[j].source /\ (F[j] = NoEntry <=> E[j] = NoEntry)
  BY <1>4, <1>5
<1>7. D \in [Client -> Call] /\ D[c] = v /\ \A d \in Client \ {c} : D[d] = C[d]
  BY <1>1 DEF Types
<1>8. Types(L, Q, F, S, V, D)
  BY <1>1, <1>5, <1>7 DEF Types
<1>9. ChainInv(L, Q, F, V, D)
  <2>1. ASSUME NEW j \in Id, NEW k \in DOMAIN Q[j]
        PROVE  OpInv(L, F, V, D, j, Q[j][k])
    <3>1. OpInv(L, E, V, C, j, Q[j][k])
      BY <1>1 DEF ChainInv
    <3>2. Q[j][k].client \in Client => D[Q[j][k].client] = C[Q[j][k].client]
      BY <1>7 DEF NoOps
    <3> QED BY <1>6, <3>1, <3>2 DEF OpInv
  <2> QED BY <1>1, <2>1 DEF ChainInv
<1>10. EntryInv(L, F, S, V)
  BY <1>1, <1>6 DEF EntryInv
<1>11. PinsInv(F, D)
  <2> SUFFICES ASSUME NEW j \in Id, F[j] # NoEntry
               PROVE  F[j].pins = Cardinality(Pinned(F, D, j))
    BY DEF PinsInv
  <2>1. Pinned(F, D, j) = Pinned(E, D, j)
    BY <1>6 DEF Pinned, Pins
  <2>2. CASE j = i
    BY <1>4, <1>5, <2>1, <2>2 DEF n
  <2>3. CASE j # i
    <3>1. Pinned(E, D, j) = Pinned(E, C, j)
      BY <1>7, <2>3 DEF Pinned, Pins
    <3> QED BY <1>1, <1>5, <2>1, <2>3, <3>1 DEF PinsInv
  <2> QED BY <2>2, <2>3
<1>12. ReservedInv(L, F, S, V, D)
  <2>1. ASSUME NEW j \in Id PROVE ReservedAt(L, F, S, V, D, j)
    <3>1. Steady(E, F, C, D, j)
      <4>1. HoldersOf(D, j) = HoldersOf(C, j) /\ c \notin HoldersOf(C, j)
        BY <1>7 DEF HoldersOf
      <4>2. \A d \in HoldersOf(C, j) : D[d] = C[d]
        BY <1>7, <4>1 DEF HoldersOf
      <4> QED BY <1>6, <4>1, <4>2 DEF Steady
    <3>2. ReservedAt(L, E, S, V, C, j)
      BY <1>1 DEF ReservedInv
    <3> QED BY <3>1, <3>2, ReservedSame
  <2> QED BY <2>1 DEF ReservedInv
<1>13. ASSUME NEW d \in Client PROVE CallOK(L, F, D[d])
  <2>1. CallOK(L, E, D[d]) /\ D[d].id \in Id
    BY <1>1, <1>7 DEF Call
  <2> QED BY <1>6, <2>1 DEF CallOK
<1> QED BY <1>8, <1>9, <1>10, <1>11, <1>12, <1>13 DEF Good

\* An entry is made for a load; its tag is in use nowhere.
Newly(t) == [NoEntry EXCEPT !.tag = t, !.phase = "loading"]
FreshFor(Q, C, i, t) ==
  /\ t \in Tag /\ NoLoad(Q, i, t) /\ NoCommit(Q, i, t)
  /\ \A c \in Client : C[c].id = i => C[c].tag # t

\* A load starts with a new entry that nobody has a pin on.
LEMMA NewEntryKeeps ==
  ASSUME NEW L, NEW Q, NEW E, NEW S, NEW V, NEW C, Good(L, Q, E, S, V, C),
         NEW i \in Id, E[i] = NoEntry, V[i].phase \notin {"live", "broken", "draining"},
         NEW t, FreshFor(Q, C, i, t), NEW F, F = [E EXCEPT ![i] = Newly(t)]
  PROVE  Good(L, Q, F, S, V, C)
<1>1. /\ Types(L, Q, E, S, V, C) /\ ChainInv(L, Q, E, V, C) /\ EntryInv(L, E, S, V)
      /\ PinsInv(E, C) /\ ReservedInv(L, E, S, V, C)
      /\ \A d \in Client : CallOK(L, E, C[d])
  BY DEF Good
<1> USE DEF FreshFor
<1> DEFINE x == Newly(t)
<1>2. /\ x \in PoolEntry /\ x.phase = "loading" /\ x.tag = t /\ x.pins = 0
      /\ x.source = NoLog /\ x # NoEntry
  BY DEF Newly, PoolEntry, NoEntry, NoLog, Log
<1>3. /\ NoEntry.tag = 0 /\ NoEntry.phase = "absent" /\ NoEntry.source = NoLog
      /\ NoEntry.pins = 0
  BY DEF NoEntry
<1> HIDE DEF x
<1>4. /\ F \in [Id -> PoolEntry \cup {NoEntry}] /\ F[i] = x
      /\ \A j \in Id \ {i} : F[j] = E[j]
  BY <1>1, <1>2 DEF Types, x
<1>5. Types(L, Q, F, S, V, C)
  BY <1>1, <1>4 DEF Types
<1>6. ChainInv(L, Q, F, V, C)
  <2>1. ASSUME NEW j \in Id, NEW k \in DOMAIN Q[j]
        PROVE  OpInv(L, F, V, C, j, Q[j][k])
    <3>1. OpInv(L, E, V, C, j, Q[j][k])
      BY <1>1 DEF ChainInv
    <3>2. CASE j = i
      BY <1>2, <1>3, <1>4, <3>1, <3>2 DEF OpInv, NoLoad, NoCommit
    <3>3. CASE j # i
      BY <1>4, <3>1, <3>3 DEF OpInv
    <3> QED BY <3>2, <3>3
  <2> QED BY <1>1, <2>1 DEF ChainInv
<1>7. EntryInv(L, F, S, V)
  <2> SUFFICES ASSUME NEW j \in Id
               PROVE  /\ Old(L, F[j].source, j)
                      /\ V[j].phase \in {"live", "broken", "draining"} => F[j] = NoEntry
    BY <1>1 DEF EntryInv
  <2>1. CASE j # i
    BY <1>1, <1>4, <2>1 DEF EntryInv
  <2>2. CASE j = i
    <3>1. Old(L, E[i].source, i)
      BY <1>1 DEF EntryInv
    <3> QED BY <1>2, <1>3, <1>4, <2>2, <3>1
  <2> QED BY <2>1, <2>2
<1>8. PinsInv(F, C)
  <2> SUFFICES ASSUME NEW j \in Id, F[j] # NoEntry
               PROVE  F[j].pins = Cardinality(Pinned(F, C, j))
    BY DEF PinsInv
  <2>1. CASE j # i
    <3>1. Pinned(F, C, j) = Pinned(E, C, j)
      BY <1>4, <2>1 DEF Pinned, Pins
    <3> QED BY <1>1, <1>4, <2>1, <3>1 DEF PinsInv
  <2>2. CASE j = i
    <3>1. Pinned(F, C, i) = {}
      BY <1>2, <1>4 DEF Pinned, Pins
    <3> QED BY <1>2, <1>4, <2>2, <3>1, FS_EmptySet
  <2> QED BY <2>1, <2>2
<1>9. ReservedInv(L, F, S, V, C)
  <2> SUFFICES ASSUME NEW j \in Id PROVE ReservedAt(L, F, S, V, C, j)
    BY DEF ReservedInv
  <2>1. ReservedAt(L, E, S, V, C, j)
    BY <1>1 DEF ReservedInv
  <2>2. CASE j # i
    <3>1. Steady(E, F, C, C, j)
      BY <1>4, <2>2 DEF Steady
    <3> QED BY <2>1, <3>1, ReservedSame
  <2>3. CASE j = i
    <3>1. HoldersOf(C, i) = {}
      BY <1>3, <2>1, <2>3 DEF ReservedAt
    <3> QED BY <1>2, <1>4, <2>3, <3>1 DEF ReservedAt
  <2> QED BY <2>2, <2>3
<1>10. ASSUME NEW d \in Client PROVE CallOK(L, F, C[d])
  <2>1. C[d].id \in Id /\ CallOK(L, E, C[d])
    BY <1>1 DEF Types, Call
  <2>2. CASE C[d].id = i
    BY <1>2, <1>4, <2>1, <2>2 DEF CallOK
  <2>3. CASE C[d].id # i
    BY <1>4, <2>1, <2>3 DEF CallOK
  <2> QED BY <2>2, <2>3
<1> QED BY <1>5, <1>6, <1>7, <1>8, <1>9, <1>10 DEF Good

\* A log that nobody reserved grows.
LEMMA LogKeeps ==
  ASSUME NEW L, NEW Q, NEW E, NEW S, NEW V, NEW C, Good(L, Q, E, S, V, C),
         NEW i \in Id, NEW l \in Log, l.len > L[i].len \/ l = L[i],
         E[i].phase # "reserved", NEW K, K = [L EXCEPT ![i] = l]
  PROVE  Good(K, Q, E, S, V, C)
<1>1. /\ Types(L, Q, E, S, V, C) /\ ChainInv(L, Q, E, V, C) /\ EntryInv(L, E, S, V)
      /\ PinsInv(E, C) /\ ReservedInv(L, E, S, V, C)
      /\ \A d \in Client : CallOK(L, E, C[d])
  BY DEF Good
<1>2. K \in [Id -> Log] /\ K[i] = l /\ \A j \in Id \ {i} : K[j] = L[j]
  BY <1>1 DEF Types
<1>3. L[i] \in Log /\ L[i].len \in Nat /\ l.len \in Nat
  BY <1>1 DEF Types, Log
<1>4. Types(K, Q, E, S, V, C)
  BY <1>1, <1>2 DEF Types
<1>5. ASSUME NEW s \in Log, NEW j \in Id, Old(L, s, j) PROVE Old(K, s, j)
  <2>1. s.len \in Nat
    BY DEF Log
  <2>2. CASE j = i
    BY <1>2, <1>3, <1>5, <2>1, <2>2 DEF Old
  <2>3. CASE j # i
    BY <1>2, <1>5, <2>3 DEF Old
  <2> QED BY <2>2, <2>3
<1>9. ChainInv(K, Q, E, V, C)
  <2>1. ASSUME NEW j \in Id, NEW k \in DOMAIN Q[j]
        PROVE  OpInv(K, E, V, C, j, Q[j][k])
    <3>1. OpInv(L, E, V, C, j, Q[j][k])
      BY <1>1 DEF ChainInv
    <3> DEFINE d == Q[j][k].client
    <3>2. ASSUME d \in Client, C[d].source.len < L[j].len
          PROVE  C[d].source.len < K[j].len
      <4>1. C[d].source.len \in Nat /\ L[j].len \in Nat /\ K[j].len \in Nat
        BY <1>1, <1>2, <3>2 DEF Types, Call, Log
      <4>2. K[j].len >= L[j].len
        BY <1>2, <1>3, <4>1
      <4> QED BY <3>2, <4>1, <4>2
    <3> QED BY <3>1, <3>2 DEF OpInv
  <2> QED BY <1>1, <2>1 DEF ChainInv
<1>6. EntryInv(K, E, S, V)
  <2> SUFFICES ASSUME NEW j \in Id PROVE K[j].len # 0 /\ Old(K, E[j].source, j)
    BY <1>1 DEF EntryInv
  <2>1. L[j].len # 0 /\ Old(L, E[j].source, j) /\ E[j].source \in Log
    BY <1>1 DEF EntryInv, Types, PoolEntry, NoEntry, NoLog, Log
  <2>2. K[j].len # 0
    BY <1>2, <1>3, <2>1
  <2> QED BY <1>5, <2>1, <2>2
<1>7. ReservedInv(K, E, S, V, C)
  <2> SUFFICES ASSUME NEW j \in Id PROVE ReservedAt(K, E, S, V, C, j)
    BY DEF ReservedInv
  <2>1. ReservedAt(L, E, S, V, C, j)
    BY <1>1 DEF ReservedInv
  <2>2. CASE j # i
    <3>1. K[j] = L[j]
      BY <1>2, <2>2
    <3> QED BY <2>1, <3>1 DEF ReservedAt
  <2>3. CASE j = i
    BY <2>1, <2>3 DEF ReservedAt
  <2> QED BY <2>2, <2>3
<1>8. ASSUME NEW d \in Client PROVE CallOK(K, E, C[d])
  <2>1. C[d].id \in Id /\ C[d].source \in Log /\ CallOK(L, E, C[d])
    BY <1>1 DEF Types, Call
  <2>2. Old(K, C[d].source, C[d].id)
    BY <1>5, <2>1 DEF CallOK
  <2> QED BY <2>1, <2>2 DEF CallOK
<1> QED BY <1>1, <1>4, <1>6, <1>7, <1>8, <1>9 DEF Good

\* A live session and its state change together; nobody reserved the id.
LiveFits(Q, E, i, v, s) ==
  /\ v \in Live \cup {NoLive} /\ s \in State \cup {NoState} /\ E[i].phase # "reserved"
  /\ v.phase \in {"live", "broken", "draining"} => E[i] = NoEntry
  /\ v.phase # "none" => s.owner = "live"
  /\ \/ NoneOf(Q, i, "init") /\ NoneOf(Q, i, "write")
     \/ (v.phase \in {"live", "draining"} /\ v.saved < v.next)
  /\ NoneOf(Q, i, "detach") \/ (v.phase = "draining" /\ v.saved = v.next)

\* The live session of an id and its state change together.
LEMMA LiveKeeps ==
  ASSUME NEW L, NEW Q, NEW E, NEW S, NEW V, NEW C, Good(L, Q, E, S, V, C),
         NEW i \in Id, NEW v, NEW s, LiveFits(Q, E, i, v, s),
         NEW W, W = [V EXCEPT ![i] = v], NEW T, T = [S EXCEPT ![i] = s]
  PROVE  Good(L, Q, E, T, W, C)
<1>1. /\ Types(L, Q, E, S, V, C) /\ ChainInv(L, Q, E, V, C) /\ EntryInv(L, E, S, V)
      /\ PinsInv(E, C) /\ ReservedInv(L, E, S, V, C)
      /\ \A d \in Client : CallOK(L, E, C[d])
  BY DEF Good
<1>2. /\ W \in [Id -> Live \cup {NoLive}] /\ W[i] = v
      /\ \A j \in Id \ {i} : W[j] = V[j]
  BY <1>1 DEF Types, LiveFits
<1>3. /\ T \in [Id -> State \cup {NoState}] /\ T[i] = s
      /\ \A j \in Id \ {i} : T[j] = S[j]
  BY <1>1 DEF Types, LiveFits
<1>4. Types(L, Q, E, T, W, C)
  BY <1>1, <1>2, <1>3 DEF Types
<1>5. ChainInv(L, Q, E, W, C)
  <2>1. ASSUME NEW j \in Id, NEW k \in DOMAIN Q[j]
        PROVE  OpInv(L, E, W, C, j, Q[j][k])
    <3>1. OpInv(L, E, V, C, j, Q[j][k])
      BY <1>1 DEF ChainInv
    <3>2. CASE j = i
      BY <1>2, <3>1, <3>2 DEF OpInv, LiveFits, NoneOf
    <3>3. CASE j # i
      BY <1>2, <3>1, <3>3 DEF OpInv
    <3> QED BY <3>2, <3>3
  <2> QED BY <1>1, <2>1 DEF ChainInv
<1>6. EntryInv(L, E, T, W)
  <2> SUFFICES ASSUME NEW j \in Id
               PROVE  /\ W[j].phase \in {"live", "broken", "draining"} => E[j] = NoEntry
                      /\ W[j].phase # "none" => T[j].owner = "live"
    BY <1>1 DEF EntryInv
  <2>1. CASE j = i
    BY <1>2, <1>3, <2>1 DEF LiveFits
  <2>2. CASE j # i
    BY <1>1, <1>2, <1>3, <2>2 DEF EntryInv
  <2> QED BY <2>1, <2>2
<1>7. ReservedInv(L, E, T, W, C)
  <2> SUFFICES ASSUME NEW j \in Id PROVE ReservedAt(L, E, T, W, C, j)
    BY DEF ReservedInv
  <2>1. ReservedAt(L, E, S, V, C, j)
    BY <1>1 DEF ReservedInv
  <2>2. CASE j # i
    <3>1. W[j] = V[j] /\ T[j] = S[j]
      BY <1>2, <1>3, <2>2
    <3> QED BY <2>1, <3>1 DEF ReservedAt
  <2>3. CASE j = i
    BY <2>1, <2>3 DEF ReservedAt, LiveFits
  <2> QED BY <2>2, <2>3
<1> QED BY <1>1, <1>4, <1>5, <1>6, <1>7 DEF Good

\* The state of an id that nobody reserved changes; a live session owns it.
LEMMA StateKeeps ==
  ASSUME NEW L, NEW Q, NEW E, NEW S, NEW V, NEW C, Good(L, Q, E, S, V, C),
         NEW i \in Id, NEW s \in State \cup {NoState}, E[i].phase # "reserved",
         V[i].phase # "none" => s.owner = "live", NEW T, T = [S EXCEPT ![i] = s]
  PROVE  Good(L, Q, E, T, V, C)
<1>1. /\ Types(L, Q, E, S, V, C) /\ EntryInv(L, E, S, V) /\ ReservedInv(L, E, S, V, C)
  BY DEF Good
<1>2. /\ T \in [Id -> State \cup {NoState}] /\ T[i] = s
      /\ \A j \in Id \ {i} : T[j] = S[j]
  BY <1>1 DEF Types
<1>3. Types(L, Q, E, T, V, C) /\ EntryInv(L, E, T, V)
  BY <1>1, <1>2 DEF Types, EntryInv
<1>4. ReservedInv(L, E, T, V, C)
  <2> SUFFICES ASSUME NEW j \in Id PROVE ReservedAt(L, E, T, V, C, j)
    BY DEF ReservedInv
  <2>1. ReservedAt(L, E, S, V, C, j)
    BY <1>1 DEF ReservedInv
  <2>2. CASE j # i
    <3>1. T[j] = S[j]
      BY <1>2, <2>2
    <3> QED BY <2>1, <3>1 DEF ReservedAt
  <2>3. CASE j = i
    BY <2>1, <2>3 DEF ReservedAt
  <2> QED BY <2>2, <2>3
<1> QED BY <1>3, <1>4 DEF Good

-----------------------------------------------------------------------------
(* The pool *)

PoolOK(p) ==
  /\ p \in [entry : [Id -> PoolEntry \cup {NoEntry}], recency : Seq(Id)]
  /\ Order(p.entry, p.recency)

\* PoolIsBounded, of the entries E, and leaving out the entry of i.
Bounded(E) ==
  Cardinality(ReadyIds(E)) > Capacity => \A j \in ReadyIds(E) : E[j].pins > 0
BoundedBut(E, i) ==
  Cardinality(ReadyIds(E) \ {i}) > Capacity => \A j \in ReadyIds(E) \ {i} : E[j].pins > 0

\* F is E without some ready entries that nobody pinned.
Trims(E, F) ==
  /\ F \in [Id -> PoolEntry \cup {NoEntry}]
  /\ \A j \in Id : F[j] # E[j] => F[j] = NoEntry /\ E[j].phase = "ready" /\ E[j].pins = 0

\* There is an oldest among any places, since places are numbers.
LEMMA OldestFacts ==
  ASSUME NEW T, T \subseteq Nat, T # {}
  PROVE  Oldest(T) \in T
<1> DEFINE R == OpToRel(<, Nat)
<1>1. IsWellFoundedOn(R, Nat)
  BY NatLessThanWellFounded
<1>2. \A x, y \in Nat : x < y => <<x, y>> \in R
  BY DEF OpToRel
<1> HIDE DEF R
<1>3. \E x \in T : \A y \in T : <<y, x>> \notin R
  BY <1>1, WFMin
<1>4. PICK x \in T : \A y \in T : <<y, x>> \notin R
  BY <1>3
<1>5. \A y \in T : x <= y
  <2> SUFFICES ASSUME NEW y \in T, ~(x <= y) PROVE FALSE
    OBVIOUS
  <2>1. x \in Nat /\ y \in Nat /\ y < x
    OBVIOUS
  <2> QED BY <1>2, <1>4, <2>1
<1> QED BY <1>5 DEF Oldest

\* The ready entries are finitely many, and fewer without one of them.
LEMMA ReadyFacts ==
  ASSUME NEW E, NEW i
  PROVE  /\ ReadyIds(E) \subseteq Id /\ IsFiniteSet(ReadyIds(E))
         /\ Cardinality(ReadyIds(E)) \in Nat
         /\ IsFiniteSet(ReadyIds(E) \ {i}) /\ Cardinality(ReadyIds(E) \ {i}) \in Nat
         /\ Cardinality(ReadyIds(E) \ {i}) <= Cardinality(ReadyIds(E))
<1>1. ReadyIds(E) \subseteq Id
  BY DEF ReadyIds
<1>2. IsFiniteSet(ReadyIds(E))
  BY <1>1, ActorsAssumption, FS_Subset
<1>3. /\ IsFiniteSet(ReadyIds(E) \ {i})
      /\ Cardinality(ReadyIds(E) \ {i}) <= Cardinality(ReadyIds(E))
  <2>1. ReadyIds(E) \ {i} \in SUBSET ReadyIds(E)
    OBVIOUS
  <2> QED BY <1>2, <2>1, FS_Subset
<1>4. Cardinality(ReadyIds(E)) \in Nat /\ Cardinality(ReadyIds(E) \ {i}) \in Nat
  BY <1>2, <1>3, FS_CardinalityType
<1> QED BY <1>1, <1>2, <1>3, <1>4

\* An entry that is not ready any more does not count.
LEMMA BoundedFacts ==
  ASSUME NEW E, NEW F, NEW i, Bounded(E), \A j \in Id \ {i} : F[j] = E[j]
  PROVE  BoundedBut(F, i) /\ (i \notin ReadyIds(F) => Bounded(F))
<1>1. /\ Cardinality(ReadyIds(E)) \in Nat /\ Cardinality(ReadyIds(E) \ {i}) \in Nat
      /\ Cardinality(ReadyIds(E) \ {i}) <= Cardinality(ReadyIds(E))
  BY ReadyFacts
<1>2. ReadyIds(F) \ {i} = ReadyIds(E) \ {i}
  BY DEF ReadyIds
<1>3. ASSUME Cardinality(ReadyIds(F) \ {i}) > Capacity, NEW j \in ReadyIds(F) \ {i}
      PROVE  F[j].pins > 0
  <2>1. Cardinality(ReadyIds(E)) > Capacity
    <3>1. Capacity \in Nat
      BY BoundsAssumption
    <3>2. Cardinality(ReadyIds(E) \ {i}) > Capacity
      BY <1>2, <1>3
    <3> HIDE DEF ReadyIds
    <3> QED BY <1>1, <3>1, <3>2
  <2>2. j \in ReadyIds(E) /\ F[j] = E[j]
    BY <1>2 DEF ReadyIds
  <2> QED BY <2>1, <2>2 DEF Bounded
<1>4. BoundedBut(F, i)
  BY <1>3 DEF BoundedBut
<1>5. ASSUME i \notin ReadyIds(F) PROVE Bounded(F)
  <2>1. ReadyIds(F) \ {i} = ReadyIds(F)
    BY <1>5
  <2> QED BY <1>4, <2>1 DEF Bounded, BoundedBut
<1> QED BY <1>4, <1>5

\* An entry that is not there changes nothing for the others.
LEMMA RemoveFacts ==
  ASSUME NEW p, PoolOK(p), NEW i \in Id, NEW q, q = Remove(p, i)
  PROVE  /\ PoolOK(q) /\ q.entry = [p.entry EXCEPT ![i] = NoEntry]
         /\ q = [entry |-> q.entry, recency |-> q.recency]
         /\ Bounded(p.entry) => Bounded(q.entry)
<1> DEFINE F == [p.entry EXCEPT ![i] = NoEntry]
           r == Without(p.recency, i)
<1>1. q = [entry |-> F, recency |-> r]
  BY DEF Remove
<1>2. /\ p.entry \in [Id -> PoolEntry \cup {NoEntry}] /\ Order(p.entry, p.recency)
      /\ p.recency \in Seq(Id)
  BY DEF PoolOK
<1>3. /\ F \in [Id -> PoolEntry \cup {NoEntry}] /\ F[i] = NoEntry
      /\ \A j \in Id \ {i} : F[j] = p.entry[j]
  BY <1>2
<1>4. /\ r \in Seq(Id) /\ Seqs!IsInjective(r)
      /\ \A j \in Id : Listed(r, j) <=> Listed(p.recency, j) /\ j # i
  BY <1>2, RecencyFacts DEF Order
<1> HIDE DEF F, r
<1>5. Order(F, r)
  BY <1>2, <1>3, <1>4 DEF Order
<1>6. q.entry = F /\ q.recency = r
  BY <1>1
<1>7. PoolOK(q)
  BY <1>1, <1>3, <1>4, <1>5 DEF PoolOK
<1>8. Bounded(p.entry) => Bounded(F)
  <2>1. i \notin ReadyIds(F)
    BY <1>3 DEF ReadyIds, NoEntry
  <2> QED BY <1>3, <2>1, BoundedFacts
<1> QED BY <1>1, <1>6, <1>7, <1>8 DEF F

\* touch keeps the pool's bound: if there is one ready entry too many, one that
\* nobody pinned goes, unless all are pinned.
LEMMA TouchFacts ==
  ASSUME NEW p, PoolOK(p), NEW i \in Id, p.entry[i] # NoEntry, NEW q, q = Touch(p, i)
  PROVE  /\ PoolOK(q) /\ Trims(p.entry, q.entry)
         /\ q = [entry |-> q.entry, recency |-> q.recency]
         /\ BoundedBut(p.entry, i) => Bounded(q.entry)
<1> DEFINE E == p.entry
           r == Append(Without(p.recency, i), i)
           m == [p EXCEPT !.recency = r]
           places == Evictable(m)
<1>1. /\ E \in [Id -> PoolEntry \cup {NoEntry}] /\ Order(E, p.recency)
      /\ p.recency \in Seq(Id)
  BY DEF PoolOK
<1>2. /\ r \in Seq(Id) /\ Seqs!IsInjective(r)
      /\ \A j \in Id : Listed(r, j) <=> Listed(p.recency, j) \/ j = i
  BY <1>1, RecencyFacts DEF Order
<1>3. m = [entry |-> E, recency |-> r]
  <2>1. p = [entry |-> p.entry, recency |-> p.recency]
    BY DEF PoolOK
  <2> HIDE DEF r
  <2> QED BY <2>1
<1>4. q = IF Cardinality(ReadyIds(E)) <= Capacity \/ places = {}
          THEN m ELSE Remove(m, r[Oldest(places)])
  BY <1>3 DEF Touch
<1>5. places = { k \in DOMAIN r : E[r[k]].phase = "ready" /\ E[r[k]].pins = 0 }
  BY <1>3 DEF Evictable
<1> HIDE DEF r, m, places, E
<1>6. Order(E, r)
  BY <1>1, <1>2 DEF Order, E
<1>7. PoolOK(m)
  BY <1>1, <1>2, <1>3, <1>6 DEF PoolOK
<1>8. CASE Cardinality(ReadyIds(E)) <= Capacity \/ places = {}
  <2>1. q = m
    BY <1>4, <1>8
  <2>2. Trims(E, E)
    BY <1>1 DEF Trims
  <2>3. ASSUME Cardinality(ReadyIds(E)) > Capacity, NEW j \in ReadyIds(E)
        PROVE  E[j].pins > 0
    <3>1. places = {}
      <4>1. Cardinality(ReadyIds(E)) \in Nat /\ Capacity \in Nat
        BY ReadyFacts, BoundsAssumption
      <4>2. ~(Cardinality(ReadyIds(E)) <= Capacity)
        BY <2>3, <4>1
      <4> QED BY <1>8, <4>2
    <3>2. j \in Id /\ E[j].phase = "ready" /\ E[j] # NoEntry
      BY <1>1 DEF ReadyIds, NoEntry
    <3>3. PICK k \in DOMAIN r : r[k] = j
      BY <1>6, <3>2 DEF Order, Listed
    <3>4. E[j].pins # 0
      BY <1>5, <3>1, <3>2, <3>3
    <3>5. E[j].pins \in Nat
      BY <1>1, <3>2 DEF PoolEntry
    <3> QED BY <3>4, <3>5
  <2>4. Bounded(E)
    BY <2>3 DEF Bounded
  <2> QED BY <1>3, <1>7, <2>1, <2>2, <2>4 DEF E
<1>9. CASE ~(Cardinality(ReadyIds(E)) <= Capacity \/ places = {})
  <2>1. places \subseteq Nat /\ places # {}
    BY <1>2, <1>5, <1>9
  <2>2. Oldest(places) \in places
    BY <2>1, OldestFacts
  <2> DEFINE v == r[Oldest(places)]
  <2>3. v \in Id /\ E[v].phase = "ready" /\ E[v].pins = 0
    BY <1>2, <1>5, <2>2
  <2>4. q = Remove(m, v)
    BY <1>4, <1>9
  <2> HIDE DEF v
  <2>5. /\ PoolOK(q) /\ q.entry = [E EXCEPT ![v] = NoEntry]
        /\ q = [entry |-> q.entry, recency |-> q.recency]
    <3>1. m.entry = E
      BY <1>3
    <3> QED BY <1>7, <2>3, <2>4, <3>1, RemoveFacts
  <2>6. /\ q.entry \in [Id -> PoolEntry \cup {NoEntry}] /\ q.entry[v] = NoEntry
        /\ \A j \in Id \ {v} : q.entry[j] = E[j]
    BY <1>1, <2>3, <2>5
  <2>7. Trims(E, q.entry)
    BY <2>3, <2>6 DEF Trims
  <2>8. ASSUME BoundedBut(E, i) PROVE Bounded(q.entry)
    <3>1. ReadyIds(q.entry) = ReadyIds(E) \ {v} /\ v \in ReadyIds(E)
      BY <2>3, <2>6 DEF ReadyIds, NoEntry
    <3>2. Cardinality(ReadyIds(q.entry)) = Cardinality(ReadyIds(E)) - 1
      BY <3>1, ReadyFacts, FS_RemoveElement
    <3>3. ASSUME Cardinality(ReadyIds(q.entry)) > Capacity, NEW j \in ReadyIds(q.entry)
          PROVE  q.entry[j].pins > 0
      <4>1. i = v
        <5> SUFFICES ASSUME i # v PROVE FALSE
          OBVIOUS
        <5>1. Cardinality(ReadyIds(E) \ {i}) <= Capacity
          <6>1. v \in ReadyIds(E) \ {i} /\ ~(E[v].pins > 0)
            BY <2>3, <3>1
          <6>2. ~(Cardinality(ReadyIds(E) \ {i}) > Capacity)
            BY <2>8, <6>1 DEF BoundedBut
          <6>3. Cardinality(ReadyIds(E) \ {i}) \in Nat /\ Capacity \in Nat
            BY ReadyFacts, BoundsAssumption
          <6> QED BY <6>2, <6>3
        <5>2. /\ Cardinality(ReadyIds(E) \ {i}) =
                   IF i \in ReadyIds(E) THEN Cardinality(ReadyIds(E)) - 1
                   ELSE Cardinality(ReadyIds(E))
              /\ Cardinality(ReadyIds(E)) \in Nat
          BY ReadyFacts, FS_RemoveElement
        <5> QED BY <3>2, <3>3, <5>1, <5>2, BoundsAssumption
      <4>2. j \in ReadyIds(E) \ {i} /\ q.entry[j] = E[j]
        BY <2>6, <3>1, <4>1 DEF ReadyIds
      <4>3. Cardinality(ReadyIds(E) \ {i}) > Capacity
        BY <3>1, <3>3, <4>1
      <4> QED BY <2>8, <4>2, <4>3 DEF BoundedBut
    <3> QED BY <3>3 DEF Bounded
  <2> QED BY <2>5, <2>7, <2>8 DEF E
<1> QED BY <1>8, <1>9

\* Evictions leave everything else as it is.
LEMMA TrimKeeps ==
  ASSUME NEW L, NEW Q, NEW E, NEW S, NEW V, NEW C, Good(L, Q, E, S, V, C),
         NEW F, Trims(E, F)
  PROVE  Good(L, Q, F, S, V, C)
<1>1. ASSUME NEW i \in Id, F[i] # E[i]
      PROVE  F[i] = NoEntry /\ E[i].phase # "reserved" /\ Loose(L, Q, C, i, E[i].tag)
  <2>1. F[i] = NoEntry /\ E[i].phase = "ready"
    BY <1>1 DEF Trims
  <2>2. ASSUME NEW k \in DOMAIN Q[i], Q[i][k].op = "commit" PROVE Q[i][k].tag # E[i].tag
    <3>1. OpInv(L, E, V, C, i, Q[i][k])
      BY DEF Good, ChainInv
    <3> QED BY <2>1, <2>2, <3>1 DEF OpInv
  <2> QED BY <2>1, <2>2 DEF Loose
<1>2. Shrinks(L, Q, C, E, F)
  BY <1>1 DEF Shrinks, Trims
<1> QED BY <1>2, ShrinkKeeps

\* What a client of C has a pin on in E stays in F.
Stays(C, E, F) ==
  \A i \in Id, c \in Client : E[i] # NoEntry /\ Pins(E, C[c], i) => F[i] # NoEntry

\* Entries that go, or keep all but their pins.
Same(E, F) ==
  \A i \in Id : \/ F[i] = NoEntry
                \/ F[i].tag = E[i].tag /\ F[i].phase = E[i].phase /\ F[i].source = E[i].source

\* Evictions take nothing that has a pin.
LEMMA TrimStays ==
  ASSUME NEW E, E \in [Id -> PoolEntry \cup {NoEntry}], NEW C, PinsInv(E, C),
         NEW F, Trims(E, F)
  PROVE  Stays(C, E, F)
<1> SUFFICES ASSUME NEW i \in Id, NEW c \in Client, E[i] # NoEntry, Pins(E, C[c], i)
             PROVE  F[i] # NoEntry
  BY DEF Stays
<1> DEFINE A == Pinned(E, C, i)
<1>1. c \in A /\ A \in SUBSET Client
  BY DEF Pinned
<1> HIDE DEF A
<1>2. Cardinality(A) # 0
  BY <1>1, ActorsAssumption, FS_Subset, FS_EmptySet
<1>3. E[i].pins # 0
  BY <1>2 DEF PinsInv, A
<1> QED BY <1>3 DEF Trims

\* The entry of i becomes ready and the most recent one.
LEMMA MakeReadyFacts ==
  ASSUME NEW p, PoolOK(p), NEW i \in Id, p.entry[i] # NoEntry, Bounded(p.entry),
         NEW q, q = MakeReady(p, i)
  PROVE  /\ PoolOK(q) /\ Bounded(q.entry)
         /\ Trims([p.entry EXCEPT ![i] = [p.entry[i] EXCEPT !.phase = "ready"]], q.entry)
         /\ q = [entry |-> q.entry, recency |-> q.recency]
<1> DEFINE E == p.entry
           x == [E[i] EXCEPT !.phase = "ready"]
           F == [E EXCEPT ![i] = x]
           m == [entry |-> F, recency |-> p.recency]
<1>1. /\ p = [entry |-> E, recency |-> p.recency]
      /\ E \in [Id -> PoolEntry \cup {NoEntry}] /\ Order(E, p.recency)
      /\ p.recency \in Seq(Id)
  BY DEF PoolOK
<1>2. E[i] \in PoolEntry /\ x \in PoolEntry /\ x # NoEntry
  BY <1>1 DEF PoolEntry, NoEntry
<1>3. /\ F \in [Id -> PoolEntry \cup {NoEntry}] /\ F[i] = x
      /\ \A j \in Id \ {i} : F[j] = E[j]
  BY <1>1, <1>2
<1>4. q = Touch(m, i)
  <2>1. [p EXCEPT !.entry[i].phase = "ready"] = m
    BY <1>1
  <2> QED BY <2>1 DEF MakeReady
<1> HIDE DEF F, x
<1>5. Order(F, p.recency)
  BY <1>1, <1>2, <1>3 DEF Order
<1>6. m.entry = F /\ m.recency = p.recency
  OBVIOUS
<1>7. PoolOK(m)
  BY <1>1, <1>3, <1>5, <1>6 DEF PoolOK
<1>8. BoundedBut(F, i)
  BY <1>3, BoundedFacts DEF E
<1>9. m.entry[i] # NoEntry
  BY <1>2, <1>3, <1>6
<1> HIDE DEF m
<1>10. /\ PoolOK(q) /\ Trims(F, q.entry) /\ Bounded(q.entry)
       /\ q = [entry |-> q.entry, recency |-> q.recency]
  BY <1>4, <1>6, <1>7, <1>8, <1>9, TouchFacts
<1> QED BY <1>10 DEF F, x, E

\* Making room for it takes nothing that has a pin.
LEMMA MakeReadyStays ==
  ASSUME NEW p, PoolOK(p), NEW i \in Id, p.entry[i] # NoEntry, Bounded(p.entry),
         NEW q, q = MakeReady(p, i), NEW C, PinsInv(p.entry, C)
  PROVE  Stays(C, p.entry, q.entry)
<1> DEFINE E == p.entry
           x == [E[i] EXCEPT !.phase = "ready"]
           F == [E EXCEPT ![i] = x]
<1>1. E \in [Id -> PoolEntry \cup {NoEntry}]
  BY DEF PoolOK
<1>2. /\ x \in PoolEntry /\ x # NoEntry /\ x.tag = E[i].tag /\ x.pins = E[i].pins
  BY <1>1 DEF PoolEntry, NoEntry
<1>3. Trims(F, q.entry)
  BY MakeReadyFacts
<1> HIDE DEF x
<1>4. /\ F \in [Id -> PoolEntry \cup {NoEntry}] /\ F[i] = x
      /\ \A j \in Id \ {i} : F[j] = E[j]
  BY <1>1, <1>2
<1> HIDE DEF E, F
<1>5. ASSUME NEW j \in Id
      PROVE  /\ F[j].tag = E[j].tag /\ F[j].pins = E[j].pins
             /\ F[j] # NoEntry <=> E[j] # NoEntry
  BY <1>2, <1>4 DEF E
<1>6. \A j \in Id : Pinned(F, C, j) = Pinned(E, C, j)
  BY <1>5 DEF Pinned, Pins
<1>7. PinsInv(F, C)
  BY <1>5, <1>6 DEF PinsInv, E
<1>8. Stays(C, F, q.entry)
  BY <1>3, <1>4, <1>7, TrimStays
<1> QED BY <1>5, <1>8 DEF Stays, Pins, E

\* The entry of i, if it is ready, becomes the most recent one.
LEMMA TouchReadyFacts ==
  ASSUME NEW p, PoolOK(p), NEW i \in Id, BoundedBut(p.entry, i),
         p.entry[i].phase # "ready" => Bounded(p.entry), NEW q, q = TouchReady(p, i)
  PROVE  /\ PoolOK(q) /\ Trims(p.entry, q.entry) /\ Bounded(q.entry)
         /\ q = [entry |-> q.entry, recency |-> q.recency]
<1>1. CASE p.entry[i].phase = "ready"
  <2>1. q = Touch(p, i) /\ p.entry[i] # NoEntry
    BY <1>1 DEF TouchReady, NoEntry
  <2> QED BY <2>1, TouchFacts
<1>2. CASE p.entry[i].phase # "ready"
  <2>1. q = p
    BY <1>2 DEF TouchReady
  <2> QED BY <1>2, <2>1 DEF Trims, PoolOK
<1> QED BY <1>1, <1>2

\* NoCall is a call that reads nothing and pins nothing.
LEMMA NoCallFacts ==
  ASSUME NEW L, NEW Q, NEW E, NEW S, NEW V, NEW C, Good(L, Q, E, S, V, C), NEW i \in Id
  PROVE  /\ NoCall(i) \in Call /\ CallOK(L, E, NoCall(i)) /\ NoCall(i).step = "idle"
         /\ NoCall(i).id = i /\ NoCall(i).pinned = "no"
<1>1. L[i] \in Log /\ L[i].len \in Nat /\ L[i].len # 0
  BY DEF Good, Types, EntryInv, Log
<1> DEFINE v == NoCall(i)
<1>2. /\ v \in Call /\ v.step = "idle" /\ v.id = i /\ v.pinned = "no"
      /\ v.source = NoLog /\ v.floor = 0 /\ NoLog.len = 0
  BY DEF NoCall, Call, Kind, NoLog, Log
<1> HIDE DEF v
<1>3. CallOK(L, E, v)
  BY <1>1, <1>2 DEF CallOK, Old, Loaded
<1> QED BY <1>2, <1>3 DEF v

\* The entry of i with a pin less.
Left(E, i) == [E EXCEPT ![i] = [E[i] EXCEPT !.pins = E[i].pins - 1]]

\* A borrow ends while its entry is still there.
LEMMA LeaveKeeps ==
  ASSUME NEW L, NEW Q, NEW E, NEW S, NEW V, NEW C, Good(L, Q, E, S, V, C),
         NEW c \in Client, NEW i \in Id, C[c].id = i, NoOps(Q, c),
         C[c].step # "holding", C[c].pinned = "yes", E[i].tag = C[c].tag,
         NEW v \in Call, v.id = i, v.step # "holding", v.pinned = "no", CallOK(L, E, v),
         NEW D, D = [C EXCEPT ![c] = v]
  PROVE  Good(L, Q, Left(E, i), S, V, D) /\ E[i].pins - 1 \in Nat /\ E[i] # NoEntry
<1>1. /\ C \in [Client -> Call] /\ E \in [Id -> PoolEntry \cup {NoEntry}]
      /\ CallOK(L, E, C[c]) /\ PinsInv(E, C)
  BY DEF Good, Types
<1>2. E[i] # NoEntry
  BY <1>1 DEF CallOK, NoEntry
<1> DEFINE A == Pinned(E, C, i)
<1>3. IsFiniteSet(A) /\ c \in A /\ Cardinality(A) \in Nat
  <2>1. A \in SUBSET Client /\ c \in A
    BY DEF Pinned, Pins
  <2> QED BY <2>1, ActorsAssumption, FS_Subset, FS_CardinalityType
<1>4. Pinned(E, D, i) = A \ {c}
  <2>1. D[c] = v /\ \A d \in Client \ {c} : D[d] = C[d]
    BY <1>1
  <2> QED BY <2>1 DEF Pinned, Pins
<1>5. E[i].pins - 1 = Cardinality(A \ {c}) /\ E[i].pins - 1 \in Nat
  <2>1. Cardinality(A \ {c}) = Cardinality(A) - 1 /\ IsFiniteSet(A \ {c})
    BY <1>3, FS_RemoveElement
  <2>2. Cardinality(A \ {c}) \in Nat
    BY <2>1, FS_CardinalityType
  <2>3. E[i].pins = Cardinality(A)
    BY <1>1, <1>2 DEF PinsInv
  <2> QED BY <1>3, <2>1, <2>2, <2>3
<1>6. Left(E, i) = Repinned(E, D, i)
  BY <1>4, <1>5 DEF Repinned, Left
<1>7. Good(L, Q, Repinned(E, D, i), S, V, D)
  BY <1>2, PinsKeep
<1> QED BY <1>2, <1>5, <1>6, <1>7

Ended(C, c) == [C EXCEPT ![c] = NoCall(C[c].id)]

\* A call ends, and its pin with it.
LEMMA UnpinKeeps ==
  ASSUME NEW Q, NEW p, PoolOK(p), Bounded(p.entry),
         Good(log, Q, p.entry, states, live, call),
         NEW c \in Client, NoOps(Q, c), call[c].step # "holding",
         NEW q, q = Unpin(p, c), NEW D, D = Ended(call, c)
  PROVE  /\ PoolOK(q) /\ Bounded(q.entry) /\ Good(log, Q, q.entry, states, live, D)
         /\ q = [entry |-> q.entry, recency |-> q.recency]
         /\ Stays(D, p.entry, q.entry) /\ Same(p.entry, q.entry)
<1> DEFINE E == p.entry
           i == call[c].id
           v == NoCall(i)
<1>1. /\ p = [entry |-> E, recency |-> p.recency]
      /\ E \in [Id -> PoolEntry \cup {NoEntry}] /\ Order(E, p.recency)
      /\ p.recency \in Seq(Id)
  BY DEF PoolOK
<1>2. /\ call \in [Client -> Call] /\ i \in Id /\ CallOK(log, E, call[c])
      /\ PinsInv(E, call)
  BY DEF Good, Types, Call
<1>3. /\ v \in Call /\ v.step = "idle" /\ v.id = i /\ v.pinned = "no"
      /\ CallOK(log, E, v)
  BY <1>2, NoCallFacts
<1> HIDE DEF v, E
<1>4. CASE ~(call[c].pinned = "yes" /\ E[i].tag = call[c].tag)
  <2>1. q = p
    BY <1>4 DEF Unpin, E
  <2>2. SamePins(E, call[c], v)
    BY <1>3, <1>4 DEF SamePins, Pins
  <2>3. CanGo(log, Q, E, c, call[c], v)
    BY <1>3, <2>2 DEF CanGo
  <2>4. Good(log, Q, E, states, live, D)
    <3>1. Good(log, Q, E, states, live, call) /\ D = [call EXCEPT ![c] = v]
      BY DEF E, v, Ended
    <3> QED BY <1>3, <2>3, <3>1, CallKeeps
  <2>5. Stays(D, E, E) /\ Same(E, E)
    BY DEF Stays, Same
  <2> QED BY <1>1, <2>1, <2>4, <2>5 DEF E
<1>5. CASE call[c].pinned = "yes" /\ E[i].tag = call[c].tag
  <2>1. E[i] # NoEntry /\ E[i] \in PoolEntry
    BY <1>1, <1>2, <1>5 DEF CallOK, NoEntry
  <2>2. D = [call EXCEPT ![c] = v] /\ D[c] = v /\ \A d \in Client \ {c} : D[d] = call[d]
    BY <1>2 DEF v, Ended
  <2> DEFINE n == E[i].pins - 1
             F == [E EXCEPT ![i] = [E[i] EXCEPT !.pins = n]]
             m == [entry |-> F, recency |-> p.recency]
  <2>3. Good(log, Q, F, states, live, D) /\ n \in Nat
    <3>1. Good(log, Q, E, states, live, call)
      BY DEF E
    <3>2. call[c].id = i
      OBVIOUS
    <3>3. Good(log, Q, Left(E, i), states, live, D) /\ E[i].pins - 1 \in Nat
      <4> HIDE DEF F, i
      <4> DEFINE W == [call EXCEPT ![c] = v]
      <4>1. /\ W = [call EXCEPT ![c] = v] /\ i \in Id /\ v \in Call /\ v.id = i
            /\ v.step # "holding" /\ v.pinned = "no" /\ CallOK(log, E, v)
            /\ call[c].pinned = "yes" /\ E[i].tag = call[c].tag
        BY <1>2, <1>3, <1>5
      <4>2. D = W
        BY <2>2
      <4> HIDE DEF W
      <4>3. Good(log, Q, Left(E, i), states, live, W) /\ E[i].pins - 1 \in Nat
        BY <3>1, <3>2, <4>1, LeaveKeeps
      <4> QED BY <4>2, <4>3
    <3>4. F = Left(E, i)
      BY DEF Left
    <3> QED BY <3>3, <3>4
  <2>4. [E[i] EXCEPT !.pins = n] \in PoolEntry /\ [E[i] EXCEPT !.pins = n] # NoEntry
        /\ [E[i] EXCEPT !.pins = n].phase = E[i].phase
        /\ [E[i] EXCEPT !.pins = n].tag = E[i].tag
        /\ [E[i] EXCEPT !.pins = n].source = E[i].source
    BY <2>1, <2>3 DEF PoolEntry, NoEntry, Tag
  <2>5. /\ F \in [Id -> PoolEntry \cup {NoEntry}] /\ F[i] # NoEntry
        /\ F[i].phase = E[i].phase /\ F[i].tag = E[i].tag /\ \A j \in Id \ {i} : F[j] = E[j]
        /\ F[i].source = E[i].source
    BY <1>1, <1>2, <2>4
  <2>6. q = TouchReady(m, i)
    <3>1. [p EXCEPT !.entry[i].pins = @ - 1] = m
      BY <1>1 DEF n, E
    <3> QED BY <1>5, <3>1 DEF Unpin, E
  <2> HIDE DEF F
  <2>7. m.entry = F /\ m.recency = p.recency
    OBVIOUS
  <2>8. Order(F, p.recency)
    BY <1>1, <2>1, <2>5 DEF Order
  <2>9. PoolOK(m)
    BY <1>1, <2>5, <2>7, <2>8 DEF PoolOK
  <2>10. BoundedBut(F, i) /\ (F[i].phase # "ready" => Bounded(F))
    BY <2>5, BoundedFacts DEF E, ReadyIds
  <2> HIDE DEF m
  <2>11. /\ PoolOK(q) /\ Trims(F, q.entry) /\ Bounded(q.entry)
         /\ q = [entry |-> q.entry, recency |-> q.recency]
    BY <1>2, <2>6, <2>7, <2>9, <2>10, TouchReadyFacts
  <2>12. Stays(D, E, q.entry)
    <3>1. Stays(D, F, q.entry)
      BY <2>3, <2>5, <2>11, TrimStays DEF Good
    <3> QED BY <2>5, <3>1 DEF Stays, Pins
  <2>13. Good(log, Q, q.entry, states, live, D)
    BY <2>3, <2>11, TrimKeeps
  <2>14. Same(E, q.entry)
    <3>1. ASSUME NEW j \in Id
          PROVE  F[j].tag = E[j].tag /\ F[j].phase = E[j].phase /\ F[j].source = E[j].source
      BY <2>5
    <3> QED BY <2>11, <3>1 DEF Trims, Same, NoEntry
  <2> QED BY <2>11, <2>12, <2>13, <2>14 DEF E
<1> QED BY <1>4, <1>5

\* FreshTag finds a tag that neither a queued load nor a caller has.
LEMMA FreshTagFacts ==
  ASSUME NEW i \in Id, Good(log, chain, entry, states, live, call)
  PROVE  FreshFor(chain, call, i, FreshTag(i))
<1> DEFINE K == DOMAIN chain[i]
           n == Len(chain[i])
           m == Cardinality(Client)
           f == [k \in K |-> chain[i][k].tag]
           g == [c \in Client |-> call[c].tag]
           A == { f[k] : k \in K }
           B == { g[c] : c \in Client }
           N == 1..n + m + 1
<1>1. chain[i] \in Seq(Operation) /\ n \in Nat /\ K = 1..n
  BY DEF Good, Types
<1>2. IsFiniteSet(Client) /\ m \in Nat
  BY ActorsAssumption, FS_CardinalityType
<1>3. IsFiniteSet(K) /\ Cardinality(K) = n
  BY <1>1, FS_Interval
<1>4. IsFiniteSet(A) /\ Cardinality(A) <= n
  <2>1. f \in Surjection(K, A)
    BY DEF Surjection
  <2> HIDE DEF A, f, K
  <2> QED BY <1>3, <2>1, FS_Surjection
<1>5. IsFiniteSet(B) /\ Cardinality(B) <= m
  <2>1. g \in Surjection(Client, B)
    BY DEF Surjection
  <2> HIDE DEF B, g
  <2> QED BY <1>2, <2>1, FS_Surjection
<1>6. PICK t \in N : t \notin A \cup B
  <2> HIDE DEF A, B
  <2> SUFFICES ASSUME N \subseteq A \cup B PROVE FALSE
    OBVIOUS
  <2>1. /\ IsFiniteSet(A \cup B)
        /\ Cardinality(A \cup B) = Cardinality(A) + Cardinality(B) - Cardinality(A \cap B)
    BY <1>4, <1>5, FS_Union
  <2>2. IsFiniteSet(A \cap B) /\ Cardinality(A \cap B) \in Nat
    BY <1>4, FS_Subset, FS_CardinalityType
  <2>3. Cardinality(A) \in Nat /\ Cardinality(B) \in Nat
    BY <1>4, <1>5, FS_CardinalityType
  <2>4. Cardinality(N) = n + m + 1
    <3> DEFINE z == n + m + 1
    <3>1. z \in Int /\ z >= 1 /\ z - 1 + 1 = n + m + 1
      BY <1>1, <1>2
    <3> HIDE DEF z
    <3>2. Cardinality(1..z) = z - 1 + 1
      BY <3>1, FS_Interval
    <3> QED BY <3>1, <3>2 DEF z
  <2>5. Cardinality(N) <= Cardinality(A \cup B)
    <3>1. N \in SUBSET (A \cup B)
      OBVIOUS
    <3> HIDE DEF N
    <3> QED BY <2>1, <3>1, FS_Subset
  <2> HIDE DEF N, n, m
  <2> QED BY <1>1, <1>2, <1>4, <1>5, <2>1, <2>2, <2>3, <2>4, <2>5
<1>7. /\ \A k \in K : chain[i][k].tag # t
      /\ \A c \in Client : call[c].id = i => call[c].tag # t
  BY <1>6
<1>8. /\ FreshTag(i) \in N /\ \A k \in K : chain[i][k].tag # FreshTag(i)
      /\ \A c \in Client : call[c].id = i => call[c].tag # FreshTag(i)
  BY <1>7 DEF FreshTag
<1> QED BY <1>1, <1>2, <1>8 DEF FreshFor, NoLoad, NoCommit, Tag

-----------------------------------------------------------------------------
(* The invariant *)

\* The inductive invariant.
IInv == /\ Good(log, chain, entry, states, live, call)
        /\ PoolOK(Pool) /\ Bounded(entry)
        /\ calls \in [Client -> 0..MaxCalls] /\ failures \in 0..MaxFailures
        /\ known \in [Id -> Nat] /\ served \in {"fresh", "stale"}

\* What the invariant says of each variable.
LEMMA Parts ==
  ASSUME IInv
  PROVE  /\ Good(log, chain, entry, states, live, call)
         /\ PoolOK(Pool) /\ Bounded(entry) /\ known \in [Id -> Nat]
         /\ Pool.entry = entry /\ Pool.recency = recency
         /\ log \in [Id -> Log] /\ chain \in [Id -> Seq(Operation)]
         /\ entry \in [Id -> PoolEntry \cup {NoEntry}]
         /\ states \in [Id -> State \cup {NoState}]
         /\ live \in [Id -> Live \cup {NoLive}] /\ call \in [Client -> Call]
  BY DEF IInv, Good, Types, Pool

\* The pool without the entry of one id.
LEMMA PoolRemoved ==
  ASSUME IInv, NEW i \in Id, NEW q, q = Remove(Pool, i)
  PROVE  /\ PoolOK(q) /\ Bounded(q.entry) /\ q.entry = [entry EXCEPT ![i] = NoEntry]
         /\ q = [entry |-> q.entry, recency |-> q.recency]
<1> DEFINE p == Pool
<1>1. PoolOK(p) /\ Bounded(p.entry) /\ p.entry = entry
  BY Parts
<1> HIDE DEF p
<1>2. q = Remove(p, i)
  BY DEF p
<1>3. /\ PoolOK(q) /\ q.entry = [p.entry EXCEPT ![i] = NoEntry]
      /\ q = [entry |-> q.entry, recency |-> q.recency]
      /\ Bounded(p.entry) => Bounded(q.entry)
  BY <1>1, <1>2, RemoveFacts
<1> QED BY <1>1, <1>3

\* A client that waits for no operation has none queued.
LEMMA FreeFacts ==
  ASSUME NEW L, NEW Q, NEW E, NEW S, NEW V, NEW C, Good(L, Q, E, S, V, C),
         NEW c \in Client
  PROVE  /\ C[c] \in Call /\ C[c].id \in Id /\ CallOK(L, E, C[c])
         /\ C[c].step \notin {"committing", "checking", "appending", "writing"} =>
              NoOps(Q, c)
<1>1. /\ C \in [Client -> Call] /\ CallOK(L, E, C[c]) /\ ChainInv(L, Q, E, V, C)
      /\ Q \in [Id -> Seq(Operation)]
  BY DEF Good, Types
<1>2. C[c] \in Call /\ C[c].id \in Id
  BY <1>1 DEF Call
<1>3. ASSUME NEW i \in Id, NEW k \in DOMAIN Q[i], Q[i][k].client = c
      PROVE  C[c].step \in {"committing", "checking", "appending", "writing"}
  <2>1. Q[i][k] \in Operation /\ OpInv(L, E, V, C, i, Q[i][k])
    BY <1>1 DEF ChainInv
  <2> QED BY <1>3, <2>1, ActorsAssumption DEF OpInv, Operation
<1> QED BY <1>1, <1>2, <1>3 DEF NoOps

\* A call that has no pin ends, or starts over.
NoPin(E, u) == u.pinned = "no" \/ E[u.id] = NoEntry \/ E[u.id].tag # u.tag
Restarted(C, c) ==
  [C EXCEPT ![c] =
     [C[c] EXCEPT !.step = "top", !.pinned = "no", !.tag = 0, !.source = NoLog]]

\* It leaves everything else as it is.
LEMMA EndKeeps ==
  ASSUME NEW L, NEW Q, NEW E, NEW S, NEW V, NEW C, Good(L, Q, E, S, V, C),
         NEW c \in Client, NoOps(Q, c), C[c].step # "holding", NoPin(E, C[c])
  PROVE  Good(L, Q, E, S, V, Ended(C, c)) /\ Good(L, Q, E, S, V, Restarted(C, c))
<1>1. C[c] \in Call /\ C[c].id \in Id /\ CallOK(L, E, C[c])
  BY FreeFacts
<1>2. ASSUME NEW v \in Call, v.step # "holding", v.pinned = "no", CallOK(L, E, v)
      PROVE  CanGo(L, Q, E, c, C[c], v)
  <2>1. SamePins(E, C[c], v)
    BY <1>2 DEF SamePins, Pins, NoPin
  <2> QED BY <1>2, <2>1 DEF CanGo
<1> DEFINE n == NoCall(C[c].id)
           r == [C[c] EXCEPT !.step = "top", !.pinned = "no", !.tag = 0,
                             !.source = NoLog]
<1>3. n \in Call /\ n.step # "holding" /\ n.pinned = "no" /\ CallOK(L, E, n)
  BY <1>1, NoCallFacts
<1>4. /\ r \in Call /\ r.step = "top" /\ r.pinned = "no" /\ r.source = NoLog
      /\ r.id = C[c].id /\ r.floor = C[c].floor /\ NoLog.len = 0
  BY <1>1 DEF Call, NoLog, Log
<1> HIDE DEF n, r
<1>5. CallOK(L, E, r)
  <2>1. L[C[c].id] \in Log /\ L[C[c].id].len \in Nat /\ L[C[c].id].len # 0
    BY <1>1 DEF Good, Types, EntryInv, Log
  <2> QED BY <1>1, <1>4, <2>1 DEF CallOK, Old, Loaded
<1>6. CanGo(L, Q, E, c, C[c], n) /\ CanGo(L, Q, E, c, C[c], r)
  BY <1>2, <1>3, <1>4, <1>5
<1>7. /\ Good(L, Q, E, S, V, [C EXCEPT ![c] = n])
      /\ Good(L, Q, E, S, V, [C EXCEPT ![c] = r])
  BY <1>3, <1>4, <1>6, CallKeeps
<1> QED BY <1>7 DEF n, r, Ended, Restarted

-----------------------------------------------------------------------------
(* One lemma per action *)

\* A client makes a call.
LEMMA AskStep ==
  ASSUME IInv, NEW c \in Client, Ask(c)
  PROVE  IInv'
<1>1. /\ call[c] \in Call /\ call[c].step = "idle" /\ NoOps(chain, c)
      /\ CallOK(log, entry, call[c])
  BY Parts, FreeFacts DEF Ask
<1>2. PICK kind \in Kind, i \in Id :
        /\ call' = [call EXCEPT ![c] =
             [NoCall(i) EXCEPT !.kind = kind,
                !.step = IF kind = "append" THEN "appending" ELSE "top",
                !.floor = IF kind = "append" THEN log[i].len ELSE known[i]]]
        /\ IF kind = "append" THEN Enqueue(i, "append", c, 0) ELSE UNCHANGED chain
  BY Zenon DEF Ask
<1> USE Parts
<1> DEFINE v == [NoCall(i) EXCEPT !.kind = kind,
                   !.step = IF kind = "append" THEN "appending" ELSE "top",
                   !.floor = IF kind = "append" THEN log[i].len ELSE known[i]]
           o == [op |-> "append", client |-> c, tag |-> 0]
<1>3. log[i] \in Log /\ log[i].len \in Nat /\ known[i] \in Nat
  BY DEF Log
<1>4. /\ v \in Call /\ v.step \in {"top", "appending"} /\ v.pinned = "no"
      /\ v.source = NoLog /\ v.id = i
      /\ kind = "append" => v.step = "appending"
  BY <1>3 DEF NoCall, Call, NoLog, Log
<1>5. call' = [call EXCEPT ![c] = v]
  BY <1>2
<1> HIDE DEF v
<1>6. CallOK(log, entry, v)
  <2>1. log[i].len # 0 /\ NoLog.len = 0
    BY DEF Good, EntryInv, NoLog
  <2> QED BY <1>3, <1>4, <2>1 DEF CallOK, Old, Loaded
<1>7. CanGo(log, chain, entry, c, call[c], v)
  <2>1. SamePins(entry, call[c], v)
    BY <1>1, <1>4 DEF SamePins, Pins, CallOK
  <2> QED BY <1>1, <1>4, <1>6, <2>1 DEF CanGo
<1>8. Good(log, chain, entry, states, live, call')
  BY <1>4, <1>5, <1>7, CallKeeps
<1>9. Good(log, chain', entry, states, live, call')
  <2>1. CASE kind # "append"
    BY <1>2, <1>8, <2>1
  <2>2. CASE kind = "append"
    <3>1. chain' = [chain EXCEPT ![i] = Append(chain[i], o)]
      BY <1>2, <2>2 DEF Enqueue
    <3>2. call'[c] = v
      BY <1>5
    <3>3. /\ o \in Operation /\ o.op = "append" /\ o.client = c /\ o.client # "none"
      BY ActorsAssumption DEF Operation
    <3> HIDE DEF o
    <3>4. OpInv(log, entry, live, call', i, o)
      BY <1>4, <2>2, <3>2, <3>3 DEF OpInv
    <3>5. Fits(chain[i], o)
      BY <1>1, <3>3 DEF Fits, Clash, NoOps
    <3> QED BY <1>8, <3>1, <3>3, <3>4, <3>5, EnqueueKeeps
  <2> QED BY <2>1, <2>2
<1>10. calls' \in [Client -> 0..MaxCalls]
  <2>1. calls \in [Client -> 0..MaxCalls] /\ calls[c] < MaxCalls /\ MaxCalls \in Nat
        /\ calls' = [calls EXCEPT ![c] = @ + 1]
    BY BoundsAssumption DEF IInv, Ask
  <2>2. calls[c] + 1 \in 0..MaxCalls
    BY <2>1
  <2> QED BY <2>1, <2>2
<1> QED BY <1>9, <1>10 DEF IInv, Ask, Pool

\* A live session answers, and the call ends.
LEMMA MeetLiveStep ==
  ASSUME IInv, NEW c \in Client, MeetLive(c)
  PROVE  IInv'
<1>1. /\ NoOps(chain, c) /\ call[c].step = "top" /\ CallOK(log, entry, call[c])
      /\ call[c] \in Call
  BY Parts, FreeFacts DEF MeetLive
<1>2. NoPin(entry, call[c])
  BY <1>1 DEF NoPin, CallOK, Call
<1>3. call' = Ended(call, c)
  BY Parts DEF MeetLive, Finish, Ended
<1>4. Good(log, chain, entry, states, live, call')
  BY <1>1, <1>2, <1>3, EndKeeps, Parts
<1> QED BY <1>4, Parts DEF IInv, MeetLive, Pool

\* A lease ends, and its pin with it.
LEMMA EndLeaseStep ==
  ASSUME IInv, NEW c \in Client, EndLease(c)
  PROVE  IInv'
<1> DEFINE q == Unpin(Pool, c)
<1>1. NoOps(chain, c) /\ call[c].step # "holding"
  BY Parts, FreeFacts DEF EndLease
<1>2. call' = Ended(call, c)
  BY Parts DEF EndLease, Finish, Ended
<1> HIDE DEF q
<1>3. /\ PoolOK(q) /\ Bounded(q.entry) /\ Good(log, chain, q.entry, states, live, call')
      /\ q = [entry |-> q.entry, recency |-> q.recency]
  <2>1. /\ PoolOK(Pool) /\ Bounded(Pool.entry)
        /\ Good(log, chain, Pool.entry, states, live, call)
    BY Parts
  <2> QED BY <1>1, <1>2, <2>1, UnpinKeeps DEF q
<1>4. Pool' = q /\ entry' = q.entry
  BY <1>3 DEF EndLease, SetPool, Pool, q
<1> QED BY <1>3, <1>4, Parts DEF IInv, EndLease

\* An entry that stays in its place changes; it does not count for the bound,
\* unless it did before.
Put(p, i, x) == [entry |-> [p.entry EXCEPT ![i] = x], recency |-> p.recency]

\* The pool keeps its order and its bound when an entry changes so.
LEMMA PutFacts ==
  ASSUME NEW p, PoolOK(p), Bounded(p.entry), NEW i \in Id, p.entry[i] # NoEntry,
         NEW x \in PoolEntry,
         x.phase = "ready" => p.entry[i].phase = "ready" /\ x.pins >= p.entry[i].pins
  PROVE  PoolOK(Put(p, i, x)) /\ Bounded(Put(p, i, x).entry)
<1> DEFINE E == p.entry
           F == [E EXCEPT ![i] = x]
           q == [entry |-> F, recency |-> p.recency]
<1>1. /\ E \in [Id -> PoolEntry \cup {NoEntry}] /\ Order(E, p.recency)
      /\ p.recency \in Seq(Id) /\ E[i] \in PoolEntry
  BY DEF PoolOK
<1>2. /\ F \in [Id -> PoolEntry \cup {NoEntry}] /\ F[i] = x /\ x # NoEntry
      /\ \A j \in Id \ {i} : F[j] = E[j]
  BY <1>1 DEF PoolEntry, NoEntry, Tag
<1>3. PoolOK(q)
  <2>1. Order(F, p.recency)
    BY <1>1, <1>2 DEF Order
  <2>2. q.entry = F /\ q.recency = p.recency
    OBVIOUS
  <2> QED BY <1>1, <1>2, <2>1, <2>2 DEF PoolOK
<1>4. Bounded(F)
  <2>1. CASE x.phase # "ready"
    <3>1. i \notin ReadyIds(F)
      BY <1>2, <2>1 DEF ReadyIds
    <3> QED BY <1>2, <3>1, BoundedFacts
  <2>2. CASE x.phase = "ready"
    <3>1. ReadyIds(F) = ReadyIds(E)
      BY <1>2, <2>2 DEF ReadyIds
    <3>2. \A j \in ReadyIds(E) : E[j].pins > 0 => F[j].pins > 0
      <4>1. x.pins \in Nat /\ E[i].pins \in Nat
        BY <1>1 DEF PoolEntry
      <4> QED BY <1>2, <2>2, <4>1 DEF ReadyIds
    <3> QED BY <3>1, <3>2 DEF Bounded
  <2> QED BY <2>1, <2>2
<1> QED BY <1>3, <1>4 DEF Put

\* The changes the actions write as an update of the pool.
LEMMA PutForms ==
  ASSUME NEW i \in Id
  PROVE  /\ [Pool EXCEPT !.entry[i].source = log[i]] =
              Put(Pool, i, [entry[i] EXCEPT !.source = log[i]])
         /\ [Pool EXCEPT !.entry[i].phase = "reserved"] =
              Put(Pool, i, [entry[i] EXCEPT !.phase = "reserved"])
  BY DEF Put, Pool

\* An entry that is loading joins the pool.
LEMMA NewFacts ==
  ASSUME NEW p, PoolOK(p), Bounded(p.entry), NEW i \in Id, p.entry[i] = NoEntry,
         NEW x \in PoolEntry, x.phase = "loading",
         NEW q, q = [entry |-> [p.entry EXCEPT ![i] = x], recency |-> Append(p.recency, i)]
  PROVE  PoolOK(q) /\ Bounded(q.entry)
<1> DEFINE E == p.entry
           F == [E EXCEPT ![i] = x]
           r == Append(p.recency, i)
<1>1. /\ E \in [Id -> PoolEntry \cup {NoEntry}] /\ Order(E, p.recency)
      /\ p.recency \in Seq(Id)
  BY DEF PoolOK
<1>2. /\ F \in [Id -> PoolEntry \cup {NoEntry}] /\ F[i] = x /\ x # NoEntry
      /\ \A j \in Id \ {i} : F[j] = E[j]
  BY <1>1 DEF PoolEntry, NoEntry, Tag
<1>3. Without(p.recency, i) = p.recency
  BY <1>1 DEF Order, Without
<1>4. /\ r \in Seq(Id) /\ Seqs!IsInjective(r)
      /\ \A j \in Id : Listed(r, j) <=> Listed(p.recency, j) \/ j = i
  BY <1>1, <1>3, RecencyFacts DEF Order
<1>5. q = [entry |-> F, recency |-> r] /\ q.entry = F /\ q.recency = r
  OBVIOUS
<1> HIDE DEF r, F
<1>6. PoolOK(q)
  <2>1. Order(F, r)
    BY <1>1, <1>2, <1>4 DEF Order
  <2> QED BY <1>2, <1>4, <1>5, <2>1 DEF PoolOK
<1>7. i \notin ReadyIds(F)
  BY <1>2 DEF ReadyIds
<1>8. Bounded(F)
  BY <1>2, <1>7, BoundedFacts
<1> QED BY <1>5, <1>6, <1>8

\* A caller u joins the entry of its id as v, and pins it if it is a borrow.
Joins(E, u, v) ==
  /\ E[u.id] # NoEntry /\ v \in Call /\ v.id = u.id /\ v.kind = u.kind /\ v.floor = u.floor
  /\ u.step = "top" /\ v.step \in {"loading", "loaded"} /\ v.tag = E[u.id].tag
  /\ v.step = "loaded" => E[u.id].phase # "loading" /\ v.source = E[u.id].source
  /\ v.step = "loading" => v.source = NoLog
  /\ v.pinned = "yes" => v.kind = "borrow"

Joined(E, v) ==
  IF v.pinned = "yes" THEN [E EXCEPT ![v.id] = [E[v.id] EXCEPT !.pins = E[v.id].pins + 1]]
  ELSE E

\* A client that joins an entry counts in its pins if it borrows.
LEMMA JoinKeeps ==
  ASSUME NEW L, NEW Q, NEW E, NEW S, NEW V, NEW C, Good(L, Q, E, S, V, C),
         NEW c \in Client, NEW v, Joins(E, C[c], v), NEW D, D = [C EXCEPT ![c] = v]
  PROVE  Good(L, Q, Joined(E, v), S, V, D)
<1> DEFINE i == C[c].id
<1>1. C[c].id \in Id /\ E[i] # NoEntry
  BY FreeFacts DEF Joins
<1>2. /\ C \in [Client -> Call] /\ E \in [Id -> PoolEntry \cup {NoEntry}]
      /\ PinsInv(E, C) /\ E[i] \in PoolEntry /\ L[i] \in Log /\ L[i].len \in Nat
      /\ L[i].len # 0 /\ Old(L, E[i].source, i)
  BY <1>1 DEF Good, Types, EntryInv, Log
<1>3. CallOK(L, E, C[c]) /\ NoOps(Q, c)
  BY FreeFacts DEF Joins
<1>4. C[c].pinned # "yes"
  BY <1>3 DEF CallOK, Joins
<1>5. /\ v \in Call /\ v.id = i /\ v.step \in {"loading", "loaded"}
      /\ v.tag = E[i].tag
      /\ v.pinned = "yes" => v.kind = "borrow"
  BY DEF Joins
<1>6. CallOK(L, E, v)
  <2>1. Old(L, v.source, i)
    BY <1>2, <1>5 DEF Joins, Old, NoLog
  <2>2. E[i].tag # 0
    BY <1>2 DEF PoolEntry, Tag
  <2> QED BY <1>3, <1>5, <2>1, <2>2 DEF CallOK, Joins, Loaded
<1>7. CASE v.pinned = "no"
  <2>1. SamePins(E, C[c], v)
    BY <1>4, <1>7 DEF SamePins, Pins
  <2>2. CanGo(L, Q, E, c, C[c], v)
    BY <1>3, <1>5, <1>6, <2>1 DEF CanGo, Joins
  <2>3. Good(L, Q, E, S, V, D)
    BY <1>5, <2>2, CallKeeps
  <2> QED BY <1>7, <2>3 DEF Joined
<1>8. CASE v.pinned = "yes"
  <2> DEFINE A == Pinned(E, C, i)
  <2>1. Pinned(E, D, i) = A \cup {c} /\ c \notin A
    <3>1. D[c] = v /\ \A d \in Client \ {c} : D[d] = C[d]
      BY <1>2
    <3> QED BY <1>4, <1>5, <1>8, <3>1 DEF Pinned, Pins
  <2>2. E[i].pins = Cardinality(A) /\ IsFiniteSet(A)
    <3>1. A \in SUBSET Client
      BY DEF Pinned
    <3> QED BY <1>1, <1>2, <3>1, ActorsAssumption, FS_Subset DEF PinsInv
  <2>3. Cardinality(Pinned(E, D, i)) = E[i].pins + 1
    BY <2>1, <2>2, FS_AddElement
  <2>4. Joined(E, v) = Repinned(E, D, i)
    BY <1>5, <1>8, <2>3 DEF Joined, Repinned
  <2>5. C[c].step # "holding" /\ v.step # "holding"
    BY <1>5 DEF Joins
  <2>6. Good(L, Q, Repinned(E, D, i), S, V, D)
    <3>1. C[c].id = i
      OBVIOUS
    <3> HIDE DEF i
    <3> QED BY <1>1, <1>3, <1>5, <1>6, <2>5, <3>1, PinsKeep
  <2> QED BY <2>4, <2>6
<1>9. v.pinned \in {"no", "yes"}
  BY <1>5 DEF Call
<1> QED BY <1>7, <1>8, <1>9

\* A call joins the entry of its id, or makes it and starts the load.
LEMMA EnterStep ==
  ASSUME IInv, NEW c \in Client, Enter(c)
  PROVE  IInv'
<1> USE Parts
<1> DEFINE i == call[c].id
           pin == IF call[c].kind = "borrow" THEN 1 ELSE 0
           tag == IF entry[i] = NoEntry THEN FreshTag(i) ELSE entry[i].tag
           loaded == entry[i].phase \in {"ready", "committing", "reserved"}
           step == IF loaded THEN "loaded" ELSE "loading"
           source == IF loaded THEN entry[i].source ELSE NoLog
           pinned == IF pin = 1 THEN "yes" ELSE "no"
           v == [call[c] EXCEPT !.step = step, !.tag = tag, !.source = source,
                                !.pinned = pinned]
<1>1. /\ call[c] \in Call /\ i \in Id /\ call[c].step = "top" /\ NoOps(chain, c)
      /\ entry[i] \in PoolEntry \cup {NoEntry}
  BY FreeFacts DEF Enter
<1>2. call' = [call EXCEPT ![c] = v]
  BY DEF Enter
<1>3. UNCHANGED <<log, states, live, calls, failures, known, served>>
  BY DEF Enter
<1>4. tag \in Tag
  <2>1. entry[i] # NoEntry => entry[i].tag \in Tag
    BY <1>1 DEF PoolEntry
  <2> QED BY <1>1, <2>1, FreshTagFacts DEF FreshFor
<1>5. /\ v \in Call /\ v.id = i /\ v.kind = call[c].kind /\ v.floor = call[c].floor
      /\ v.tag = tag /\ v.step = step /\ v.source = source /\ v.pinned = pinned
  <2>1. source \in Log
    BY <1>1 DEF PoolEntry, NoEntry, NoLog, Log
  <2>2. /\ tag \in {0} \cup Tag /\ step \in {"loading", "loaded"}
        /\ pinned \in {"no", "yes"}
    BY <1>4
  <2> HIDE DEF tag, step, source, pinned
  <2> QED BY <1>1, <2>1, <2>2 DEF Call
<1> HIDE DEF v
<1>6. CASE entry[i] # NoEntry
  <2>1. /\ entry' = [entry EXCEPT ![i].pins = @ + pin] /\ recency' = recency
        /\ chain' = chain
    BY <1>6 DEF Enter
  <2>2. entry[i] \in PoolEntry /\ entry[i].pins \in Nat
    BY <1>1, <1>6 DEF PoolEntry
  <2>3. Joins(entry, call[c], v)
    <3>1. entry[i].phase = "loading" \/ loaded
      BY <2>2 DEF PoolEntry
    <3> QED BY <1>1, <1>5, <1>6, <3>1 DEF Joins
  <2>4. Good(log, chain, Joined(entry, v), states, live, call')
    BY <1>2, <2>3, JoinKeeps
  <2> HIDE DEF i
  <2>5. CASE call[c].kind = "borrow"
    <3> DEFINE n == entry[i].pins + 1
               x == [entry[i] EXCEPT !.pins = n]
    <3>1. entry' = [entry EXCEPT ![i] = x] /\ Joined(entry, v) = entry'
      BY <1>1, <1>5, <2>1, <2>5 DEF Joined
    <3>2. n \in Nat /\ n >= entry[i].pins
      BY <2>2
    <3> HIDE DEF n
    <3>3. x \in PoolEntry /\ x.phase = entry[i].phase /\ x.pins >= entry[i].pins
      BY <2>2, <3>2 DEF PoolEntry
    <3> HIDE DEF x
    <3>4. PoolOK(Put(Pool, i, x)) /\ Bounded(Put(Pool, i, x).entry)
      BY <1>1, <1>6, <3>3, PutFacts
    <3>5. Pool' = Put(Pool, i, x) /\ entry' = Put(Pool, i, x).entry
      BY <2>1, <3>1 DEF Put, Pool
    <3> QED BY <1>3, <2>1, <2>4, <3>1, <3>4, <3>5 DEF IInv
  <2>6. CASE call[c].kind # "borrow"
    <3>1. entry[i].pins + 0 = entry[i].pins
      BY <2>2
    <3>2. [entry[i] EXCEPT !.pins = entry[i].pins + 0] = entry[i]
      BY <2>2, <3>1 DEF PoolEntry
    <3>3. entry' = entry /\ Joined(entry, v) = entry
      BY <1>1, <1>5, <2>1, <2>6, <3>2 DEF Joined
    <3>4. Pool' = Pool
      BY <2>1, <3>3 DEF Pool
    <3> QED BY <1>3, <2>1, <2>4, <3>3, <3>4 DEF IInv
  <2> QED BY <2>5, <2>6
<1>7. CASE entry[i] = NoEntry
  <2> DEFINE y == Newly(tag)
             x == [NoEntry EXCEPT !.tag = tag, !.phase = "loading", !.pins = pin]
             F == [entry EXCEPT ![i] = y]
             o == [op |-> "load", client |-> "none", tag |-> tag]
  <2>1. /\ entry' = [entry EXCEPT ![i] = x] /\ recency' = Append(recency, i)
        /\ chain' = [chain EXCEPT ![i] = Append(chain[i], o)]
        /\ live[i].phase \notin {"live", "broken", "draining"}
    BY <1>7 DEF Enter, Enqueue
  <2>2. /\ x \in PoolEntry /\ y \in PoolEntry /\ y.tag = tag /\ y.phase = "loading"
        /\ x.phase = "loading" /\ y.pins = 0 /\ y # NoEntry
        /\ x = [y EXCEPT !.pins = pin] /\ pin \in {0, 1}
    BY <1>4 DEF Newly, PoolEntry, NoEntry, NoLog, Log, Tag
  <2>3. FreshFor(chain, call, i, tag)
    BY <1>1, <1>7, FreshTagFacts
  <2>4. o \in Operation /\ o.op = "load" /\ o.client = "none" /\ o.tag = tag
    BY <1>4 DEF Operation
  <2>5. step = "loading" /\ source = NoLog /\ (pinned = "yes" => call[c].kind = "borrow")
        /\ pin = IF pinned = "yes" THEN 1 ELSE 0
    BY <1>7 DEF NoEntry
  <2> HIDE DEF x, o, pin, tag, step, source, pinned, i
  <2>6. Good(log, chain, F, states, live, call)
    BY <1>1, <1>7, <2>1, <2>3, NewEntryKeeps
  <2>7. F[i] = y /\ F \in [Id -> PoolEntry \cup {NoEntry}]
    BY <1>1, <2>2
  <2> HIDE DEF y
  <2>8. x = [F[i] EXCEPT !.pins = pin]
    BY <2>2, <2>7
  <2> HIDE DEF F
  <2>9. Good(log, chain', F, states, live, call)
    <3>1. OpInv(log, F, live, call, i, o)
      BY <1>4, <2>2, <2>4, <2>7 DEF OpInv, Tag
    <3>2. Fits(chain[i], o)
      BY <2>3, <2>4 DEF Fits, Clash, FreshFor, NoLoad, NoCommit
    <3> QED BY <1>1, <2>1, <2>4, <2>6, <3>1, <3>2, EnqueueKeeps
  <2>10. Joins(F, call[c], v)
    BY <1>1, <1>5, <2>2, <2>5, <2>7 DEF Joins, i
  <2>11. Good(log, chain', Joined(F, v), states, live, call')
    BY <1>2, <2>9, <2>10, JoinKeeps
  <2>12. Joined(F, v) = entry'
    <3>1. CASE pinned = "yes"
      <4> DEFINE n == F[i].pins + 1
      <4>1. n = 1 /\ pin = n
        BY <2>2, <2>5, <2>7, <3>1
      <4>2. Joined(F, v) = [F EXCEPT ![i] = [F[i] EXCEPT !.pins = n]]
        BY <1>5, <3>1 DEF Joined
      <4> HIDE DEF n
      <4> QED BY <1>1, <2>1, <2>8, <4>1, <4>2 DEF F
    <3>2. CASE pinned # "yes"
      <4>1. x = y
        BY <2>2, <2>5, <3>2 DEF PoolEntry
      <4> QED BY <1>5, <2>1, <3>2, <4>1 DEF F, Joined
    <3> QED BY <3>1, <3>2
  <2>13. PoolOK(Pool') /\ Bounded(entry')
    <3>1. Pool' = [entry |-> [Pool.entry EXCEPT ![i] = x],
                   recency |-> Append(Pool.recency, i)]
      BY <2>1 DEF Pool
    <3>2. Pool'.entry = entry'
      BY DEF Pool
    <3>3. PoolOK(Pool') /\ Bounded(Pool'.entry)
      BY <1>1, <1>7, <2>2, <3>1, NewFacts
    <3> QED BY <3>2, <3>3
  <2> QED BY <1>3, <2>11, <2>12, <2>13 DEF IInv
<1> QED BY <1>6, <1>7

\* The running operation is done and leaves its chain.
LEMMA HeadFacts ==
  ASSUME IInv, NEW i \in Id, chain[i] # <<>>, Dequeue(i)
  PROVE  /\ Good(log, chain', entry, states, live, call) /\ Fits(chain'[i], Head1(i))
         /\ Head1(i) \in Operation /\ OpInv(log, entry, live, call, i, Head1(i))
         /\ Head1(i).client # "none" => NoOps(chain', Head1(i).client)
<1>1. /\ chain[i] \in Seq(Operation) /\ 1 \in DOMAIN chain[i]
      /\ Drops(chain[i], 1, Tail(chain[i])) /\ Head1(i) = chain[i][1]
  BY Parts, DropFacts DEF Head1
<1>2. chain' = Cleared(chain, i, Tail(chain[i]))
  BY DEF Dequeue, Cleared
<1> DEFINE o == chain[i][1]
<1>3. /\ Good(log, chain', entry, states, live, call) /\ Fits(chain'[i], o)
      /\ o \in Operation /\ OpInv(log, entry, live, call, i, o)
      /\ o.client # "none" => NoOps(chain', o.client)
  <2>1. Good(log, chain, entry, states, live, call)
    BY Parts
  <2> HIDE DEF o
  <2>2. o = chain[i][1]
    BY DEF o
  <2> QED BY <1>1, <1>2, <2>1, <2>2, DropKeeps
<1> QED BY <1>1, <1>3

\* A load fills its entry if it is still there, and all that wait for it read
\* the log.
LEMMA LoadDoneStep ==
  ASSUME IInv, NEW i \in Id, LoadDone(i)
  PROVE  IInv'
<1> USE Parts
<1> DEFINE tag == Head1(i).tag
           E == entry
           x == [E[i] EXCEPT !.source = log[i]]
           y == [E[i] EXCEPT !.source = log[i], !.phase = "ready"]
           p == Put(Pool, i, x)
           q == MakeReady(p, i)
           D == call'
<1>1. /\ Good(log, chain', entry, states, live, call) /\ Fits(chain'[i], Head1(i))
      /\ OpInv(log, entry, live, call, i, Head1(i)) /\ Head1(i).op = "load"
  BY HeadFacts DEF LoadDone, Runs
<1>2. /\ NoLoad(chain', i, tag) /\ tag # 0
      /\ E[i].tag = tag => E[i].phase = "loading"
  <2>1. ASSUME NEW k \in DOMAIN chain'[i], chain'[i][k].op = "load"
        PROVE  chain'[i][k].tag # tag
    BY <1>1, <2>1 DEF Fits, Clash
  <2> QED BY <1>1, <2>1 DEF NoLoad, OpInv
<1>3. log[i] \in Log /\ Old(log, log[i], i)
  BY DEF Old, Log
<1>4. /\ Good(log, chain', entry', states, live, call) /\ PoolOK(Pool') /\ Bounded(entry')
      /\ entry'[i] # NoEntry /\ entry'[i].tag = tag =>
           entry'[i].phase = "ready" /\ entry'[i].source = log[i]
  <2>1. CASE ~(entry[i] # NoEntry /\ entry[i].tag = tag)
    <3>1. entry' = entry /\ recency' = recency
      BY <2>1 DEF LoadDone
    <3>2. Pool' = Pool
      BY <3>1 DEF Pool
    <3> QED BY <1>1, <2>1, <3>1, <3>2
  <2>2. CASE entry[i] # NoEntry /\ entry[i].tag = tag
    <3>1. E[i] \in PoolEntry /\ E[i].phase = "loading"
      BY <1>2, <2>2
    <3>2. /\ x \in PoolEntry /\ x.phase = "loading" /\ x # NoEntry
          /\ y \in PoolEntry /\ y.phase = "ready" /\ y.tag = E[i].tag
          /\ y.pins = E[i].pins /\ y.source = log[i] /\ y = [x EXCEPT !.phase = "ready"]
      BY <1>3, <3>1 DEF PoolEntry, NoEntry
    <3>3. NoCommit(chain', i, E[i].tag)
      BY <1>1, <3>1, Unclaimed
    <3>4. p = [Pool EXCEPT !.entry[i].source = log[i]]
      BY PutForms
    <3>5. SetPool(q)
      BY <2>2, <3>4 DEF LoadDone
    <3>6. p.entry = [E EXCEPT ![i] = x] /\ p.entry[i] = x
      BY DEF Put
    <3> HIDE DEF x, y
    <3>7. PoolOK(p) /\ Bounded(p.entry)
      BY <2>2, <3>2, PutFacts
    <3> HIDE DEF p
    <3>8. p.entry[i] # NoEntry
      BY <3>2, <3>6
    <3>9. /\ PoolOK(q) /\ Bounded(q.entry)
          /\ Trims([p.entry EXCEPT ![i] = [p.entry[i] EXCEPT !.phase = "ready"]], q.entry)
          /\ q = [entry |-> q.entry, recency |-> q.recency]
      BY <3>7, <3>8, MakeReadyFacts
    <3> DEFINE F == [E EXCEPT ![i] = y]
    <3>10. Trims(F, q.entry)
      <4>1. F = [p.entry EXCEPT ![i] = [p.entry[i] EXCEPT !.phase = "ready"]]
        BY <3>2, <3>6
      <4> QED BY <3>9, <4>1
    <3>11. Good(log, chain', F, states, live, call)
      BY <1>1, <1>2, <1>3, <2>2, <3>1, <3>2, <3>3, EntryKeeps
    <3>12. F[i] = y
      OBVIOUS
    <3> HIDE DEF q, F
    <3>13. Good(log, chain', q.entry, states, live, call)
      BY <3>10, <3>11, TrimKeeps
    <3>14. q.entry[i] = NoEntry \/ q.entry[i] = y
      BY <3>10, <3>12 DEF Trims
    <3>15. Pool' = q /\ entry' = q.entry
      BY <3>5, <3>9 DEF SetPool, Pool
    <3> QED BY <3>2, <3>9, <3>13, <3>14, <3>15
  <2> QED BY <2>1, <2>2
<1>5. ASSUME NEW c \in Client
      PROVE  /\ D[c] = IF c \in Waiters(i, tag)
                       THEN [call[c] EXCEPT !.step = "loaded", !.source = log[i]] ELSE call[c]
             /\ D[c] \in Call
             /\ c \in Waiters(i, tag) =>
                  CanGo(log, chain', entry', c, call[c], D[c])
  <2> DEFINE v == [call[c] EXCEPT !.step = "loaded", !.source = log[i]]
  <2>1. D[c] = IF c \in Waiters(i, tag) THEN v ELSE call[c]
    BY DEF LoadDone
  <2>2. call[c] \in Call
    OBVIOUS
  <2>3. /\ v \in Call /\ v.step = "loaded" /\ v.source = log[i] /\ v.id = call[c].id
        /\ v.tag = call[c].tag /\ v.pinned = call[c].pinned /\ v.floor = call[c].floor
        /\ v.kind = call[c].kind
    BY <1>3, <2>2 DEF Call
  <2>4. CASE c \in Waiters(i, tag)
    <3>1. call[c].id = i /\ call[c].step = "loading" /\ call[c].tag = tag
      BY <2>4 DEF Waiters
    <3>2. NoOps(chain', c) /\ CallOK(log, entry', call[c])
      BY <1>4, <3>1, FreeFacts
    <3> HIDE DEF v
    <3>3. CallOK(log, entry', v)
      BY <1>3, <1>4, <2>3, <3>1, <3>2 DEF CallOK
    <3>4. SamePins(entry', call[c], v)
      BY <2>3 DEF SamePins, Pins
    <3>5. CanGo(log, chain', entry', c, call[c], v)
      BY <2>3, <3>1, <3>2, <3>3, <3>4 DEF CanGo
    <3> QED BY <2>1, <2>3, <2>4, <3>5 DEF v
  <2> QED BY <2>1, <2>2, <2>4
<1>6. Good(log, chain', entry', states, live, D)
  <2>1. D \in [Client -> Call]
    <3>1. D = [c \in Client |-> D[c]]
      BY DEF LoadDone
    <3> QED BY <1>5, <3>1
  <2>2. \A c \in Client : D[c] # call[c] => CanGo(log, chain', entry', c, call[c], D[c])
    BY <1>5
  <2> HIDE DEF D
  <2> QED BY <1>4, <2>1, <2>2, CallsKeep
<1>7. UNCHANGED <<log, states, live, calls, failures, served>> /\ known' \in [Id -> Nat]
  BY <1>3 DEF LoadDone, Log
<1> QED BY <1>4, <1>6, <1>7 DEF IInv

\* The entry a reader waited for becomes the most recent one.
LEMMA TouchedFacts ==
  ASSUME IInv, NEW c \in Client, NEW i \in Id, call[c].id = i, NEW q, q = Touched(c)
  PROVE  /\ PoolOK(q) /\ Bounded(q.entry) /\ Trims(entry, q.entry)
         /\ q = [entry |-> q.entry, recency |-> q.recency]
         /\ Good(log, chain, q.entry, states, live, call)
<1>1. CASE Current(c)
  <2>1. BoundedBut(Pool.entry, i)
    BY Parts, BoundedFacts
  <2>2. /\ PoolOK(q) /\ Bounded(q.entry) /\ Trims(entry, q.entry)
        /\ q = [entry |-> q.entry, recency |-> q.recency]
    <3>1. q = TouchReady(Pool, i)
      BY <1>1 DEF Touched
    <3> QED BY <2>1, <3>1, Parts, TouchReadyFacts
  <2> QED BY <2>2, Parts, TrimKeeps
<1>2. CASE ~Current(c)
  <2>1. q = Pool /\ q = [entry |-> q.entry, recency |-> q.recency]
    BY <1>2 DEF Touched, Pool
  <2> QED BY <2>1, Parts DEF Trims
<1> QED BY <1>1, <1>2

\* A reader touches its entry and queues the check of its source.
LEMMA CheckStep ==
  ASSUME IInv, NEW c \in Client, Check(c)
  PROVE  IInv'
<1> DEFINE i == call[c].id
           q == Touched(c)
<1>1. /\ call[c] \in Call /\ i \in Id /\ call[c].step = "loaded" /\ NoOps(chain, c)
      /\ UNCHANGED <<log, states, live, calls, failures, known, served>>
  BY Parts, FreeFacts DEF Check
<1>2. /\ PoolOK(q) /\ Bounded(q.entry) /\ Trims(entry, q.entry)
      /\ q = [entry |-> q.entry, recency |-> q.recency]
      /\ Good(log, chain, q.entry, states, live, call)
  BY <1>1, TouchedFacts
<1> HIDE DEF q
<1>3. CASE Attached(i)
  <2> DEFINE r == Unpin(q, c)
  <2>1. SetPool(r) /\ chain' = chain /\ call' = Ended(call, c)
    BY <1>3, Parts DEF Check, Finish, Ended, q
  <2> HIDE DEF r
  <2>2. /\ PoolOK(r) /\ Bounded(r.entry) /\ Good(log, chain, r.entry, states, live, call')
        /\ r = [entry |-> r.entry, recency |-> r.recency]
    BY <1>1, <1>2, <2>1, UnpinKeeps DEF r
  <2>3. Pool' = r /\ entry' = r.entry
    BY <2>1, <2>2 DEF SetPool, Pool
  <2> QED BY <1>1, <2>1, <2>2, <2>3 DEF IInv
<1>4. CASE ~Attached(i)
  <2> DEFINE v == [call[c] EXCEPT !.step = "checking"]
             o == [op |-> "check", client |-> c, tag |-> 0]
  <2>1. /\ SetPool(q) /\ chain' = [chain EXCEPT ![i] = Append(chain[i], o)]
        /\ call' = [call EXCEPT ![c] = v]
    BY <1>4 DEF Check, Enqueue, q
  <2>2. Pool' = q /\ entry' = q.entry
    BY <1>2, <2>1 DEF SetPool, Pool
  <2>3. /\ v \in Call /\ v.step = "checking" /\ v.source = call[c].source /\ v.id = i
        /\ v.tag = call[c].tag /\ v.pinned = call[c].pinned /\ v.floor = call[c].floor
        /\ v.kind = call[c].kind
    BY <1>1 DEF Call
  <2>4. o \in Operation /\ o.op = "check" /\ o.client = c /\ c # "none"
    BY ActorsAssumption DEF Operation
  <2> HIDE DEF v, o
  <2>5. CanGo(log, chain, q.entry, c, call[c], v)
    <3>1. CallOK(log, q.entry, call[c])
      BY <1>2, FreeFacts
    <3>2. CallOK(log, q.entry, v)
      BY <1>1, <2>3, <3>1 DEF CallOK, Loaded
    <3>3. SamePins(q.entry, call[c], v)
      BY <2>3 DEF SamePins, Pins
    <3> QED BY <1>1, <2>3, <3>2, <3>3 DEF CanGo
  <2>6. Good(log, chain, q.entry, states, live, call')
    BY <1>2, <2>1, <2>3, <2>5, CallKeeps
  <2>7. OpInv(log, q.entry, live, call', i, o)
    <3>1. call'[c] = v
      BY <2>1, Parts
    <3> QED BY <2>3, <2>4, <3>1 DEF OpInv
  <2>8. Fits(chain[i], o)
    BY <1>1, <2>4 DEF Fits, Clash, NoOps
  <2>9. Good(log, chain', q.entry, states, live, call')
    BY <1>1, <2>1, <2>4, <2>6, <2>7, <2>8, EnqueueKeeps
  <2> QED BY <1>1, <1>2, <2>2, <2>9 DEF IInv
<1> QED BY <1>3, <1>4

\* A check or a read is answered; a borrow keeps its pin.
LEMMA DeliverKeeps ==
  ASSUME IInv, NEW Q, Good(log, Q, entry, states, live, call),
         NEW c \in Client, NoOps(Q, c), call[c].step = "checking",
         Deliver(c)
  PROVE  /\ Good(log, Q, entry, states, live, call') /\ Pool' = Pool /\ entry' = entry
         /\ served' \in {"fresh", "stale"}
<1>1. call[c] \in Call /\ CallOK(log, entry, call[c])
  BY FreeFacts
<1>2. Pool' = Pool /\ entry' = entry
  BY DEF Deliver, SetPool, Pool
<1>5. served' \in {"fresh", "stale"}
  BY DEF Deliver, Answer, IInv
<1>3. CASE call[c].kind = "borrow"
  <2> DEFINE v == [call[c] EXCEPT !.step = "leasing"]
  <2>1. call' = [call EXCEPT ![c] = v]
    BY <1>3 DEF Deliver
  <2>2. /\ v \in Call /\ v.step = "leasing" /\ v.source = call[c].source
        /\ v.id = call[c].id /\ v.tag = call[c].tag /\ v.pinned = call[c].pinned
        /\ v.floor = call[c].floor /\ v.kind = call[c].kind
    BY <1>1 DEF Call
  <2> HIDE DEF v
  <2>3. CanGo(log, Q, entry, c, call[c], v)
    <3>1. CallOK(log, entry, v)
      BY <1>1, <2>2 DEF CallOK, Loaded
    <3>2. SamePins(entry, call[c], v)
      BY <2>2 DEF SamePins, Pins
    <3> QED BY <2>2, <3>1, <3>2 DEF CanGo
  <2>4. Good(log, Q, entry, states, live, call')
    BY <2>1, <2>2, <2>3, CallKeeps
  <2> QED BY <1>2, <1>5, <2>4
<1>4. CASE call[c].kind # "borrow"
  <2>1. call' = Ended(call, c)
    BY <1>4, Parts DEF Deliver, Finish, Ended
  <2>2. NoPin(entry, call[c])
    BY <1>1, <1>4 DEF NoPin, CallOK, Call
  <2> QED BY <1>2, <1>5, <2>1, <2>2, EndKeeps
<1> QED BY <1>3, <1>4, <1>5

\* The entry the client waits for goes, if it is nobody's.
Discarded(c) == IF Current(c) THEN Remove(Pool, call[c].id) ELSE Pool

\* Then the client has no pin on what is left.
LEMMA DiscardKeeps ==
  ASSUME IInv, NEW Q, Good(log, Q, entry, states, live, call),
         NEW c \in Client, call[c].id \in Id,
         Current(c) => /\ entry[call[c].id].phase # "reserved"
                       /\ Loose(log, Q, call, call[c].id, call[c].tag),
         NEW q, q = Discarded(c)
  PROVE  /\ PoolOK(q) /\ Bounded(q.entry) /\ Good(log, Q, q.entry, states, live, call)
         /\ q = [entry |-> q.entry, recency |-> q.recency]
         /\ NoPin(q.entry, call[c])
         /\ q.entry = entry \/ q.entry = [entry EXCEPT ![call[c].id] = NoEntry]
<1> DEFINE i == call[c].id
<1>1. CASE ~Current(c)
  <2>1. q = Pool /\ q = [entry |-> q.entry, recency |-> q.recency]
    BY <1>1 DEF Discarded, Pool
  <2>2. NoPin(entry, call[c])
    BY <1>1 DEF Current, NoPin
  <2> QED BY <2>1, <2>2, Parts
<1>2. CASE Current(c)
  <2>1. q = Remove(Pool, i)
    BY <1>2 DEF Discarded
  <2>2. /\ PoolOK(q) /\ q.entry = [entry EXCEPT ![i] = NoEntry]
        /\ q = [entry |-> q.entry, recency |-> q.recency]
        /\ Bounded(q.entry)
    <3>1. PoolOK(Pool) /\ Bounded(Pool.entry) /\ Pool.entry = entry
      BY Parts
    <3>2. /\ PoolOK(q) /\ q.entry = [Pool.entry EXCEPT ![i] = NoEntry]
          /\ q = [entry |-> q.entry, recency |-> q.recency]
          /\ Bounded(q.entry)
      BY <2>1, <3>1, RemoveFacts
    <3> QED BY <3>1, <3>2
  <2>3. /\ q.entry[i] = NoEntry /\ \A j \in Id \ {i} : q.entry[j] = entry[j]
        /\ q.entry \in [Id -> PoolEntry \cup {NoEntry}]
    BY <2>2, Parts
  <2>4. Shrinks(log, Q, call, entry, q.entry)
    BY <1>2, <2>3 DEF Shrinks, Current
  <2>5. Good(log, Q, q.entry, states, live, call)
    BY <2>4, ShrinkKeeps
  <2> QED BY <2>2, <2>3, <2>5 DEF NoPin
<1> QED BY <1>1, <1>2

\* A check answers its reader, or has it start over.
LEMMA CheckDoneStep ==
  ASSUME IInv, NEW i \in Id, CheckDone(i)
  PROVE  IInv'
<1> DEFINE c == Head1(i).client
<1>1. /\ Good(log, chain', entry, states, live, call) /\ Head1(i) \in Operation
      /\ OpInv(log, entry, live, call, i, Head1(i)) /\ Head1(i).op = "check"
      /\ c # "none" => NoOps(chain', c)
  BY HeadFacts DEF CheckDone, Runs
<1>2. /\ c \in Client /\ call[c].id = i /\ call[c].step = "checking" /\ NoOps(chain', c)
  BY <1>1, ActorsAssumption DEF OpInv
<1>3. UNCHANGED <<log, states, live, calls, failures, known>>
  BY DEF CheckDone
<1>4. call[c] \in Call /\ CallOK(log, entry, call[c]) /\ log[i] \in Log
  BY <1>2, Parts, FreeFacts
<1> HIDE DEF c
<1>5. CASE Attached(i) /\ SetPool(Unpin(Pool, c)) /\ Finish(c) /\ UNCHANGED served
  <2> DEFINE q == Unpin(Pool, c)
  <2>1. call' = Ended(call, c) /\ PoolOK(Pool) /\ Bounded(Pool.entry) /\ Pool.entry = entry
    BY <1>5, Parts DEF Finish, Ended
  <2> HIDE DEF q
  <2>2. /\ PoolOK(q) /\ Bounded(q.entry) /\ Good(log, chain', q.entry, states, live, call')
        /\ q = [entry |-> q.entry, recency |-> q.recency]
    BY <1>1, <1>2, <2>1, UnpinKeeps DEF q
  <2>3. Pool' = q /\ entry' = q.entry
    BY <1>5, <2>2 DEF SetPool, Pool, q
  <2> QED BY <1>3, <1>5, <2>2, <2>3 DEF IInv
<1>6. CASE Deliver(c)
  <2>1. /\ Good(log, chain', entry, states, live, call') /\ Pool' = Pool
        /\ entry' = entry /\ served' \in {"fresh", "stale"}
    BY <1>1, <1>2, <1>6, DeliverKeeps
  <2> QED BY <1>3, <2>1, Parts DEF IInv
<1>7. CASE /\ served' = served /\ (~Current(c) \/ entry[i].phase = "ready")
           /\ SetPool(IF Current(c) THEN Remove(Pool, i) ELSE Pool) /\ Go(c, "top")
  <2> DEFINE q == Discarded(c)
  <2>1. call' = Restarted(call, c)
    BY <1>7, Parts DEF Go, Restarted
  <2>2. SetPool(q)
    BY <1>2, <1>7 DEF Discarded
  <2>3. Current(c) => /\ entry[call[c].id].phase # "reserved"
                      /\ Loose(log, chain', call, call[c].id, call[c].tag)
    BY <1>1, <1>2, <1>7, Unclaimed, Parts DEF Current
  <2> HIDE DEF q
  <2>4. /\ PoolOK(q) /\ Bounded(q.entry) /\ Good(log, chain', q.entry, states, live, call)
        /\ q = [entry |-> q.entry, recency |-> q.recency] /\ NoPin(q.entry, call[c])
    BY <1>1, <1>2, <2>3, DiscardKeeps DEF q
  <2>5. Pool' = q /\ entry' = q.entry
    BY <2>2, <2>4 DEF SetPool, Pool
  <2>6. Good(log, chain', q.entry, states, live, call')
    BY <1>2, <2>1, <2>4, EndKeeps
  <2> QED BY <1>3, <1>7, <2>4, <2>5, <2>6 DEF IInv
<1> QED BY <1>5, <1>6, <1>7 DEF CheckDone, c

\* A resume or a load takes the ready entry, waits, or starts over.
LEMMA ReserveStep ==
  ASSUME IInv, NEW c \in Client, Reserve(c)
  PROVE  IInv'
<1> DEFINE i == call[c].id
<1>1. /\ call[c] \in Call /\ i \in Id /\ call[c].step \in {"loaded", "settling"}
      /\ NoOps(chain, c) /\ CallOK(log, entry, call[c])
      /\ call[c].pinned = "no"
  <2>1. call[c].kind \in {"prepare", "load"} /\ call[c].step \in {"loaded", "settling"}
    BY DEF Reserve
  <2>2. /\ call[c] \in Call /\ i \in Id /\ NoOps(chain, c)
        /\ CallOK(log, entry, call[c])
    BY <2>1, Parts, FreeFacts
  <2> QED BY <2>1, <2>2 DEF CallOK, Call
<1>2. UNCHANGED <<log, recency, states, live, calls, failures, known, served>>
  BY DEF Reserve
<1>3. NoPin(entry, call[c])
  BY <1>1 DEF NoPin
<1>4. CASE Go(c, "top") /\ UNCHANGED <<entry, chain>>
  <2>1. call' = Restarted(call, c)
    BY <1>4, Parts DEF Go, Restarted
  <2>2. Good(log, chain, entry, states, live, call')
    BY <1>1, <1>3, <2>1, Parts, EndKeeps
  <2> QED BY <1>2, <1>4, <2>2, Parts DEF IInv, Pool
<1>5. CASE /\ call' = [call EXCEPT ![c].step = "settling"] /\ UNCHANGED <<entry, chain>>
  <2> DEFINE v == [call[c] EXCEPT !.step = "settling"]
  <2>1. call' = [call EXCEPT ![c] = v]
    BY <1>5
  <2>2. /\ v \in Call /\ v.step = "settling" /\ v.source = call[c].source /\ v.id = i
        /\ v.tag = call[c].tag /\ v.pinned = "no" /\ v.floor = call[c].floor
    BY <1>1 DEF Call
  <2> HIDE DEF v
  <2>3. CanGo(log, chain, entry, c, call[c], v)
    <3>1. CallOK(log, entry, v)
      BY <1>1, <2>2 DEF CallOK, Loaded
    <3>2. SamePins(entry, call[c], v)
      BY <1>1, <2>2 DEF SamePins, Pins
    <3> QED BY <1>1, <2>2, <3>1, <3>2 DEF CanGo
  <2>4. Good(log, chain, entry, states, live, call')
    BY <2>1, <2>2, <2>3, Parts, CallKeeps
  <2> QED BY <1>2, <1>5, <2>4, Parts DEF IInv, Pool
<1>6. CASE /\ Current(c) /\ entry[i].phase = "ready"
           /\ entry' = [entry EXCEPT ![i].phase = "committing"]
           /\ Enqueue(i, "commit", c, call[c].tag)
           /\ call' = [call EXCEPT ![c].step = "committing",
                                   ![c].source = entry[i].source]
  <2> DEFINE x == [entry[i] EXCEPT !.phase = "committing"]
             v == [call[c] EXCEPT !.step = "committing", !.source = entry[i].source]
             o == [op |-> "commit", client |-> c, tag |-> call[c].tag]
  <2>1. /\ entry' = [entry EXCEPT ![i] = x]
        /\ chain' = [chain EXCEPT ![i] = Append(chain[i], o)]
        /\ call' = [call EXCEPT ![c] = v]
    BY <1>1, <1>6, Parts DEF Enqueue
  <2>2. /\ entry[i] \in PoolEntry /\ entry[i].tag = call[c].tag /\ entry[i] # NoEntry
        /\ entry[i].source \in Log /\ entry[i].phase = "ready"
    <3>1. entry[i] # NoEntry
      BY <1>6 DEF NoEntry
    <3> QED BY <1>1, <1>6, <3>1, Parts DEF Current, PoolEntry
  <2>3. /\ x \in PoolEntry /\ x.tag = entry[i].tag /\ x.pins = entry[i].pins
        /\ x.source = entry[i].source /\ x.phase = "committing"
    BY <2>2 DEF PoolEntry
  <2>4. /\ v \in Call /\ v.step = "committing" /\ v.source = entry[i].source /\ v.id = i
        /\ v.tag = call[c].tag /\ v.pinned = "no" /\ v.floor = call[c].floor
    BY <1>1, <2>2 DEF Call
  <2>5. /\ o \in Operation /\ o.op = "commit" /\ o.client = c /\ c # "none"
        /\ o.tag = call[c].tag /\ o.tag = entry[i].tag /\ o.tag # 0
    <3>1. entry[i].tag \in Tag
      BY <2>2 DEF PoolEntry
    <3> QED BY <2>2, <3>1, ActorsAssumption DEF Operation, Tag
  <2> HIDE DEF x, v, o
  <2>6. /\ entry'[i] = x /\ call'[c] = v /\ Old(log, entry[i].source, i)
    BY <1>1, <2>1, Parts DEF Good, EntryInv
  <2>7. NoLoad(chain, i, entry[i].tag) /\ NoCommit(chain, i, entry[i].tag)
    BY <1>1, <2>2, Unclaimed, Parts
  <2>8. Good(log, chain, entry', states, live, call)
    BY <1>1, <2>1, <2>2, <2>3, <2>6, <2>7, Parts, EntryKeeps
  <2>9. CanGo(log, chain, entry', c, call[c], v)
    <3>1. CallOK(log, entry', v)
      BY <1>1, <2>3, <2>4, <2>6 DEF CallOK, Loaded
    <3>2. SamePins(entry', call[c], v)
      BY <1>1, <2>4 DEF SamePins, Pins
    <3> QED BY <1>1, <2>4, <3>1, <3>2 DEF CanGo
  <2>10. Good(log, chain, entry', states, live, call')
    BY <2>1, <2>4, <2>8, <2>9, CallKeeps
  <2>11. OpInv(log, entry', live, call', i, o)
    BY <2>2, <2>3, <2>4, <2>5, <2>6 DEF OpInv
  <2>12. Fits(chain[i], o)
    BY <1>1, <2>5, <2>7 DEF Fits, Clash, NoOps, NoCommit
  <2>13. Good(log, chain', entry', states, live, call')
    BY <1>1, <2>1, <2>5, <2>10, <2>11, <2>12, EnqueueKeeps
  <2>14. PoolOK(Put(Pool, i, x)) /\ Bounded(Put(Pool, i, x).entry)
    BY <1>1, <2>2, <2>3, Parts, PutFacts
  <2>15. Pool' = Put(Pool, i, x) /\ entry' = Put(Pool, i, x).entry
    BY <1>2, <2>1 DEF Put, Pool
  <2> QED BY <1>2, <2>13, <2>14, <2>15, Parts DEF IInv
<1> QED BY <1>4, <1>5, <1>6 DEF Reserve

\* A commit grants the reservation, repairs the log, or is refused.
LEMMA CommitDoneStep ==
  ASSUME IInv, NEW i \in Id, CommitDone(i)
  PROVE  IInv'
<1> DEFINE c == Head1(i).client
           x == [entry[i] EXCEPT !.phase = "reserved"]
           y == [entry[i] EXCEPT !.phase = "ready"]
           q == Discarded(c)
<1>1. /\ Good(log, chain', entry, states, live, call) /\ Head1(i) \in Operation
      /\ OpInv(log, entry, live, call, i, Head1(i)) /\ Head1(i).op = "commit"
      /\ c # "none" => NoOps(chain', c)
      /\ Fits(chain'[i], Head1(i))
  BY HeadFacts DEF CommitDone, Runs
<1>2. /\ c \in Client /\ call[c].id = i /\ call[c].step = "committing" /\ NoOps(chain', c)
      /\ \/ entry[i].phase = "committing" /\ entry[i].tag = call[c].tag
         \/ entry[i].tag # call[c].tag /\ call[c].source.len < log[i].len
  BY <1>1, ActorsAssumption DEF OpInv
<1>3. /\ NoCommit(chain', i, call[c].tag) /\ Loose(log, chain', call, i, call[c].tag)
  BY <1>1, <1>2 DEF Fits, Clash, OpInv, NoCommit, Loose
<1>4. UNCHANGED <<live, calls, failures>>
  BY DEF CommitDone
<1>5. /\ call[c] \in Call /\ CallOK(log, entry, call[c]) /\ log[i] \in Log
      /\ log[i].len \in Nat /\ call[c].source.len \in Nat /\ call[c].pinned = "no"
  <2>1. call[c] \in Call /\ CallOK(log, entry, call[c]) /\ log[i] \in Log
    BY <1>1, <1>2, Parts, FreeFacts
  <2> QED BY <1>2, <2>1 DEF Log, Call, CallOK
<1>6. ASSUME entry[i].phase = "committing", entry[i].tag = call[c].tag
      PROVE  /\ entry[i] \in PoolEntry /\ entry[i] # NoEntry /\ Current(c)
             /\ NoCommit(chain', i, entry[i].tag) /\ NoLoad(chain', i, entry[i].tag)
             /\ Old(log, entry[i].source, i)
  <2>1. entry[i] # NoEntry
    BY <1>6 DEF NoEntry
  <2>2. Current(c) /\ NoCommit(chain', i, entry[i].tag)
    BY <1>2, <1>3, <1>6, <2>1 DEF Current
  <2>3. NoLoad(chain', i, entry[i].tag)
    BY <1>1, <1>6, Unclaimed
  <2>4. entry[i] \in PoolEntry /\ Old(log, entry[i].source, i)
    BY <2>1, Parts DEF Good, EntryInv
  <2> QED BY <2>1, <2>2, <2>3, <2>4
<1>13. UpToDate(i, call[c].source) =>
         entry[i].phase = "committing" /\ entry[i].tag = call[c].tag
  BY <1>2, <1>5 DEF UpToDate
<1>7. /\ PoolOK(q) /\ Bounded(q.entry) /\ Good(log, chain', q.entry, states, live, call)
      /\ q = [entry |-> q.entry, recency |-> q.recency] /\ NoPin(q.entry, call[c])
  <2>1. Current(c) => /\ entry[call[c].id].phase # "reserved"
                      /\ Loose(log, chain', call, call[c].id, call[c].tag)
    BY <1>2, <1>3 DEF Current
  <2>2. Good(log, chain', entry, states, live, call) /\ call[c].id \in Id /\ c \in Client
    BY <1>1, <1>2
  <2> HIDE DEF c, q
  <2>3. q = Discarded(c)
    BY DEF q
  <2> QED BY <2>1, <2>2, <2>3, DiscardKeeps
<1>8. Current(c) => q.entry[i] = NoEntry
  <2> SUFFICES ASSUME Current(c) PROVE q.entry[i] = NoEntry
    OBVIOUS
  <2>1. q = Remove(Pool, i)
    BY <1>2 DEF Discarded
  <2> HIDE DEF q
  <2> QED BY <2>1, Parts DEF Remove
<1> HIDE DEF c, q
<1>9. ASSUME SetPool(q), UNCHANGED <<log, states, known, served>>, Finish(c) \/ Go(c, "top")
      PROVE  IInv'
  <2>1. call' = Ended(call, c) \/ call' = Restarted(call, c)
    BY <1>9, <1>2, Parts DEF Finish, Go, Ended, Restarted
  <2>2. Pool' = q /\ entry' = q.entry
    BY <1>7, <1>9 DEF SetPool, Pool
  <2>3. Good(log, chain', q.entry, states, live, call')
    BY <1>2, <1>7, <2>1, EndKeeps
  <2> QED BY <1>4, <1>7, <1>9, <2>2, <2>3, Parts DEF IInv
<1>10. ASSUME UpToDate(i, call[c].source), SetPool(q), UNCHANGED <<states, served>>,
              Go(c, "top"), known' = [known EXCEPT ![i] = log[i].len + 1],
              log' = [log EXCEPT ![i] = [len |-> @.len + 1, turn |-> "closed"]]
       PROVE  IInv'
  <2> DEFINE l == [len |-> log[i].len + 1, turn |-> "closed"]
  <2>1. call' = Restarted(call, c) /\ log' = [log EXCEPT ![i] = l]
    BY <1>10, <1>2, Parts DEF Go, Restarted
  <2>2. Pool' = q /\ entry' = q.entry
    BY <1>7, <1>10 DEF SetPool, Pool
  <2>3. Good(log, chain', q.entry, states, live, call')
    BY <1>2, <1>7, <2>1, EndKeeps
  <2>4. l \in Log /\ l.len > log[i].len
    BY <1>5 DEF Log
  <2>5. q.entry[i].phase # "reserved"
    BY <1>6, <1>8, <1>10, <1>13 DEF NoEntry
  <2>7. known' \in [Id -> Nat]
    BY <1>5, <1>10, Parts
  <2> HIDE DEF l
  <2>6. Good(log', chain', q.entry, states, live, call')
    BY <2>1, <2>3, <2>4, <2>5, LogKeeps
  <2> QED BY <1>4, <1>7, <1>10, <2>2, <2>6, <2>7, Parts DEF IInv
<1>11. ASSUME states[i].owner # "live", UpToDate(i, call[c].source),
              call[c].source.turn = "closed", Grant(c, i), UNCHANGED <<log, known>>,
              states' = [states EXCEPT ![i] =
                           [cursor |-> call[c].source.len, owner |-> "none"]]
       PROVE  IInv'
  <2> DEFINE s == [cursor |-> log[i].len, owner |-> "none"]
  <2>9. /\ entry[i].phase = "committing" /\ entry[i].tag = call[c].tag
        /\ entry[i] \in PoolEntry /\ entry[i] # NoEntry /\ Current(c)
        /\ NoCommit(chain', i, entry[i].tag) /\ NoLoad(chain', i, entry[i].tag)
        /\ Old(log, entry[i].source, i)
    BY <1>6, <1>11, <1>13
  <2>1. call[c].source = log[i] /\ log[i].turn = "closed"
    BY <1>2, <1>5, <1>11 DEF CallOK, Old, UpToDate
  <2>2. states' = [states EXCEPT ![i] = s] /\ s \in State
    BY <1>5, <1>11, <2>1 DEF State
  <2>3. live[i].phase = "none" /\ states'[i] = s
    BY <1>11, <2>2, Parts DEF Good, EntryInv
  <2>4. entry[i].phase # "reserved"
    BY <2>9
  <2> HIDE DEF s
  <2>5. /\ Good(log, chain', entry, states', live, call)
        /\ Good(log, chain', q.entry, states', live, call)
    <3>1. q.entry[i].phase # "reserved"
      BY <1>8, <2>9 DEF NoEntry
    <3>2. s \in State \cup {NoState} /\ (live[i].phase # "none" => s.owner = "live")
      BY <2>2, <2>3
    <3> QED BY <1>1, <1>7, <2>2, <2>4, <3>1, <3>2, StateKeeps
  <2>6. CASE /\ SetPool([Pool EXCEPT !.entry[i].phase = "reserved"])
             /\ call' = [call EXCEPT ![c].step = "holding"] /\ UNCHANGED served
    <3>1. SetPool(Put(Pool, i, x))
      BY <2>6, PutForms
    <3>2. Pool' = Put(Pool, i, x) /\ entry' = Put(Pool, i, x).entry
          /\ entry' = [entry EXCEPT ![i] = x]
      BY <3>1 DEF SetPool, Pool, Put
    <3>3. x \in PoolEntry /\ x.phase = "reserved"
      BY <2>9 DEF PoolEntry
    <3>4. PoolOK(Put(Pool, i, x)) /\ Bounded(Put(Pool, i, x).entry)
      <4> HIDE DEF x
      <4> QED BY <1>1, <1>2, <2>9, <3>3, Parts, PutFacts
    <3>5. call' = [call EXCEPT ![c] = [call[c] EXCEPT !.step = "holding"]]
      BY <2>6
    <3>6. Good(log, chain', entry', states', live, call')
      <4>1. states'[i] = [cursor |-> log[i].len, owner |-> "none"]
        BY <2>3 DEF s
      <4>2. entry' = [entry EXCEPT ![i] = [entry[i] EXCEPT !.phase = "reserved"]]
        BY <3>2
      <4> QED BY <1>2, <2>1, <2>3, <2>5, <2>9, <3>5, <4>1, <4>2, GrantKeeps
    <3> QED BY <1>4, <1>11, <2>6, <3>2, <3>4, <3>6, Parts DEF IInv
  <2>7. CASE SetPool(MakeReady(Pool, i)) /\ Finish(c) /\ UNCHANGED served
    <3> DEFINE r == MakeReady(Pool, i)
               F == [entry EXCEPT ![i] = y]
    <3>1. /\ y \in PoolEntry /\ y.phase = "ready" /\ y.tag = entry[i].tag
          /\ y.pins = entry[i].pins /\ y.source = entry[i].source
      BY <2>9 DEF PoolEntry
    <3>2. Trims(F, r.entry) /\ PoolOK(r) /\ Bounded(r.entry)
          /\ r = [entry |-> r.entry, recency |-> r.recency]
      <4> HIDE DEF r
      <4>1. /\ PoolOK(Pool) /\ Bounded(Pool.entry) /\ Pool.entry = entry
        BY Parts
      <4>2. /\ PoolOK(r) /\ Bounded(r.entry)
            /\ Trims([Pool.entry EXCEPT ![i] = [Pool.entry[i] EXCEPT !.phase = "ready"]],
                     r.entry)
            /\ r = [entry |-> r.entry, recency |-> r.recency]
        BY <2>9, <4>1, MakeReadyFacts DEF r
      <4> QED BY <4>1, <4>2
    <3> HIDE DEF y
    <3>3. Good(log, chain', F, states', live, call)
      BY <1>2, <2>5, <2>9, <3>1, EntryKeeps
    <3> HIDE DEF r, F
    <3>4. Good(log, chain', r.entry, states', live, call)
      BY <3>2, <3>3, TrimKeeps
    <3>5. call' = Ended(call, c)
      BY <1>2, <2>7, Parts DEF Finish, Ended
    <3>6. NoPin(r.entry, call[c])
      BY <1>5 DEF NoPin
    <3>7. Good(log, chain', r.entry, states', live, call')
      BY <1>2, <3>4, <3>5, <3>6, EndKeeps
    <3>8. Pool' = r /\ entry' = r.entry
      BY <2>7, <3>2 DEF SetPool, Pool, r
    <3> QED BY <1>4, <1>11, <2>7, <3>2, <3>7, <3>8, Parts DEF IInv
  <2>8. CASE SetPool(Remove(Pool, i)) /\ Finish(c) /\ Answer(c, call[c].source.len)
    <3>1. SetPool(q)
      BY <1>2, <2>8, <2>9 DEF q, Discarded
    <3>2. Pool' = q /\ entry' = q.entry
      BY <1>7, <3>1 DEF SetPool, Pool
    <3>3. call' = Ended(call, c)
      BY <1>2, <2>8, Parts DEF Finish, Ended
    <3>4. Good(log, chain', q.entry, states', live, call')
      BY <1>2, <1>7, <2>5, <3>3, EndKeeps
    <3>5. served' \in {"fresh", "stale"}
      BY <2>8 DEF Answer, IInv
    <3> QED BY <1>4, <1>7, <1>11, <3>2, <3>4, <3>5, Parts DEF IInv
  <2> QED BY <1>11, <2>6, <2>7, <2>8 DEF Grant
<1>12. /\ q = IF Current(c) THEN Remove(Pool, i) ELSE Pool
  BY <1>2 DEF q, Discarded
<1> QED BY <1>6, <1>9, <1>10, <1>11, <1>12, <1>13 DEF CommitDone, c

\* A resume publishes what it holds as the live session of the id.
LEMMA PublishStep ==
  ASSUME IInv, NEW c \in Client, Publish(c)
  PROVE  IInv'
<1> DEFINE i == call[c].id
           len == call[c].source.len
           q == Remove(Pool, i)
           s == [states[i] EXCEPT !.owner = "live"]
           v == live'[i]
           o == [op |-> "init", client |-> "none", tag |-> 0]
<1>1. /\ call[c] \in Call /\ i \in Id /\ call[c].step = "holding"
      /\ SetPool(q) /\ call' = [call EXCEPT ![c] = NoCall(i)]
      /\ states' = [states EXCEPT ![i] = s]
      /\ UNCHANGED <<log, calls, failures, known, served>>
  BY Parts, FreeFacts DEF Publish, Finish
<1>2. /\ log[i] \in Log /\ len \in Nat /\ len = log[i].len /\ live[i].phase = "none"
      /\ states[i] = [cursor |-> log[i].len, owner |-> "none"]
  <2>1. c \in HoldersOf(call, i) /\ ReservedAt(log, entry, states, live, call, i)
    BY <1>1, Parts DEF HoldersOf, Good, ReservedInv
  <2>2. call[c].source = log[i]
    BY <2>1 DEF ReservedAt
  <2> QED BY <1>1, <2>1, <2>2, Parts DEF ReservedAt, Log
<1>3. s \in State /\ s.owner = "live"
  BY <1>2 DEF State
<1>4. \/ /\ live' = [live EXCEPT ![i] = [phase |-> "live", next |-> len, saved |-> len]]
         /\ chain' = chain
      \/ /\ live' = [live EXCEPT ![i] = [phase |-> "live", next |-> len + 1, saved |-> len]]
         /\ chain' = [chain EXCEPT ![i] = Append(chain[i], o)]
  BY DEF Publish, Enqueue
<1>5. /\ live' = [live EXCEPT ![i] = v] /\ v \in Live /\ v.phase = "live"
      /\ chain' = chain \/ v.saved < v.next
      /\ chain' = chain \/ chain' = [chain EXCEPT ![i] = Append(chain[i], o)]
  <2> DEFINE a == [phase |-> "live", next |-> len, saved |-> len]
             b == [phase |-> "live", next |-> len + 1, saved |-> len]
  <2>1. a \in Live /\ b \in Live /\ b.saved < b.next /\ a.phase = "live" /\ b.phase = "live"
    BY <1>2 DEF Live
  <2>2. /\ live' = [live EXCEPT ![i] = a] \/ live' = [live EXCEPT ![i] = b]
        /\ live' = [live EXCEPT ![i] = b] \/ chain' = chain
    BY <1>4
  <2> HIDE DEF a, b
  <2> QED BY <1>1, <1>4, <2>1, <2>2, Parts
<1>6. PoolOK(q) /\ Bounded(q.entry) /\ q = [entry |-> q.entry, recency |-> q.recency]
      /\ q.entry = [entry EXCEPT ![i] = NoEntry]
  <2>1. PoolOK(Pool) /\ Bounded(Pool.entry) /\ Pool.entry = entry
    BY Parts
  <2> HIDE DEF q
  <2>2. /\ PoolOK(q) /\ Bounded(q.entry) /\ q = [entry |-> q.entry, recency |-> q.recency]
        /\ q.entry = [Pool.entry EXCEPT ![i] = NoEntry]
    <3>1. i \in Id
      BY <1>1
    <3> HIDE DEF i
    <3> QED BY <2>1, <3>1, RemoveFacts DEF q
  <2> QED BY <2>1, <2>2
<1>7. Pool' = q /\ entry' = q.entry
  BY <1>1, <1>6 DEF SetPool, Pool
<1> HIDE DEF s, v, o, q
<1>8. Good(log, chain, q.entry, states, live, call')
  <2>1. call[c].id = i
    OBVIOUS
  <2>2. Good(log, chain, [entry EXCEPT ![i] = NoEntry], states, live, call')
    <3> HIDE DEF i
    <3> QED BY <1>1, <2>1, Parts, LetGoKeeps
  <2> QED BY <1>6, <2>2
<1>9. q.entry[i] = NoEntry
  BY <1>1, <1>6, Parts
<1>10. /\ NoneOf(chain, i, "init") /\ NoneOf(chain, i, "write")
       /\ NoneOf(chain, i, "detach")
  <2> SUFFICES ASSUME NEW k \in DOMAIN chain[i]
               PROVE  chain[i][k].op \notin {"init", "write", "detach"}
    BY DEF NoneOf
  <2>1. OpInv(log, entry, live, call, i, chain[i][k])
    BY <1>1, Parts DEF Good, ChainInv
  <2> QED BY <1>2, <2>1 DEF OpInv
<1>11. Good(log, chain, q.entry, states', live', call')
  <2>1. LiveFits(chain, q.entry, i, v, s)
    BY <1>3, <1>5, <1>9, <1>10 DEF LiveFits, NoEntry
  <2>2. live' = [live EXCEPT ![i] = v]
    BY <1>5
  <2> QED BY <1>1, <1>8, <2>1, <2>2, LiveKeeps
<1>12. Good(log, chain', q.entry, states', live', call')
  <2>1. CASE chain' = chain
    BY <1>11, <2>1
  <2>2. CASE /\ chain' = [chain EXCEPT ![i] = Append(chain[i], o)]
             /\ v.saved < v.next
    <3>1. o \in Operation /\ o.op = "init" /\ o.client = "none"
      BY DEF Operation, o
    <3>2. OpInv(log, q.entry, live', call', i, o)
      BY <1>5, <2>2, <3>1 DEF OpInv, v
    <3>3. Fits(chain[i], o)
      BY <1>10, <3>1 DEF Fits, Clash, NoneOf
    <3> QED BY <1>1, <1>11, <2>2, <3>1, <3>2, <3>3, EnqueueKeeps
  <2> QED BY <1>5, <2>1, <2>2
<1> QED BY <1>1, <1>6, <1>7, <1>12, Parts DEF IInv

\* A resume that is rolled back lets its reservation go.
LEMMA ReleaseStep ==
  ASSUME IInv, NEW c \in Client, Release(c)
  PROVE  IInv'
<1> DEFINE i == call[c].id
           y == [entry[i] EXCEPT !.phase = "ready"]
<1>1. /\ call[c] \in Call /\ i \in Id /\ call[c].step = "holding"
      /\ call' = [call EXCEPT ![c] = NoCall(i)]
      /\ UNCHANGED <<log, chain, states, live, calls, failures, known, served>>
  BY Parts, FreeFacts DEF Release, Finish
<1>2. entry[i].phase = "reserved" /\ entry[i] # NoEntry
  <2>1. c \in HoldersOf(call, i) /\ ReservedAt(log, entry, states, live, call, i)
    BY <1>1, Parts DEF HoldersOf, Good, ReservedInv
  <2> QED BY <2>1 DEF ReservedAt, NoEntry
<1>3. PoolOK(Pool) /\ Bounded(Pool.entry) /\ Pool.entry = entry
  BY Parts
<1>4. /\ Good(log, chain, [entry EXCEPT ![i] = NoEntry], states, live, call')
      /\ Good(log, chain, [entry EXCEPT ![i] = y], states, live, call')
  <2>1. call[c].id = i
    OBVIOUS
  <2> HIDE DEF i
  <2> QED BY <1>1, <2>1, Parts, LetGoKeeps
<1>5. CASE SetPool(MakeReady(Pool, i))
  <2> DEFINE r == MakeReady(Pool, i)
  <2> HIDE DEF r
  <2>1. /\ PoolOK(r) /\ Bounded(r.entry)
        /\ Trims([Pool.entry EXCEPT ![i] = [Pool.entry[i] EXCEPT !.phase = "ready"]],
                 r.entry)
        /\ r = [entry |-> r.entry, recency |-> r.recency]
    BY <1>1, <1>2, <1>3, MakeReadyFacts DEF r
  <2>2. Trims([entry EXCEPT ![i] = y], r.entry)
    BY <1>3, <2>1
  <2> HIDE DEF y
  <2>3. Good(log, chain, r.entry, states, live, call')
    BY <1>4, <2>2, TrimKeeps
  <2>4. Pool' = r /\ entry' = r.entry
    BY <1>5, <2>1 DEF SetPool, Pool, r
  <2> QED BY <1>1, <2>1, <2>3, <2>4, Parts DEF IInv
<1>6. CASE SetPool(Remove(Pool, i))
  <2> DEFINE r == Remove(Pool, i)
  <2>1. /\ PoolOK(r) /\ Bounded(r.entry) /\ r.entry = [Pool.entry EXCEPT ![i] = NoEntry]
        /\ r = [entry |-> r.entry, recency |-> r.recency]
    <3>1. i \in Id /\ r = Remove(Pool, i)
      BY <1>1
    <3> HIDE DEF r, i
    <3> QED BY <1>3, <3>1, RemoveFacts
  <2> HIDE DEF r
  <2>2. Good(log, chain, r.entry, states, live, call')
    BY <1>3, <1>4, <2>1
  <2>3. Pool' = r /\ entry' = r.entry
    BY <1>6, <2>1 DEF SetPool, Pool, r
  <2> QED BY <1>1, <2>1, <2>2, <2>3, Parts DEF IInv
<1> QED BY <1>5, <1>6 DEF Release

\* A call ends and its pin with it, when the caller has no operation queued.
LEMMA GiveUp ==
  ASSUME IInv, NEW c \in Client, Good(log, chain', entry, states, live, call),
         NoOps(chain', c), call[c].step # "holding", SetPool(Unpin(Pool, c)), Finish(c),
         UNCHANGED <<log, states, live, calls, known, served>>, failures' \in 0..MaxFailures
  PROVE  IInv'
<1> DEFINE q == Unpin(Pool, c)
<1>1. call' = Ended(call, c) /\ PoolOK(Pool) /\ Bounded(Pool.entry) /\ Pool.entry = entry
  BY Parts DEF Finish, Ended
<1> HIDE DEF q
<1>2. /\ PoolOK(q) /\ Bounded(q.entry) /\ Good(log, chain', q.entry, states, live, call')
      /\ q = [entry |-> q.entry, recency |-> q.recency]
  BY <1>1, UnpinKeeps DEF q
<1>3. Pool' = q /\ entry' = q.entry
  BY <1>2 DEF SetPool, Pool, q
<1> QED BY <1>2, <1>3 DEF IInv

\* A call that has no pin ends, and its entry goes if it is nobody's.
LEMMA GiveUpEntry ==
  ASSUME IInv, NEW c \in Client, Good(log, chain', entry, states, live, call),
         NoOps(chain', c), call[c].step # "holding",
         NEW i \in Id, call[c].id = i,
         Current(c) => /\ entry[i].phase # "reserved"
                       /\ Loose(log, chain', call, i, call[c].tag),
         SetPool(IF Current(c) THEN Remove(Pool, i) ELSE Pool), Finish(c),
         UNCHANGED <<log, states, live, calls, known, served>>, failures' \in 0..MaxFailures
  PROVE  IInv'
<1> DEFINE q == Discarded(c)
<1>1. call' = Ended(call, c) /\ SetPool(q)
  BY Parts DEF Finish, Ended, Discarded
<1> HIDE DEF q
<1>2. /\ PoolOK(q) /\ Bounded(q.entry) /\ Good(log, chain', q.entry, states, live, call)
      /\ q = [entry |-> q.entry, recency |-> q.recency] /\ NoPin(q.entry, call[c])
  BY DiscardKeeps DEF q
<1>3. Pool' = q /\ entry' = q.entry
  BY <1>1, <1>2 DEF SetPool, Pool
<1>4. Good(log, chain', q.entry, states, live, call')
  BY <1>1, <1>2, EndKeeps
<1> QED BY <1>2, <1>3, <1>4 DEF IInv

\* A caller takes back its operation, which has not started.
LEMMA QueuedFacts ==
  ASSUME IInv, NEW c \in Client, Queued(c), call[c].step # "holding"
  PROVE  /\ chain' = Unqueued(c) =>
              Good(log, chain', entry, states, live, call) /\ NoOps(chain', c)
         /\ call[c].step = "committing" /\ Current(c) =>
              /\ entry[call[c].id].phase \notin {"reserved", "ready"}
              /\ chain' = Unqueued(c) => Loose(log, chain', call, call[c].id, call[c].tag)
<1> DEFINE i == call[c].id
           k == Place(c)
           o == chain[i][k]
<1>1. i \in Id /\ chain[i] \in Seq(Operation) /\ Len(chain[i]) \in Nat
  BY Parts, FreeFacts
<1>2. k \in DOMAIN chain[i] /\ o \in Operation /\ o.client = c
  <2>1. PICK l \in 2..Len(chain[i]) : chain[i][l].client = c
    BY DEF Queued
  <2>2. l \in DOMAIN chain[i]
    BY <1>1, <2>1
  <2>3. k \in DOMAIN chain[i] /\ chain[i][k].client = c
    BY <2>1, <2>2 DEF Place
  <2> QED BY <1>1, <2>3
<1>3. OpInv(log, entry, live, call, i, o)
  BY <1>1, <1>2, Parts DEF Good, ChainInv
<1>4. call[c].step = "committing" =>
        /\ o.op = "commit" /\ o.tag = call[c].tag
        /\ Current(c) => entry[i].phase \notin {"reserved", "ready"}
  BY <1>2, <1>3, ActorsAssumption DEF OpInv, Operation, Current
<1>5. ASSUME chain' = Unqueued(c)
      PROVE  /\ Good(log, chain', entry, states, live, call) /\ NoOps(chain', c)
             /\ Fits(chain'[i], o)
  <2> DEFINE w == Seqs!RemoveAt(chain[i], k)
  <2>1. Drops(chain[i], k, w)
    BY <1>1, <1>2, DropFacts
  <2>2. chain' = Cleared(chain, i, w)
    BY <1>5 DEF Unqueued, Cleared
  <2> HIDE DEF w, o, k, i
  <2>3. o = chain[i][k] /\ c # "none"
    BY ActorsAssumption DEF o
  <2> QED BY <1>1, <1>2, <2>1, <2>2, <2>3, Parts, DropKeeps
<1>6. ASSUME call[c].step = "committing", chain' = Unqueued(c)
      PROVE  Loose(log, chain', call, i, call[c].tag)
  BY <1>4, <1>5, <1>6 DEF Fits, Clash, Loose
<1> QED BY <1>4, <1>5, <1>6

\* A caller gives up.
LEMMA AbortStep ==
  ASSUME IInv, NEW c \in Client, Abort(c)
  PROVE  IInv'
<1> DEFINE i == call[c].id
<1>1. /\ call[c] \in Call /\ i \in Id /\ CallOK(log, entry, call[c]) /\ Finish(c)
      /\ UNCHANGED <<log, states, live, calls, failures, known, served>>
      /\ call[c].step \notin {"committing", "checking", "appending", "writing"} => NoOps(chain, c)
      /\ failures' \in 0..MaxFailures
  BY Parts, FreeFacts DEF Abort, IInv
<1>2. CASE /\ call[c].step \in {"top", "loading", "loaded", "settling"}
           /\ SetPool(Unpin(Pool, c)) /\ UNCHANGED chain
  <2>1. NoOps(chain', c) /\ Good(log, chain', entry, states, live, call)
    BY <1>1, <1>2, Parts
  <2> QED BY <1>1, <1>2, <2>1, GiveUp
<1>3. CASE /\ call[c].step = "checking" /\ Queued(c)
           /\ SetPool(Unpin(Pool, c)) /\ chain' = Unqueued(c)
  <2>1. Good(log, chain', entry, states, live, call) /\ NoOps(chain', c)
    BY <1>3, QueuedFacts
  <2> QED BY <1>1, <1>3, <2>1, GiveUp
<1>4. CASE /\ call[c].step = "committing" /\ Queued(c)
           /\ SetPool(IF Current(c) THEN Remove(Pool, i) ELSE Pool)
           /\ chain' = Unqueued(c)
  <2>1. /\ Good(log, chain', entry, states, live, call) /\ NoOps(chain', c)
        /\ Current(c) => /\ entry[i].phase # "reserved"
                         /\ Loose(log, chain', call, i, call[c].tag)
    BY <1>4, QueuedFacts
  <2>2. call[c].id = i
    OBVIOUS
  <2> HIDE DEF i
  <2> QED BY <1>1, <1>4, <2>1, <2>2, GiveUpEntry
<1>5. CASE /\ call[c].step = "loaded" /\ SetPool(Unpin(Touched(c), c)) /\ UNCHANGED chain
  <2> DEFINE q == Touched(c)
             r == Unpin(q, c)
  <2>1. /\ PoolOK(q) /\ Bounded(q.entry) /\ Good(log, chain, q.entry, states, live, call)
    BY <1>1, TouchedFacts
  <2>2. call' = Ended(call, c) /\ NoOps(chain, c) /\ call[c].step # "holding"
    BY <1>1, <1>5, Parts DEF Finish, Ended
  <2> HIDE DEF q, r
  <2>3. /\ PoolOK(r) /\ Bounded(r.entry) /\ Good(log, chain, r.entry, states, live, call')
        /\ r = [entry |-> r.entry, recency |-> r.recency]
    BY <2>1, <2>2, UnpinKeeps DEF r
  <2>4. Pool' = r /\ entry' = r.entry
    BY <1>5, <2>3 DEF SetPool, Pool, q, r
  <2> QED BY <1>1, <1>5, <2>3, <2>4, Parts DEF IInv
<1>6. CASE /\ call[c].step \in {"loaded", "settling"} /\ Current(c)
           /\ entry[i].phase = "ready" /\ SetPool(Remove(Pool, i)) /\ UNCHANGED chain
  <2>1. /\ Good(log, chain', entry, states, live, call) /\ NoOps(chain', c)
        /\ entry[i].phase # "reserved" /\ call[c].tag = entry[i].tag
    BY <1>1, <1>6, Parts DEF Current
  <2>2. Loose(log, chain', call, i, call[c].tag)
    BY <1>1, <1>6, <2>1, Unclaimed
  <2>3. SetPool(IF Current(c) THEN Remove(Pool, i) ELSE Pool) /\ call[c].id = i
    BY <1>6
  <2> HIDE DEF i
  <2> QED BY <1>1, <1>6, <2>1, <2>2, <2>3, GiveUpEntry
<1> QED BY <1>2, <1>3, <1>4, <1>5, <1>6 DEF Abort

\* A write fails, and breaks the session or leaves its retirement stuck.
LEMMA StrandKeeps ==
  ASSUME NEW Q, Good(log, Q, entry, states, live, call), NEW i \in Id, NEW op,
         Strand(i, op), NoneOf(Q, i, "init"), NoneOf(Q, i, "write"),
         live[i].phase \in {"live", "draining"}, live[i].saved < live[i].next
  PROVE  Good(log, Q, entry, states, live', call)
<1> DEFINE v == [live[i] EXCEPT !.phase = "stuck"]
           w == [live[i] EXCEPT !.phase = "broken"]
<1>1. /\ live \in [Id -> Live \cup {NoLive}] /\ states \in [Id -> State \cup {NoState}]
      /\ states[i].owner = "live" /\ entry[i] = NoEntry
      /\ \A k \in DOMAIN Q[i] : OpInv(log, entry, live, call, i, Q[i][k])
  BY DEF Good, Types, EntryInv, ChainInv
<1>2. live[i] \in Live /\ live[i].saved \in Nat /\ live[i].next \in Nat
  BY <1>1 DEF Live, NoLive
<1>3. NoneOf(Q, i, "detach")
  BY <1>1, <1>2 DEF NoneOf, OpInv
<1>4. \/ live' = live \/ live' = [live EXCEPT ![i] = v] \/ live' = [live EXCEPT ![i] = w]
  BY <1>1 DEF Strand
<1>5. /\ v \in Live /\ v.phase = "stuck" /\ w \in Live /\ w.phase = "broken"
  BY <1>2 DEF Live
<1> HIDE DEF v, w
<1>6. LiveFits(Q, entry, i, v, states[i]) /\ LiveFits(Q, entry, i, w, states[i])
  BY <1>1, <1>3, <1>5 DEF LiveFits, NoEntry
<1>7. states = [states EXCEPT ![i] = states[i]]
  BY <1>1
<1> QED BY <1>4, <1>6, <1>7, LiveKeeps

\* A load fails, and all that wait for it with it.
LEMMA LoadFails ==
  ASSUME IInv, NEW i \in Id, chain[i] # <<>>, Dequeue(i), Head1(i).op = "load",
         SetPool(IF entry[i].tag = Head1(i).tag THEN Remove(Pool, i) ELSE Pool),
         call' = [c \in Client |->
           IF c \in Waiters(i, Head1(i).tag) THEN NoCall(i) ELSE call[c]],
         UNCHANGED <<log, states, live, calls, known, served>>, failures' \in 0..MaxFailures
  PROVE  IInv'
<1> DEFINE tag == Head1(i).tag
           q == IF entry[i].tag = Head1(i).tag THEN Remove(Pool, i) ELSE Pool
           D == call'
<1>1. /\ Good(log, chain', entry, states, live, call) /\ tag # 0
      /\ entry[i].tag = tag => entry[i].phase = "loading"
  BY HeadFacts DEF OpInv
<1>2. /\ PoolOK(q) /\ Bounded(q.entry) /\ Good(log, chain', q.entry, states, live, call)
      /\ q = [entry |-> q.entry, recency |-> q.recency]
      /\ q.entry[i] # NoEntry => q.entry[i].tag # tag
  <2>1. PoolOK(Pool) /\ Bounded(Pool.entry) /\ Pool.entry = entry
    BY Parts
  <2>2. CASE entry[i].tag # tag
    <3>1. q = Pool /\ Pool = [entry |-> Pool.entry, recency |-> Pool.recency]
      BY <2>2 DEF Pool
    <3> QED BY <1>1, <2>1, <2>2, <3>1
  <2>3. CASE entry[i].tag = tag
    <3>1. q = Remove(Pool, i)
      BY <2>3
    <3> HIDE DEF q
    <3>2. /\ PoolOK(q) /\ Bounded(q.entry) /\ q.entry = [entry EXCEPT ![i] = NoEntry]
          /\ q = [entry |-> q.entry, recency |-> q.recency]
      BY <3>1, PoolRemoved
    <3>3. /\ q.entry[i] = NoEntry /\ \A j \in Id \ {i} : q.entry[j] = entry[j]
          /\ q.entry \in [Id -> PoolEntry \cup {NoEntry}]
      BY <3>2, Parts
    <3>4. Loose(log, chain', call, i, entry[i].tag)
      BY <1>1, <2>3, Unclaimed
    <3>5. Shrinks(log, chain', call, entry, q.entry)
      BY <1>1, <2>3, <3>3, <3>4 DEF Shrinks
    <3> QED BY <1>1, <3>2, <3>3, <3>5, ShrinkKeeps
  <2> QED BY <2>2, <2>3
<1> HIDE DEF q
<1>3. Pool' = q /\ entry' = q.entry
  BY <1>2 DEF SetPool, Pool, q
<1>4. NoCall(i) \in Call /\ CallOK(log, q.entry, NoCall(i)) /\ NoCall(i).step = "idle"
      /\ NoCall(i).pinned = "no"
  BY <1>2, NoCallFacts
<1>5. ASSUME NEW c \in Client
      PROVE  /\ D[c] \in Call
             /\ D[c] # call[c] => CanGo(log, chain', q.entry, c, call[c], D[c])
  <2>1. D[c] = IF c \in Waiters(i, tag) THEN NoCall(i) ELSE call[c]
    OBVIOUS
  <2>2. CASE c \notin Waiters(i, tag)
    BY <2>1, <2>2, Parts
  <2>3. CASE c \in Waiters(i, tag)
    <3>1. call[c].id = i /\ call[c].step = "loading" /\ call[c].tag = tag
      BY <2>3 DEF Waiters
    <3>2. NoOps(chain', c)
      BY <1>1, <3>1, FreeFacts
    <3>3. SamePins(q.entry, call[c], NoCall(i))
      BY <1>2, <1>4, <3>1 DEF SamePins, Pins
    <3> QED BY <1>4, <2>1, <2>3, <3>1, <3>2, <3>3 DEF CanGo
  <2> QED BY <2>2, <2>3
<1>6. Good(log, chain', q.entry, states, live, D)
  <2>1. D \in [Client -> Call]
    BY <1>5
  <2>2. \A c \in Client : D[c] # call[c] => CanGo(log, chain', q.entry, c, call[c], D[c])
    BY <1>5
  <2> HIDE DEF D
  <2> QED BY <1>2, <2>1, <2>2, CallsKeep
<1> QED BY <1>2, <1>3, <1>6 DEF IInv

\* Any operation but a detach may fail.
LEMMA OperationFailsStep ==
  ASSUME IInv, NEW i \in Id, OperationFails(i)
  PROVE  IInv'
<1> DEFINE o == Head1(i)
           c == o.client
<1>1. /\ chain[i] # <<>> /\ Dequeue(i) /\ UNCHANGED <<log, states, calls, known, served>>
      /\ failures' \in 0..MaxFailures
  <2>1. /\ failures \in 0..MaxFailures /\ MaxFailures \in Nat /\ failures < MaxFailures
        /\ failures' = failures + 1
    BY BoundsAssumption DEF IInv, OperationFails
  <2>2. failures' \in 0..MaxFailures
    BY <2>1
  <2> QED BY <2>2 DEF OperationFails
<1>2. /\ Good(log, chain', entry, states, live, call) /\ Fits(chain'[i], o)
      /\ o \in Operation /\ OpInv(log, entry, live, call, i, o)
      /\ c # "none" => NoOps(chain', c)
  BY <1>1, HeadFacts
<1>3. CASE o.op = "load"
  <2>1. /\ SetPool(IF entry[i].tag = o.tag THEN Remove(Pool, i) ELSE Pool)
        /\ call' = [d \in Client |->
             IF d \in Waiters(i, o.tag) THEN NoCall(i) ELSE call[d]]
        /\ UNCHANGED live
    BY <1>3 DEF OperationFails
  <2> QED BY <1>1, <1>3, <2>1, LoadFails
<1>4. ASSUME o.op \in {"commit", "check", "append"}
      PROVE  c \in Client /\ call[c].id = i /\ NoOps(chain', c)
  BY <1>2, <1>4, ActorsAssumption DEF OpInv
<1>5. CASE o.op = "commit"
  <2>1. /\ SetPool(IF Current(c) THEN Remove(Pool, i) ELSE Pool) /\ Finish(c)
        /\ UNCHANGED live
    BY <1>5 DEF OperationFails
  <2>2. /\ call[c].step = "committing"
        /\ Current(c) => /\ entry[i].phase # "reserved"
                         /\ Loose(log, chain', call, i, call[c].tag)
    BY <1>2, <1>5 DEF OpInv, Fits, Clash, Loose, Current
  <2>3. c \in Client /\ call[c].id = i /\ NoOps(chain', c)
    BY <1>4, <1>5
  <2> HIDE DEF c
  <2> QED BY <1>1, <1>2, <2>1, <2>2, <2>3, GiveUpEntry
<1>6. CASE o.op = "check"
  <2>1. SetPool(Unpin(Pool, c)) /\ Finish(c) /\ UNCHANGED live
    BY <1>6 DEF OperationFails
  <2>2. call[c].step # "holding"
    BY <1>2, <1>6 DEF OpInv
  <2>3. c \in Client /\ NoOps(chain', c)
    BY <1>4, <1>6
  <2> HIDE DEF c
  <2> QED BY <1>1, <1>2, <2>1, <2>2, <2>3, GiveUp
<1>7. CASE o.op = "append"
  <2>1. Finish(c) /\ UNCHANGED <<entry, recency, live>>
    BY <1>7 DEF OperationFails
  <2>2. call[c].step = "writing"
    BY <1>7 DEF OperationFails
  <2>3. c \in Client /\ NoOps(chain', c)
    BY <1>4, <1>7
  <2> HIDE DEF c
  <2>4. NoPin(entry, call[c])
    <3>1. call[c] \in Call /\ CallOK(log, entry, call[c])
      BY <1>2, <2>3, FreeFacts
    <3> QED BY <2>2, <3>1 DEF NoPin, CallOK, Call
  <2>5. call' = Ended(call, c)
    BY <2>1, Parts DEF Finish, Ended
  <2>6. Good(log, chain', entry, states, live, call')
    BY <1>2, <2>2, <2>3, <2>4, <2>5, EndKeeps
  <2> QED BY <1>1, <2>1, <2>6, Parts DEF IInv, Pool
<1>8. CASE o.op \in {"init", "write"}
  <2>1. Strand(i, o.op) /\ UNCHANGED <<entry, recency, call>>
    BY <1>8 DEF OperationFails
  <2>2. /\ live[i].phase \in {"live", "draining"} /\ live[i].saved < live[i].next
        /\ NoneOf(chain', i, "init") /\ NoneOf(chain', i, "write")
    BY <1>2, <1>8 DEF OpInv, Fits, Clash, NoneOf
  <2>3. Good(log, chain', entry, states, live', call)
    BY <1>2, <2>1, <2>2, StrandKeeps
  <2> QED BY <1>1, <2>1, <2>3, Parts DEF IInv, Pool
<1>9. o.op \in {"load", "commit", "check", "append", "init", "write"}
  BY <1>2 DEF OperationFails, Operation
<1> QED BY <1>3, <1>5, <1>6, <1>7, <1>8, <1>9

\* An append goes from waiting for its turn to writing.
LEMMA WritingKeeps ==
  ASSUME NEW L, NEW Q, NEW E, NEW S, NEW V, NEW C, Good(L, Q, E, S, V, C),
         NEW c \in Client, C[c].step = "appending",
         NEW D, D = [C EXCEPT ![c].step = "writing"]
  PROVE  Good(L, Q, E, S, V, D)
<1> DEFINE v == [C[c] EXCEPT !.step = "writing"]
<1>1. /\ Types(L, Q, E, S, V, C) /\ ChainInv(L, Q, E, V, C) /\ PinsInv(E, C)
      /\ ReservedInv(L, E, S, V, C) /\ \A d \in Client : CallOK(L, E, C[d])
      /\ C \in [Client -> Call] /\ C[c] \in Call
  BY DEF Good, Types
<1>2. /\ v \in Call /\ v.step = "writing" /\ v.id = C[c].id /\ v.tag = C[c].tag
      /\ v.source = C[c].source /\ v.pinned = C[c].pinned /\ v.kind = C[c].kind
  BY <1>1 DEF Call
<1>3. D[c] = v /\ D \in [Client -> Call] /\ \A d \in Client \ {c} : D[d] = C[d]
  BY <1>1, <1>2
<1> HIDE DEF v
<1>4. C[c].pinned = "no"
  BY <1>1 DEF CallOK, Call
<1>5. ChainInv(L, Q, E, V, D)
  <2>1. ASSUME NEW i \in Id, NEW k \in DOMAIN Q[i]
        PROVE  OpInv(L, E, V, D, i, Q[i][k])
    <3>1. OpInv(L, E, V, C, i, Q[i][k])
      BY <1>1 DEF ChainInv
    <3> DEFINE o == Q[i][k]
    <3> HIDE DEF o
    <3>2. OpInv(L, E, V, D, i, o)
      <4>1. CASE o.client = c
        BY <1>2, <1>3, <3>1, <4>1 DEF OpInv, o
      <4>2. CASE o.client # c
        BY <1>3, <3>1, <4>2 DEF OpInv, o
      <4> QED BY <4>1, <4>2
    <3> QED BY <3>2 DEF o
  <2> QED BY <1>1, <2>1 DEF ChainInv
<1>6. PinsInv(E, D)
  <2> SUFFICES ASSUME NEW i \in Id, E[i] # NoEntry
               PROVE  Pinned(E, D, i) = Pinned(E, C, i)
    BY <1>1 DEF PinsInv
  <2> QED BY <1>2, <1>3, <1>4 DEF Pinned, Pins
<1>7. ReservedInv(L, E, S, V, D)
  <2>1. ASSUME NEW i \in Id
        PROVE  /\ HoldersOf(D, i) = HoldersOf(C, i)
               /\ \A d \in HoldersOf(D, i) : D[d] = C[d]
    BY <1>2, <1>3 DEF HoldersOf
  <2>2. ASSUME NEW i \in Id PROVE ReservedAt(L, E, S, V, D, i)
    <3>1. ReservedAt(L, E, S, V, C, i)
      BY <1>1 DEF ReservedInv
    <3> QED BY <2>1, <3>1 DEF ReservedAt
  <2> QED BY <2>2 DEF ReservedInv
<1>8. \A d \in Client : CallOK(L, E, D[d])
  BY <1>1, <1>2, <1>3, <1>4 DEF CallOK, Loaded
<1> QED BY <1>1, <1>3, <1>5, <1>6, <1>7, <1>8 DEF Good, Types

\* The client of a running append.
LEMMA AppenderFacts ==
  ASSUME IInv, NEW i \in Id, Runs(i, "append"), NEW c, c = Head1(i).client
  PROVE  /\ c \in Client /\ call[c].id = i /\ call[c].step \in {"appending", "writing"}
         /\ NoPin(entry, call[c])
         /\ Dequeue(i) => /\ Good(log, chain', entry, states, live, call)
                          /\ NoOps(chain', c)
<1>1. chain[i] \in Seq(Operation) /\ chain[i] # <<>> /\ Head1(i).op = "append"
  BY Parts DEF Runs
<1>2. OpInv(log, entry, live, call, i, Head1(i))
  <2>1. 1 \in DOMAIN chain[i] /\ Head1(i) = chain[i][1]
    BY <1>1, DropFacts DEF Head1
  <2> QED BY <2>1, Parts DEF Good, ChainInv
<1>3. /\ c \in Client /\ call[c].id = i /\ call[c].step \in {"appending", "writing"}
  BY <1>1, <1>2 DEF OpInv
<1>4. NoPin(entry, call[c])
  <2>1. call[c] \in Call /\ CallOK(log, entry, call[c])
    BY <1>3, Parts, FreeFacts
  <2> QED BY <1>3, <2>1 DEF NoPin, CallOK, Call
<1>5. ASSUME Dequeue(i)
      PROVE  Good(log, chain', entry, states, live, call) /\ NoOps(chain', c)
  BY <1>1, <1>3, <1>5, HeadFacts, ActorsAssumption
<1> QED BY <1>3, <1>4, <1>5

\* An append is refused, or starts to write, and takes the ready entry of an
\* unknown id.
LEMMA AppendStartsStep ==
  ASSUME IInv, NEW i \in Id, AppendStarts(i)
  PROVE  IInv'
<1> DEFINE c == Head1(i).client
           q == TakeReady(i)
<1>1. /\ c \in Client /\ call[c].id = i /\ call[c].step = "appending"
      /\ NoPin(entry, call[c])
      /\ Dequeue(i) => Good(log, chain', entry, states, live, call) /\ NoOps(chain', c)
      /\ UNCHANGED <<log, states, live, calls, failures, known, served>>
  BY AppenderFacts DEF AppendStarts
<1>2. PoolOK(Pool) /\ Bounded(Pool.entry) /\ Pool.entry = entry
  BY Parts
<1> HIDE DEF c
<1>3. CASE Dequeue(i) /\ Finish(c) /\ UNCHANGED <<entry, recency>>
  <2>1. call' = Ended(call, c)
    BY <1>3, Parts DEF Finish, Ended
  <2>2. Good(log, chain', entry, states, live, call')
    BY <1>1, <1>3, <2>1, EndKeeps
  <2> QED BY <1>1, <1>3, <2>2, Parts DEF IInv, Pool
<1>4. CASE /\ SetPool(q) /\ UNCHANGED chain
           /\ call' = [call EXCEPT ![c].step = "writing"]
  <2>1. /\ PoolOK(q) /\ Bounded(q.entry) /\ Good(log, chain, q.entry, states, live, call)
        /\ q = [entry |-> q.entry, recency |-> q.recency]
    <3>1. CASE q = Pool
      BY <1>2, <3>1, Parts DEF Pool
    <3>2. CASE q = Remove(Pool, i) /\ entry[i].phase = "ready"
      <4> HIDE DEF q
      <4>1. /\ PoolOK(q) /\ Bounded(q.entry) /\ q.entry = [Pool.entry EXCEPT ![i] = NoEntry]
            /\ q = [entry |-> q.entry, recency |-> q.recency]
        BY <1>2, <3>2, RemoveFacts
      <4>2. /\ q.entry[i] = NoEntry /\ \A j \in Id \ {i} : q.entry[j] = entry[j]
            /\ q.entry \in [Id -> PoolEntry \cup {NoEntry}]
        BY <1>2, <4>1, Parts
      <4>3. Loose(log, chain, call, i, entry[i].tag)
        BY <3>2, Parts, Unclaimed
      <4>4. Shrinks(log, chain, call, entry, q.entry)
        BY <3>2, <4>2, <4>3 DEF Shrinks
      <4> QED BY <4>1, <4>4, Parts, ShrinkKeeps
    <3> QED BY <3>1, <3>2 DEF TakeReady
  <2> HIDE DEF q
  <2>2. Pool' = q /\ entry' = q.entry
    BY <1>4, <2>1 DEF SetPool, Pool
  <2>3. Good(log, chain, q.entry, states, live, call')
    BY <1>1, <1>4, <2>1, WritingKeeps
  <2> QED BY <1>1, <1>4, <2>1, <2>2, <2>3, Parts DEF IInv
<1> QED BY <1>3, <1>4 DEF AppendStarts, c, q

\* What an append is to write after, and what it leaves an adopted session with.
LEMMA AdoptedFacts ==
  ASSUME IInv, NEW i \in Id
  PROVE  /\ Adopted(i) \in Log /\ Adopted(i).len \in Nat
         /\ Adopted(i).len > log[i].len \/ Adopted(i) = log[i]
         /\ log[i] \in Log /\ log[i].len \in Nat
         /\ states[i] # NoState => /\ Adopted(i) = log[i] /\ states[i].cursor \in Nat
                                   /\ states[i].owner \in {"none", "live"}
         /\ live[i].phase # "none" => states[i].owner = "live"
<1>4. /\ log[i] \in Log /\ log[i].len \in Nat /\ log[i].turn \in {"open", "closed"}
      /\ log[i] = [len |-> log[i].len, turn |-> log[i].turn]
      /\ states[i] \in State \cup {NoState}
  BY Parts DEF Log
<1>1. live[i].phase # "none" => states[i].owner = "live"
  BY Parts DEF Good, EntryInv
<1>2. CASE states[i] # NoState
  <2>1. Adopted(i) = log[i] /\ states[i] \in State
    BY <1>4, <1>2 DEF Adopted
  <2> QED BY <1>1, <1>4, <1>2, <2>1 DEF State
<1>3. CASE states[i] = NoState
  <2> DEFINE n == log[i].len + (IF log[i].turn = "open" THEN 1 ELSE 0)
  <2>1. Adopted(i) = [len |-> n, turn |-> "closed"]
    BY <1>3 DEF Adopted
  <2>2. n \in Nat /\ (n > log[i].len \/ (n = log[i].len /\ log[i].turn = "closed"))
    BY <1>4
  <2> HIDE DEF n
  <2>3. /\ [len |-> n, turn |-> "closed"] \in Log
        /\ [len |-> n, turn |-> "closed"].len = n
    BY <2>2 DEF Log
  <2> QED BY <1>1, <1>3, <1>4, <2>1, <2>2, <2>3
<1> QED BY <1>2, <1>3

\* An append that started adopts its session, or writes: first the log grows,
\* then the cursor moves, then the entry goes.
LEMMA AppendDoneStep ==
  ASSUME IInv, NEW i \in Id, AppendDone(i), entry[i].phase # "reserved"
  PROVE  IInv'
<1> DEFINE c == Head1(i).client
           cursor == IF states[i] = NoState THEN Adopted(i).len ELSE states[i].cursor
           owner == IF states[i] = NoState THEN "none" ELSE states[i].owner
           q == Remove(Pool, i)
<1>1. /\ c \in Client /\ call[c].id = i /\ call[c].step = "writing"
      /\ Good(log, chain', entry, states, live, call) /\ NoOps(chain', c)
      /\ NoPin(entry, call[c])
  BY AppenderFacts DEF AppendDone
<1>3. UNCHANGED <<live, calls, failures, served>> /\ Finish(c)
  BY DEF AppendDone
<1> HIDE DEF c
<1>5. Good(log, chain', entry, states, live, call')
  <2>2. call' = Ended(call, c)
    BY <1>3, Parts DEF Finish, Ended
  <2> QED BY <1>1, <2>2, EndKeeps
<1>9. /\ Adopted(i) \in Log /\ Adopted(i).len \in Nat
      /\ Adopted(i).len > log[i].len \/ Adopted(i) = log[i]
      /\ cursor \in Nat /\ owner \in {"none", "live"}
      /\ live[i].phase # "none" => owner = "live"
      /\ log[i].len \in Nat
  <2>1. CASE states[i] = NoState
    BY <2>1, AdoptedFacts DEF NoState
  <2>2. CASE states[i] # NoState
    BY <2>2, AdoptedFacts
  <2> QED BY <2>1, <2>2
<1> HIDE DEF cursor, owner
<1>10. ASSUME NEW l \in Log, l.len > log[i].len \/ l = log[i], NEW n \in Nat,
              log' = [log EXCEPT ![i] = l],
              states' = [states EXCEPT ![i] = [cursor |-> n, owner |-> owner]]
       PROVE  Good(log', chain', entry, states', live, call')
  <2> DEFINE s == [cursor |-> n, owner |-> owner]
  <2>1. s \in State /\ s.owner = owner
    BY <1>9 DEF State
  <2>2. states' = [states EXCEPT ![i] = s] /\ log' = [log EXCEPT ![i] = l]
    BY <1>10
  <2> HIDE DEF s
  <2>3. Good(log', chain', entry, states, live, call')
    BY <1>5, <1>10, LogKeeps
  <2>4. s \in State \cup {NoState} /\ (live[i].phase # "none" => s.owner = "live")
    BY <1>9, <2>1
  <2> QED BY <2>2, <2>3, <2>4, StateKeeps
<1>11. CASE /\ log' = [log EXCEPT ![i] = Adopted(i)]
            /\ known' = IF states[i] = NoState
                        THEN [known EXCEPT ![i] = Adopted(i).len] ELSE known
            /\ states' = [states EXCEPT ![i] = [cursor |-> cursor, owner |-> owner]]
            /\ UNCHANGED <<entry, recency>>
  <2>1. Good(log', chain', entry, states', live, call')
    BY <1>9, <1>10, <1>11
  <2>2. known' \in [Id -> Nat]
    BY <1>9, <1>11, Parts
  <2> QED BY <1>3, <1>11, <2>1, <2>2, Parts DEF IInv, Pool
<1>12. CASE /\ \E turn \in {"open", "closed"} :
                 log' = [log EXCEPT ![i] = [len |-> Adopted(i).len + 1, turn |-> turn]]
            /\ known' = [known EXCEPT ![i] = Adopted(i).len + 1]
            /\ states' = [states EXCEPT ![i] = [cursor |-> cursor + 1, owner |-> owner]]
            /\ SetPool(q)
  <2>1. PICK turn \in {"open", "closed"} :
          log' = [log EXCEPT ![i] = [len |-> Adopted(i).len + 1, turn |-> turn]]
    BY <1>12
  <2> DEFINE l == [len |-> Adopted(i).len + 1, turn |-> turn]
             n == cursor + 1
  <2>2. l \in Log /\ l.len > log[i].len /\ n \in Nat /\ Adopted(i).len + 1 \in Nat
    BY <1>9 DEF Log
  <2>3. /\ log' = [log EXCEPT ![i] = l]
        /\ states' = [states EXCEPT ![i] = [cursor |-> n, owner |-> owner]]
    BY <1>12, <2>1
  <2> HIDE DEF l, n
  <2>4. Good(log', chain', entry, states', live, call')
    BY <1>10, <2>2, <2>3
  <2>5. /\ PoolOK(q) /\ Bounded(q.entry) /\ q = [entry |-> q.entry, recency |-> q.recency]
        /\ q.entry = [entry EXCEPT ![i] = NoEntry]
    <3>1. PoolOK(Pool) /\ Bounded(Pool.entry) /\ Pool.entry = entry
      BY Parts
    <3> HIDE DEF q
    <3>2. /\ PoolOK(q) /\ Bounded(q.entry) /\ q = [entry |-> q.entry, recency |-> q.recency]
          /\ q.entry = [Pool.entry EXCEPT ![i] = NoEntry]
      BY <3>1, RemoveFacts DEF q
    <3> QED BY <3>1, <3>2
  <2> HIDE DEF q
  <2>6. Loose(log', chain', call', i, entry[i].tag)
    <3>1. log'[i].len > log[i].len /\ log'[i].len \in Nat /\ log[i].len \in Nat
      BY <1>9, <2>2, <2>3, Parts DEF Log
    <3>2. ASSUME NEW k \in DOMAIN chain'[i], chain'[i][k].op = "commit"
          PROVE  call'[chain'[i][k].client].source.len < log'[i].len
      <4> DEFINE d == chain'[i][k].client
      <4>1. OpInv(log, entry, live, call', i, chain'[i][k])
        BY <1>5 DEF Good, ChainInv
      <4>2. d \in Client /\ call'[d].id = i
        BY <3>2, <4>1 DEF OpInv
      <4>3. call'[d].source \in Log /\ call'[d].source.len <= log[i].len
        BY <1>5, <4>2 DEF Good, Types, Call, CallOK, Old
      <4>4. call'[d].source.len \in Nat
        BY <4>3 DEF Log
      <4> QED BY <3>1, <4>3, <4>4
    <3> QED BY <3>2 DEF Loose
  <2>7. /\ q.entry[i] = NoEntry /\ \A j \in Id \ {i} : q.entry[j] = entry[j]
        /\ q.entry \in [Id -> PoolEntry \cup {NoEntry}]
    BY <2>5, Parts
  <2>8. Shrinks(log', chain', call', entry, q.entry)
    BY <2>6, <2>7 DEF Shrinks
  <2>9. Good(log', chain', q.entry, states', live, call')
    BY <2>4, <2>8, ShrinkKeeps
  <2>10. Pool' = q /\ entry' = q.entry
    BY <1>12, <2>5 DEF SetPool, Pool
  <2>11. known' \in [Id -> Nat]
    BY <1>12, <2>2, Parts
  <2> QED BY <1>3, <2>5, <2>9, <2>10, <2>11, Parts DEF IInv
<1>13. \/ /\ log' = [log EXCEPT ![i] = Adopted(i)]
          /\ known' = IF states[i] = NoState
                      THEN [known EXCEPT ![i] = Adopted(i).len] ELSE known
          /\ states' = [states EXCEPT ![i] = [cursor |-> cursor, owner |-> owner]]
          /\ UNCHANGED <<entry, recency>>
       \/ /\ \E turn \in {"open", "closed"} :
               log' = [log EXCEPT ![i] = [len |-> Adopted(i).len + 1, turn |-> turn]]
          /\ known' = [known EXCEPT ![i] = Adopted(i).len + 1]
          /\ states' = [states EXCEPT ![i] = [cursor |-> cursor + 1, owner |-> owner]]
          /\ SetPool(q)
  BY DEF AppendDone, Invalidate, cursor, owner, q
<1> QED BY <1>11, <1>12, <1>13

\* What a live session is for the invariant.
LEMMA LiveFacts ==
  ASSUME IInv, NEW i \in Id
  PROVE  /\ live[i].phase \in {"live", "broken", "draining"} =>
              /\ live[i] \in Live /\ live[i].next \in Nat /\ live[i].saved \in Nat
              /\ entry[i] = NoEntry /\ entry[i].phase # "reserved"
         /\ live[i].phase # "none" =>
              states[i] \in State /\ states[i].owner = "live" /\ states[i].cursor \in Nat
         /\ \A k \in DOMAIN chain[i] : OpInv(log, entry, live, call, i, chain[i][k])
         /\ states = [states EXCEPT ![i] = states[i]]
<1>1. /\ live[i] \in Live \cup {NoLive} /\ states[i] \in State \cup {NoState}
      /\ states = [states EXCEPT ![i] = states[i]]
      /\ EntryInv(log, entry, states, live) /\ ChainInv(log, chain, entry, live, call)
  BY Parts DEF Good
<1>2. live[i].phase \in {"live", "broken", "draining"} =>
        /\ live[i] \in Live /\ live[i].next \in Nat /\ live[i].saved \in Nat
        /\ entry[i] = NoEntry /\ entry[i].phase # "reserved"
  BY <1>1 DEF EntryInv, Live, NoLive, NoEntry
<1>3. live[i].phase # "none" =>
        states[i] \in State /\ states[i].owner = "live" /\ states[i].cursor \in Nat
  BY <1>1 DEF EntryInv, NoState, State
<1> QED BY <1>1, <1>2, <1>3 DEF ChainInv

\* A live session grows, or retires; nothing of a broken one is queued.
LEMMA LiveStep ==
  ASSUME IInv, NEW i \in Id, LiveAppend(i) \/ Retire(i)
  PROVE  IInv'
<1> DEFINE v == live'[i]
<1>1. /\ live[i].phase \in {"live", "broken"} /\ live[i] \in Live
      /\ entry[i].phase # "reserved"
      /\ entry[i] = NoEntry /\ live[i].next \in Nat /\ live[i].saved \in Nat
      /\ states[i] \in State /\ states[i].owner = "live"
      /\ \A k \in DOMAIN chain[i] : OpInv(log, entry, live, call, i, chain[i][k])
      /\ states = [states EXCEPT ![i] = states[i]]
  BY LiveFacts DEF LiveAppend, Retire, Attached
<1>2. UNCHANGED <<log, chain, entry, recency, states, call, calls, failures, known, served>>
  BY DEF LiveAppend, Retire
<1>3. /\ live' = [live EXCEPT ![i] = v] /\ v \in Live
      /\ IF live[i].phase = "live" THEN v.phase \in {"live", "draining"} ELSE v.phase = "stuck"
      /\ v.saved = live[i].saved /\ v.next >= live[i].next
  <2>1. CASE LiveAppend(i)
    <3> DEFINE n == live[i].next + 1
               u == [live[i] EXCEPT !.next = n]
    <3>1. n \in Nat /\ n >= live[i].next
      BY <1>1
    <3>2. live' = [live EXCEPT ![i] = u] /\ live[i].phase = "live"
      BY <2>1, Parts DEF LiveAppend
    <3> HIDE DEF n
    <3>3. u \in Live /\ u.phase = "live" /\ u.saved = live[i].saved /\ u.next = n
      BY <1>1, <3>1, <3>2 DEF Live
    <3> QED BY <3>1, <3>2, <3>3, Parts
  <2>2. CASE Retire(i)
    <3> DEFINE p == IF live[i].phase = "broken" THEN "stuck" ELSE "draining"
               u == [live[i] EXCEPT !.phase = p]
    <3>1. live' = [live EXCEPT ![i] = u]
      BY <2>2, Parts DEF Retire
    <3>2. p \in {"stuck", "draining"}
      OBVIOUS
    <3>3. u \in Live /\ u.phase = p /\ u.saved = live[i].saved
          /\ u.next = live[i].next
      BY <1>1, <3>2 DEF Live
    <3> QED BY <1>1, <3>1, <3>3, Parts
  <2> QED BY <2>1, <2>2
<1> HIDE DEF v
<1>4. NoneOf(chain, i, "detach")
  BY <1>1 DEF NoneOf, OpInv
<1>5. \/ NoneOf(chain, i, "init") /\ NoneOf(chain, i, "write")
      \/ v.phase \in {"live", "draining"} /\ v.saved < v.next
  <2>1. v.next \in Nat
    BY <1>3 DEF Live
  <2>2. ASSUME NEW k \in DOMAIN chain[i], chain[i][k].op \in {"init", "write"}
        PROVE  live[i].saved < live[i].next /\ live[i].phase = "live"
    BY <1>1, <2>2 DEF OpInv
  <2>3. live[i].saved < live[i].next => v.saved < v.next
    BY <1>1, <1>3, <2>1
  <2> QED BY <1>3, <2>2, <2>3 DEF NoneOf
<1>6. LiveFits(chain, entry, i, v, states[i])
  BY <1>1, <1>3, <1>4, <1>5 DEF LiveFits
<1>7. Good(log, chain, entry, states, live', call)
  <2> DEFINE s == states[i]
  <2>1. /\ live' = [live EXCEPT ![i] = v] /\ states = [states EXCEPT ![i] = s]
        /\ LiveFits(chain, entry, i, v, s)
    BY <1>1, <1>3, <1>6
  <2>2. Good(log, chain, entry, states, live, call)
    BY Parts
  <2> HIDE DEF s
  <2> QED BY <2>1, <2>2, LiveKeeps
<1> QED BY <1>2, <1>7, Parts DEF IInv, Pool

\* The write-behind queues a write, or the detach of a session it drained.
LEMMA QueueStep ==
  ASSUME IInv, NEW i \in Id, Flush(i) \/ Detach(i)
  PROVE  IInv'
<1> DEFINE o == [op |-> "write", client |-> "none", tag |-> 0]
           p == [op |-> "detach", client |-> "none", tag |-> 0]
<1>1. UNCHANGED <<log, entry, recency, states, live, call, calls, failures, known, served>>
  BY DEF Flush, Detach
<1>2. o \in Operation /\ p \in Operation /\ o.op = "write" /\ p.op = "detach"
      /\ o.client = "none" /\ p.client = "none"
  BY DEF Operation
<1>3. CASE Flush(i)
  <2>1. chain' = [chain EXCEPT ![i] = Append(chain[i], o)]
    BY <1>3 DEF Flush, Enqueue
  <2>2. /\ live[i].phase \in {"live", "draining"} /\ live[i].saved < live[i].next
        /\ NoneOf(chain, i, "init") /\ NoneOf(chain, i, "write")
    BY <1>3 DEF Flush, Unwritten, NoneOf
  <2> HIDE DEF o
  <2>3. OpInv(log, entry, live, call, i, o) /\ Fits(chain[i], o)
    BY <1>2, <2>2 DEF OpInv, Fits, Clash, NoneOf
  <2>4. Good(log, chain', entry, states, live, call)
    BY <1>2, <2>1, <2>3, Parts, EnqueueKeeps
  <2> QED BY <1>1, <2>4, Parts DEF IInv, Pool
<1>4. CASE Detach(i)
  <2>1. chain' = [chain EXCEPT ![i] = Append(chain[i], p)]
    BY <1>4 DEF Detach, Enqueue
  <2>2. /\ live[i].phase = "draining" /\ live[i].saved = live[i].next
        /\ NoneOf(chain, i, "detach")
    BY <1>4 DEF Detach, NoneOf
  <2> HIDE DEF p
  <2>3. OpInv(log, entry, live, call, i, p) /\ Fits(chain[i], p)
    BY <1>2, <2>2 DEF OpInv, Fits, Clash, NoneOf
  <2>4. Good(log, chain', entry, states, live, call)
    BY <1>2, <2>1, <2>3, Parts, EnqueueKeeps
  <2> QED BY <1>1, <2>4, Parts DEF IInv, Pool
<1> QED BY <1>3, <1>4

\* A write reaches the log, finds that the cursor passed it, or is rejected.
LEMMA WriteDoneStep ==
  ASSUME IInv, NEW i \in Id, WriteDone(i)
  PROVE  IInv'
<1> DEFINE first == Runs(i, "init")
           last == IF first THEN live[i].saved + 1 ELSE live[i].next
           cursor == states[i].cursor
           n == log[i].len + (last - cursor)
           l == [len |-> n, turn |-> "closed"]
           v == [live[i] EXCEPT !.saved = last]
           s == [states[i] EXCEPT !.cursor = last]
           q == Remove(Pool, i)
<1>1. /\ Good(log, chain', entry, states, live, call) /\ Fits(chain'[i], Head1(i))
      /\ OpInv(log, entry, live, call, i, Head1(i)) /\ Head1(i).op \in {"init", "write"}
  BY HeadFacts DEF WriteDone, Runs
<1>2. /\ live[i].phase \in {"live", "draining"} /\ live[i].saved < live[i].next
      /\ NoneOf(chain', i, "init") /\ NoneOf(chain', i, "write")
  BY <1>1 DEF OpInv, Fits, Clash, NoneOf
<1>3. /\ live[i] \in Live /\ live[i].next \in Nat /\ live[i].saved \in Nat
      /\ entry[i] = NoEntry /\ entry[i].phase # "reserved" /\ cursor \in Nat
      /\ states[i] \in State /\ states[i].owner = "live"
      /\ states = [states EXCEPT ![i] = states[i]]
  BY <1>2, LiveFacts
<1>4. UNCHANGED <<call, calls, failures, served>>
  BY DEF WriteDone
<1>5. CASE Strand(i, "init") /\ UNCHANGED <<log, states, entry, recency, known>>
  <2>1. Good(log, chain', entry, states, live', call)
    BY <1>1, <1>2, <1>5, StrandKeeps
  <2> QED BY <1>4, <1>5, <2>1, Parts DEF IInv, Pool
<1>6. last \in Nat /\ (first => last = live[i].saved + 1)
  BY <1>3
<1>7. NoneOf(chain', i, "detach")
  <2>1. ASSUME NEW k \in DOMAIN chain'[i], chain'[i][k].op = "detach" PROVE FALSE
    <3>1. OpInv(log, entry, live, call, i, chain'[i][k])
      BY <1>1 DEF Good, ChainInv
    <3> QED BY <1>2, <1>3, <2>1, <3>1 DEF OpInv
  <2> QED BY <2>1 DEF NoneOf
<1>8. v \in Live /\ v.phase = live[i].phase /\ s \in State /\ s.owner = "live"
  BY <1>3, <1>6 DEF Live, State
<1>9. CASE /\ IF first THEN cursor = live[i].saved ELSE cursor < last
           /\ log' = [log EXCEPT ![i] = l] /\ known' = [known EXCEPT ![i] = n]
           /\ states' = [states EXCEPT ![i] = s]
           /\ live' = [live EXCEPT ![i] = v]
           /\ SetPool(q)
  <2>1. l \in Log /\ l.len > log[i].len /\ n \in Nat
    <3>1. log[i].len \in Nat
      BY Parts DEF Log
    <3>2. cursor < last
      BY <1>3, <1>6, <1>9
    <3> HIDE DEF first, last, cursor
    <3>3. n \in Nat /\ n > log[i].len
      BY <1>3, <1>6, <3>1, <3>2
    <3> HIDE DEF n
    <3> QED BY <3>3 DEF Log
  <2>4. /\ PoolOK(q) /\ Bounded(q.entry) /\ q = [entry |-> q.entry, recency |-> q.recency]
        /\ q.entry = entry
    <3>1. PoolOK(Pool) /\ Bounded(Pool.entry) /\ Pool.entry = entry
      BY Parts
    <3> HIDE DEF q
    <3>2. /\ PoolOK(q) /\ Bounded(q.entry) /\ q = [entry |-> q.entry, recency |-> q.recency]
          /\ q.entry = [Pool.entry EXCEPT ![i] = NoEntry]
      BY <3>1, RemoveFacts DEF q
    <3>3. [entry EXCEPT ![i] = NoEntry] = entry
      BY <1>3, Parts
    <3> QED BY <3>1, <3>2, <3>3
  <2> HIDE DEF first, last, cursor, n, l, v, s, q
  <2>5. Good(log', chain', entry, states, live, call)
    BY <1>1, <1>3, <1>9, <2>1, LogKeeps
  <2>6. LiveFits(chain', entry, i, v, s)
    BY <1>2, <1>3, <1>7, <1>8 DEF LiveFits
  <2>7. Good(log', chain', entry, states', live', call)
    BY <1>9, <2>5, <2>6, LiveKeeps
  <2>8. Pool' = q /\ entry' = q.entry
    BY <1>9, <2>4 DEF SetPool, Pool
  <2>9. known' \in [Id -> Nat]
    BY <1>9, <2>1, Parts
  <2> QED BY <1>4, <2>4, <2>7, <2>8, <2>9, Parts DEF IInv
<1>10. CASE live' = [live EXCEPT ![i] = v] /\ UNCHANGED <<log, states, entry, recency, known>>
  <2> DEFINE z == states[i]
  <2> HIDE DEF v
  <2>1. LiveFits(chain', entry, i, v, z) /\ states' = [states EXCEPT ![i] = z]
    BY <1>2, <1>3, <1>7, <1>8, <1>10 DEF LiveFits
  <2> HIDE DEF z
  <2>2. Good(log, chain', entry, states', live', call)
    BY <1>1, <1>10, <2>1, LiveKeeps
  <2> QED BY <1>4, <1>10, <2>2, Parts DEF IInv, Pool
<1>11. \/ Strand(i, "init") /\ UNCHANGED <<log, states, entry, recency, known>>
       \/ live' = [live EXCEPT ![i].saved = last]
          /\ UNCHANGED <<log, states, entry, recency, known>>
       \/ /\ IF first THEN cursor = live[i].saved ELSE cursor < last
          /\ log' = [log EXCEPT ![i] = [len |-> @.len + (last - cursor), turn |-> "closed"]]
          /\ known' = [known EXCEPT ![i] = n]
          /\ states' = [states EXCEPT ![i].cursor = last]
          /\ live' = [live EXCEPT ![i].saved = last]
          /\ SetPool(q)
  BY DEF WriteDone, Invalidate
<1> HIDE DEF first, last, cursor
<1> QED BY <1>5, <1>9, <1>10, <1>11, Parts

\* A session that was drained is gone, and its state with it.
LEMMA DetachDoneStep ==
  ASSUME IInv, NEW i \in Id, DetachDone(i)
  PROVE  IInv'
<1>1. /\ Good(log, chain', entry, states, live, call) /\ Fits(chain'[i], Head1(i))
      /\ OpInv(log, entry, live, call, i, Head1(i)) /\ Head1(i).op = "detach"
  BY HeadFacts DEF DetachDone, Runs
<1>2. /\ live[i].phase = "draining" /\ live[i].saved = live[i].next
      /\ NoneOf(chain', i, "detach")
  BY <1>1 DEF OpInv, Fits, Clash, NoneOf
<1>3. /\ live[i].next \in Nat /\ entry[i] = NoEntry /\ entry[i].phase # "reserved"
  BY <1>2, LiveFacts
<1>4. NoneOf(chain', i, "init") /\ NoneOf(chain', i, "write")
  <2>1. ASSUME NEW k \in DOMAIN chain'[i], chain'[i][k].op \in {"init", "write"} PROVE FALSE
    <3>1. OpInv(log, entry, live, call, i, chain'[i][k])
      BY <1>1 DEF Good, ChainInv
    <3> QED BY <1>2, <1>3, <2>1, <3>1 DEF OpInv
  <2> QED BY <2>1 DEF NoneOf
<1>5. LiveFits(chain', entry, i, NoLive, NoState)
  BY <1>2, <1>3, <1>4 DEF LiveFits, NoLive
<1>6. /\ live' = [live EXCEPT ![i] = NoLive] /\ states' = [states EXCEPT ![i] = NoState]
      /\ UNCHANGED <<log, entry, recency, call, calls, failures, known, served>>
  BY DEF DetachDone
<1>7. Good(log, chain', entry, states', live', call)
  BY <1>1, <1>5, <1>6, LiveKeeps
<1> QED BY <1>6, <1>7, Parts DEF IInv, Pool

\* Another process writes, while nothing is reserved here.
LEMMA WriteElsewhereStep ==
  ASSUME IInv, NEW i \in Id, WriteElsewhere(i)
  PROVE  IInv'
<1>1. PICK turn \in {"open", "closed"} :
        log' = [log EXCEPT ![i] = [len |-> log[i].len + 1, turn |-> turn]]
  BY DEF WriteElsewhere
<1> DEFINE l == [len |-> log[i].len + 1, turn |-> turn]
<1>2. l \in Log /\ l.len > log[i].len
  <2>1. log[i].len \in Nat
    BY Parts DEF Log
  <2> QED BY <2>1 DEF Log
<1>3. /\ log' = [log EXCEPT ![i] = l] /\ entry[i].phase # "reserved"
      /\ UNCHANGED <<chain, entry, recency, states, live, call, calls, failures, known, served>>
  BY <1>1 DEF WriteElsewhere
<1> HIDE DEF l
<1>4. Good(log', chain, entry, states, live, call)
  BY <1>2, <1>3, Parts, LogKeeps
<1> QED BY <1>3, <1>4, Parts DEF IInv, Pool

-----------------------------------------------------------------------------
(* What the process knows of each log.  An append that writes runs first on  *)
(* its chain and outlives no entry of an id it adopts; what is ready, being  *)
(* committed or reserved is no older than what the process knows of the log. *)

Held == {"ready", "committing", "reserved"}

\* The operation at k is an append that the client c is writing.
Writes(Q, C, i, k, c) ==
  Q[i][k].op = "append" /\ Q[i][k].client = c /\ C[c].step = "writing"
NoWrites(Q, C, i) == \A k \in DOMAIN Q[i], c \in Client : ~Writes(Q, C, i, k, c)

WritesAt(Q, E, S, C, i) ==
  \A k \in DOMAIN Q[i], c \in Client : Writes(Q, C, i, k, c) =>
    /\ k = 1 /\ E[i].phase # "reserved"
    /\ S[i] = NoState => E[i].phase \notin Held

\* The load of the current entry is the last one queued.
LoadsAt(Q, E, i) ==
  \A l \in DOMAIN Q[i] : Q[i][l].op = "load" =>
    /\ E[i].phase \notin Held
    /\ \A k \in DOMAIN Q[i] : k < l /\ Q[i][k].op = "load" => Q[i][k].tag # E[i].tag

KnownAt(L, E, K, i) ==
  K[i] <= L[i].len /\ (E[i].phase \in Held => K[i] <= E[i].source.len)

\* A call other than an append was made when its floor was known, and has read
\* no less.
CallKnown(K, v) ==
  v.step \notin {"appending", "writing"} =>
    v.floor <= K[v.id] /\ (v.step \in Loaded => v.floor <= v.source.len)

LayerAt(L, Q, E, S, C, K, i) ==
  WritesAt(Q, E, S, C, i) /\ LoadsAt(Q, E, i) /\ KnownAt(L, E, K, i)
Layer(L, Q, E, S, C, K) ==
  /\ \A i \in Id : LayerAt(L, Q, E, S, C, K, i)
  /\ \A c \in Client : CallKnown(K, C[c])

\* Every load queued names an entry.
NamedLoads(Q) ==
  \A i \in Id : \A k \in DOMAIN Q[i] : Q[i][k].op = "load" => Q[i][k].tag # 0

\* Entries may go, and pins come and go.
LEMMA SameKeeps ==
  ASSUME NEW L, NEW Q, NEW E, NEW S, NEW C, NEW K, Layer(L, Q, E, S, C, K),
         NamedLoads(Q), NEW F, Same(E, F)
  PROVE  Layer(L, Q, F, S, C, K)
<1>1. NoEntry.tag = 0 /\ NoEntry.phase = "absent" /\ "absent" \notin Held /\ "reserved" \in Held
  BY DEF NoEntry, Held
<1>2. ASSUME NEW i \in Id PROVE LayerAt(L, Q, F, S, C, K, i)
  <2>1. LayerAt(L, Q, E, S, C, K, i)
    BY DEF Layer
  <2>2. \/ F[i] = NoEntry
        \/ F[i].tag = E[i].tag /\ F[i].phase = E[i].phase /\ F[i].source = E[i].source
    BY DEF Same
  <2>3. WritesAt(Q, F, S, C, i)
    BY <1>1, <2>1, <2>2 DEF LayerAt, WritesAt
  <2>4. LoadsAt(Q, F, i)
    BY <1>1, <2>1, <2>2 DEF LayerAt, LoadsAt, NamedLoads
  <2>5. KnownAt(L, F, K, i)
    BY <1>1, <2>1, <2>2 DEF LayerAt, KnownAt
  <2> QED BY <2>3, <2>4, <2>5 DEF LayerAt
<1> QED BY <1>2 DEF Layer

\* An operation leaves its chain; with the head go all writes, and the load of
\* the current entry is followed by no other.
LEMMA DropLayer ==
  ASSUME NEW L, NEW Q, NEW E, NEW S, NEW C, NEW K, Layer(L, Q, E, S, C, K),
         Q \in [Id -> Seq(Operation)],
         NEW i \in Id, NEW k \in DOMAIN Q[i], NEW w, Drops(Q[i], k, w),
         NEW R, R = Cleared(Q, i, w)
  PROVE  /\ Layer(L, R, E, S, C, K)
         /\ k = 1 => NoWrites(R, C, i)
         /\ k = 1 /\ Q[i][1].op = "load" /\ Q[i][1].tag = E[i].tag => NoneOf(R, i, "load")
<1>1. /\ R[i] = w /\ \A j \in Id \ {i} : R[j] = Q[j]
      /\ DOMAIN w \subseteq Nat \ {0} /\ DOMAIN Q[i] \subseteq Nat \ {0}
  BY DEF Drops, Cleared
<1>2. ASSUME NEW a \in DOMAIN w
      PROVE  \E b \in DOMAIN Q[i] \ {k} : w[a] = Q[i][b] /\ b = IF a < k THEN a ELSE a + 1
  BY DEF Drops
<1>3. WritesAt(Q, E, S, C, i) /\ LoadsAt(Q, E, i) /\ KnownAt(L, E, K, i)
  BY DEF Layer, LayerAt
<1>4. ASSUME NEW a \in DOMAIN w, NEW c \in Client, Writes(R, C, i, a, c)
      PROVE  /\ a = 1 /\ k # 1 /\ E[i].phase # "reserved"
             /\ S[i] = NoState => E[i].phase \notin Held
  <2>1. PICK b \in DOMAIN Q[i] \ {k} : w[a] = Q[i][b] /\ b = IF a < k THEN a ELSE a + 1
    BY <1>2
  <2>2. Writes(Q, C, i, b, c)
    BY <1>1, <1>4, <2>1 DEF Writes
  <2>3. /\ b = 1 /\ E[i].phase # "reserved"
        /\ S[i] = NoState => E[i].phase \notin Held
    BY <1>3, <2>2 DEF WritesAt
  <2>4. a \in Nat \ {0} /\ k \in Nat \ {0}
    BY <1>1
  <2> QED BY <2>1, <2>3, <2>4
<1>5. ASSUME NEW l \in DOMAIN w, w[l].op = "load"
      PROVE  /\ E[i].phase \notin Held
             /\ \A m \in DOMAIN w : m < l /\ w[m].op = "load" => w[m].tag # E[i].tag
             /\ ~(k = 1 /\ Q[i][1].op = "load" /\ Q[i][1].tag = E[i].tag)
  <2>1. PICK b \in DOMAIN Q[i] \ {k} : w[l] = Q[i][b] /\ b = IF l < k THEN l ELSE l + 1
    BY <1>2
  <2>2. /\ E[i].phase \notin Held
        /\ \A m \in DOMAIN Q[i] : m < b /\ Q[i][m].op = "load" => Q[i][m].tag # E[i].tag
    BY <1>3, <1>5, <2>1 DEF LoadsAt
  <2>3. ASSUME NEW m \in DOMAIN w, m < l, w[m].op = "load" PROVE w[m].tag # E[i].tag
    <3>1. PICK d \in DOMAIN Q[i] \ {k} : w[m] = Q[i][d] /\ d = IF m < k THEN m ELSE m + 1
      BY <1>2
    <3>2. m \in Nat /\ l \in Nat /\ k \in Nat
      BY <1>1
    <3>3. d < b
      BY <2>1, <2>3, <3>1, <3>2
    <3> QED BY <2>2, <2>3, <3>1, <3>3
  <2>4. k = 1 => 1 < b
    <3>1. l \in Nat \ {0}
      BY <1>1
    <3> QED BY <2>1, <3>1
  <2> QED BY <2>2, <2>3, <2>4
<1>6. ASSUME NEW j \in Id PROVE LayerAt(L, R, E, S, C, K, j)
  <2>1. CASE j # i
    BY <1>1, <2>1 DEF Layer, LayerAt, WritesAt, LoadsAt, Writes
  <2>2. CASE j = i
    <3>1. WritesAt(R, E, S, C, i)
      BY <1>1, <1>4 DEF WritesAt
    <3>2. LoadsAt(R, E, i)
      BY <1>1, <1>5 DEF LoadsAt
    <3> QED BY <1>3, <2>2, <3>1, <3>2 DEF LayerAt
  <2> QED BY <2>1, <2>2
<1>7. k = 1 => NoWrites(R, C, i)
  BY <1>1, <1>4 DEF NoWrites
<1>8. k = 1 /\ Q[i][1].op = "load" /\ Q[i][1].tag = E[i].tag => NoneOf(R, i, "load")
  BY <1>1, <1>5 DEF NoneOf
<1> QED BY <1>6, <1>7, <1>8 DEF Layer

\* An operation joins its chain.
LEMMA EnqueueLayer ==
  ASSUME NEW L, NEW Q, NEW E, NEW S, NEW C, NEW K, Layer(L, Q, E, S, C, K),
         Q \in [Id -> Seq(Operation)],
         NEW i \in Id, NEW o \in Operation,
         o.op = "append" => C[o.client].step # "writing",
         o.op = "load" => E[i].phase \notin Held /\ NoLoad(Q, i, E[i].tag),
         NEW R, R = [Q EXCEPT ![i] = Append(Q[i], o)]
  PROVE  Layer(L, R, E, S, C, K)
<1> DEFINE w == Append(Q[i], o)
<1>1. /\ R[i] = w /\ \A j \in Id \ {i} : R[j] = Q[j]
      /\ Len(Q[i]) \in Nat /\ DOMAIN Q[i] = 1..Len(Q[i])
      /\ \A k \in DOMAIN w : \/ k \in DOMAIN Q[i] /\ w[k] = Q[i][k]
                             \/ k = Len(Q[i]) + 1 /\ w[k] = o
  BY AppendFacts
<1> HIDE DEF w
<1>2. WritesAt(Q, E, S, C, i) /\ LoadsAt(Q, E, i) /\ KnownAt(L, E, K, i)
  BY DEF Layer, LayerAt
<1>3. ASSUME NEW k \in DOMAIN w, NEW c \in Client, Writes(R, C, i, k, c)
      PROVE  Writes(Q, C, i, k, c) /\ k \in DOMAIN Q[i]
  BY <1>1, <1>3 DEF Writes
<1>4. ASSUME NEW l \in DOMAIN w, w[l].op = "load"
      PROVE  /\ E[i].phase \notin Held
             /\ \A m \in DOMAIN w : m < l /\ w[m].op = "load" => w[m].tag # E[i].tag
  <2>1. CASE l \in DOMAIN Q[i] /\ w[l] = Q[i][l]
    <3>1. /\ E[i].phase \notin Held
          /\ \A m \in DOMAIN Q[i] : m < l /\ Q[i][m].op = "load" => Q[i][m].tag # E[i].tag
      BY <1>2, <1>4, <2>1 DEF LoadsAt
    <3>2. ASSUME NEW m \in DOMAIN w, m < l PROVE m \in DOMAIN Q[i] /\ w[m] = Q[i][m]
      BY <1>1, <2>1, <3>2
    <3> QED BY <3>1, <3>2
  <2>2. CASE l = Len(Q[i]) + 1 /\ w[l] = o
    <3>1. ASSUME NEW m \in DOMAIN w, m < l PROVE m \in DOMAIN Q[i] /\ w[m] = Q[i][m]
      BY <1>1, <2>2, <3>1
    <3> QED BY <1>4, <2>2, <3>1 DEF NoLoad
  <2> QED BY <1>1, <2>1, <2>2
<1>5. ASSUME NEW j \in Id PROVE LayerAt(L, R, E, S, C, K, j)
  <2>1. CASE j # i
    BY <1>1, <2>1 DEF Layer, LayerAt, WritesAt, LoadsAt, Writes
  <2>2. CASE j = i
    <3>1. WritesAt(R, E, S, C, i)
      BY <1>1, <1>2, <1>3 DEF WritesAt
    <3>2. LoadsAt(R, E, i)
      BY <1>1, <1>4 DEF LoadsAt
    <3> QED BY <1>2, <2>2, <3>1, <3>2 DEF LayerAt
  <2> QED BY <2>1, <2>2
<1> QED BY <1>5 DEF Layer

\* Callers go on that are not to write.
LEMMA CallsLayer ==
  ASSUME NEW L, NEW Q, NEW E, NEW S, NEW C, NEW K, Layer(L, Q, E, S, C, K),
         NEW D, \A c \in Client : D[c] = C[c] \/ (CallKnown(K, D[c]) /\ D[c].step # "writing")
  PROVE  Layer(L, Q, E, S, D, K)
         /\ \A i \in Id : NoWrites(Q, C, i) => NoWrites(Q, D, i)
<1>1. ASSUME NEW i \in Id, NEW k, NEW c \in Client, Writes(Q, D, i, k, c)
      PROVE  Writes(Q, C, i, k, c)
  BY <1>1 DEF Writes
<1>2. ASSUME NEW i \in Id PROVE LayerAt(L, Q, E, S, D, K, i)
  BY <1>1 DEF Layer, LayerAt, WritesAt
<1>3. ASSUME NEW c \in Client PROVE CallKnown(K, D[c])
  BY DEF Layer
<1> QED BY <1>1, <1>2, <1>3 DEF Layer, NoWrites

\* The log of an id grows, and the process knows of it.
LEMMA LogLayer ==
  ASSUME NEW L, NEW Q, NEW E, NEW S, NEW C, NEW K, Layer(L, Q, E, S, C, K),
         L \in [Id -> Log], K \in [Id -> Nat], \A c \in Client : C[c] \in Call,
         NEW i \in Id, NEW l \in Log, L[i].len <= l.len,
         NEW M, M = [L EXCEPT ![i] = l],
         NEW n \in Nat, n = K[i] \/ (K[i] <= n /\ n <= l.len /\ E[i].phase \notin Held),
         NEW N, N = [K EXCEPT ![i] = n]
  PROVE  Layer(M, Q, E, S, C, N)
<1>1. /\ M[i] = l /\ \A j \in Id \ {i} : M[j] = L[j]
      /\ N[i] = n /\ \A j \in Id \ {i} : N[j] = K[j]
      /\ L[i].len \in Nat /\ l.len \in Nat /\ K[i] \in Nat /\ n \in Nat /\ K[i] <= n
  BY DEF Log
<1>2. ASSUME NEW j \in Id PROVE LayerAt(M, Q, E, S, C, N, j)
  <2>1. WritesAt(Q, E, S, C, j) /\ LoadsAt(Q, E, j) /\ KnownAt(L, E, K, j)
    BY DEF Layer, LayerAt
  <2>2. CASE j # i
    BY <1>1, <2>1, <2>2 DEF LayerAt, KnownAt
  <2>3. CASE j = i
    <3>1. n <= l.len
      BY <1>1, <2>1, <2>3 DEF KnownAt
    <3> QED BY <1>1, <2>1, <2>3, <3>1 DEF LayerAt, KnownAt
  <2> QED BY <2>2, <2>3
<1>3. ASSUME NEW c \in Client PROVE CallKnown(N, C[c])
  <2>1. CallKnown(K, C[c]) /\ C[c].floor \in Nat /\ C[c].id \in Id
    BY DEF Layer, Call
  <2>2. K[C[c].id] <= N[C[c].id] /\ K[C[c].id] \in Nat /\ N[C[c].id] \in Nat
    BY <1>1, <2>1
  <2> QED BY <2>1, <2>2 DEF CallKnown
<1> QED BY <1>2, <1>3 DEF Layer

\* The entry of an id changes.
LEMMA EntryLayer ==
  ASSUME NEW L, NEW Q, NEW E, NEW S, NEW C, NEW K, Layer(L, Q, E, S, C, K),
         NEW i \in Id, NEW F, \A j \in Id \ {i} : F[j] = E[j],
         LayerAt(L, Q, F, S, C, K, i)
  PROVE  Layer(L, Q, F, S, C, K)
<1>1. ASSUME NEW j \in Id \ {i} PROVE LayerAt(L, Q, F, S, C, K, j)
  BY DEF Layer, LayerAt, WritesAt, LoadsAt, KnownAt
<1> QED BY <1>1 DEF Layer

\* The state of an id changes, which no append writes.
LEMMA StateLayer ==
  ASSUME NEW L, NEW Q, NEW E, NEW S, NEW C, NEW K, Layer(L, Q, E, S, C, K),
         NEW i \in Id, NoWrites(Q, C, i), NEW T, \A j \in Id \ {i} : T[j] = S[j]
  PROVE  Layer(L, Q, E, T, C, K)
<1>1. ASSUME NEW j \in Id PROVE LayerAt(L, Q, E, T, C, K, j)
  <2>1. LayerAt(L, Q, E, S, C, K, j)
    BY DEF Layer
  <2> QED BY <2>1 DEF LayerAt, WritesAt, NoWrites
<1> QED BY <1>1 DEF Layer

\* The layer after a step.
LayerNext == Layer(log', chain', entry', states', call', known')

\* The invariant with its layer.
IInv2 == /\ IInv /\ Layer(log, chain, entry, states, call, known)
         /\ served = "fresh"

\* The invariant names every load.
LEMMA NamedFacts ==
  ASSUME NEW L, NEW Q, NEW E, NEW S, NEW V, NEW C, Good(L, Q, E, S, V, C)
  PROVE  NamedLoads(Q)
BY DEF Good, ChainInv, OpInv, NamedLoads

\* What the layer says of a client and of an id.
LEMMA LayerFacts ==
  ASSUME IInv2
  PROVE  /\ NamedLoads(chain) /\ Same(entry, entry)
         /\ \A c \in Client : /\ CallKnown(known, call[c])
                              /\ call[c].floor \in Nat /\ call[c].source.len \in Nat
         /\ \A i \in Id : /\ WritesAt(chain, entry, states, call, i)
                          /\ LoadsAt(chain, entry, i) /\ KnownAt(log, entry, known, i)
                          /\ known[i] \in Nat /\ log[i].len \in Nat
                          /\ entry[i].source.len \in Nat
<1>1. IInv /\ NamedLoads(chain)
  BY Parts, NamedFacts DEF IInv2
<1>2. ASSUME NEW c \in Client
      PROVE  CallKnown(known, call[c]) /\ call[c].floor \in Nat /\ call[c].source.len \in Nat
  <2>1. call[c] \in Call
    BY <1>1, Parts
  <2> QED BY <2>1 DEF IInv2, Layer, Call, Log
<1>3. ASSUME NEW i \in Id
      PROVE  known[i] \in Nat /\ log[i].len \in Nat /\ entry[i].source.len \in Nat
  <2>1. log[i] \in Log /\ entry[i] \in PoolEntry \cup {NoEntry} /\ known[i] \in Nat
    BY <1>1, Parts
  <2> QED BY <2>1 DEF Log, PoolEntry, NoEntry, NoLog
<1> QED BY <1>1, <1>2, <1>3 DEF IInv2, Layer, LayerAt, Same

\* The running operation leaves: no append writes then.
LEMMA HeadLayer ==
  ASSUME IInv2, NEW i \in Id, chain[i] # <<>>, Dequeue(i)
  PROVE  /\ Layer(log, chain', entry, states, call, known) /\ NoWrites(chain', call, i)
         /\ NamedLoads(chain')
         /\ Head1(i).op = "load" /\ Head1(i).tag = entry[i].tag => NoneOf(chain', i, "load")
<1>1. IInv
  BY DEF IInv2
<1>2. /\ chain \in [Id -> Seq(Operation)] /\ chain[i] \in Seq(Operation)
      /\ 1 \in DOMAIN chain[i]
      /\ Drops(chain[i], 1, Tail(chain[i])) /\ Head1(i) = chain[i][1]
  BY <1>1, Parts, DropFacts DEF Head1
<1>3. chain' = Cleared(chain, i, Tail(chain[i]))
  BY DEF Dequeue, Cleared
<1> DEFINE w == Tail(chain[i])
<1> HIDE DEF w
<1>4. /\ Layer(log, chain', entry, states, call, known) /\ NoWrites(chain', call, i)
      /\ chain[i][1].op = "load" /\ chain[i][1].tag = entry[i].tag => NoneOf(chain', i, "load")
  <2>1. Layer(log, chain, entry, states, call, known)
    BY DEF IInv2
  <2>2. Drops(chain[i], 1, w) /\ chain' = Cleared(chain, i, w)
    BY <1>2, <1>3 DEF w
  <2> QED BY <1>2, <2>1, <2>2, DropLayer
<1>5. NamedLoads(chain')
  BY <1>1, HeadFacts, NamedFacts
<1> QED BY <1>2, <1>4, <1>5

\* A call that ended, or starts over.
LEMMA RestLayer ==
  ASSUME IInv2, NEW c \in Client, call[c].step \notin {"appending", "writing"}
         \/ call' = Ended(call, c),
         call' = Ended(call, c) \/ call' = Restarted(call, c)
  PROVE  \A d \in Client : \/ call'[d] = call[d]
                           \/ CallKnown(known, call'[d]) /\ call'[d].step # "writing"
<1>1. /\ call \in [Client -> Call] /\ call[c] \in Call /\ call[c].id \in Id
      /\ known[call[c].id] \in Nat /\ CallKnown(known, call[c])
  BY Parts, FreeFacts, LayerFacts DEF IInv2
<1>2. CASE call' = Ended(call, c)
  <2>1. call'[c] = NoCall(call[c].id) /\ \A d \in Client \ {c} : call'[d] = call[d]
    BY <1>1, <1>2 DEF Ended
  <2>2. CallKnown(known, NoCall(call[c].id)) /\ NoCall(call[c].id).step # "writing"
    BY <1>1 DEF CallKnown, NoCall, Loaded
  <2> QED BY <2>1, <2>2
<1>3. CASE call' = Restarted(call, c) /\ call[c].step \notin {"appending", "writing"}
  <2> DEFINE r == [call[c] EXCEPT !.step = "top", !.pinned = "no", !.tag = 0,
                                  !.source = NoLog]
  <2>1. call'[c] = r /\ \A d \in Client \ {c} : call'[d] = call[d]
    BY <1>1, <1>3 DEF Restarted
  <2>2. r.step = "top" /\ r.id = call[c].id /\ r.floor = call[c].floor
    BY <1>1 DEF Call
  <2> HIDE DEF r
  <2>3. CallKnown(known, r)
    BY <1>1, <1>3, <2>2 DEF CallKnown, Loaded
  <2> QED BY <2>1, <2>2, <2>3
<1> QED BY <1>2, <1>3

\* Entries go or keep all but their pins, and calls go on.
LEMMA QuietLayer ==
  ASSUME IInv2, Layer(log, chain', entry, states, call, known), NamedLoads(chain'),
         Same(entry, entry'),
         \A d \in Client : \/ call'[d] = call[d]
                           \/ CallKnown(known, call'[d]) /\ call'[d].step # "writing",
         UNCHANGED <<log, states, known>>
  PROVE  LayerNext
<1>1. Layer(log, chain', entry', states, call, known)
  BY SameKeeps
<1>2. Layer(log, chain', entry', states, call', known)
  BY <1>1, CallsLayer
<1> QED BY <1>2 DEF LayerNext

\* What is left of the entries when one goes.
LEMMA RemoveSame ==
  ASSUME NEW p, NEW i \in Id, p.entry \in [Id -> PoolEntry \cup {NoEntry}]
  PROVE  Same(p.entry, Remove(p, i).entry) /\ Remove(p, i).entry[i] = NoEntry
<1>1. Remove(p, i).entry = [p.entry EXCEPT ![i] = NoEntry]
  BY DEF Remove
<1> QED BY <1>1 DEF Same

\* Nor does the LRU leave more.
LEMMA TrimSame ==
  ASSUME NEW E, NEW F, Trims(E, F)
  PROVE  Same(E, F)
BY DEF Trims, Same

-----------------------------------------------------------------------------
(* The layer after each action. *)

\* A client makes a call.
LEMMA AskLayer ==
  ASSUME IInv2, NEW c \in Client, Ask(c)
  PROVE  LayerNext
<1> USE DEF IInv2
<1>1. PICK kind \in Kind, i \in Id :
        /\ call' = [call EXCEPT ![c] =
             [NoCall(i) EXCEPT !.kind = kind,
                !.step = IF kind = "append" THEN "appending" ELSE "top",
                !.floor = IF kind = "append" THEN log[i].len ELSE known[i]]]
        /\ IF kind = "append" THEN Enqueue(i, "append", c, 0) ELSE UNCHANGED chain
  BY Zenon DEF Ask
<1> DEFINE v == [NoCall(i) EXCEPT !.kind = kind,
                   !.step = IF kind = "append" THEN "appending" ELSE "top",
                   !.floor = IF kind = "append" THEN log[i].len ELSE known[i]]
           o == [op |-> "append", client |-> c, tag |-> 0]
<1>2. /\ v.step = IF kind = "append" THEN "appending" ELSE "top"
      /\ v.id = i
      /\ kind # "append" => v.floor = known[i]
  BY DEF NoCall
<1>3. known[i] \in Nat /\ CallKnown(known, v) /\ v.step # "writing"
  <2>1. known[i] \in Nat
    BY LayerFacts
  <2> HIDE DEF v
  <2> QED BY <1>2, <2>1 DEF CallKnown, Loaded
<1>4. call'[c] = v /\ \A d \in Client \ {c} : call'[d] = call[d]
  BY <1>1, Parts
<1> HIDE DEF v
<1>5. Layer(log, chain, entry, states, call', known)
  <2>1. \A d \in Client : \/ call'[d] = call[d]
                          \/ CallKnown(known, call'[d]) /\ call'[d].step # "writing"
    BY <1>3, <1>4
  <2> QED BY <2>1, CallsLayer
<1>6. UNCHANGED <<log, entry, states, known>>
  BY DEF Ask
<1>7. CASE kind # "append"
  BY <1>1, <1>5, <1>6, <1>7 DEF LayerNext
<1>8. CASE kind = "append"
  <2>1. chain' = [chain EXCEPT ![i] = Append(chain[i], o)]
    BY <1>1, <1>8 DEF Enqueue
  <2>2. o \in Operation /\ o.op = "append" /\ o.client = c
    BY DEF Operation
  <2>3. call'[o.client].step # "writing"
    BY <1>3, <1>4, <2>2
  <2> HIDE DEF o
  <2>4. Layer(log, chain', entry, states, call', known)
    BY <1>5, <2>1, <2>2, <2>3, Parts, EnqueueLayer
  <2> QED BY <1>6, <2>4 DEF LayerNext
<1> QED BY <1>7, <1>8

\* A live session answers, or a lease ends.
LEMMA EndLayer ==
  ASSUME IInv2, NEW c \in Client, MeetLive(c) \/ EndLease(c)
  PROVE  LayerNext
<1> USE DEF IInv2
<1>1. call' = Ended(call, c) /\ UNCHANGED <<log, chain, states, known>>
  BY Parts DEF MeetLive, EndLease, Finish, Ended
<1>2. Same(entry, entry')
  <2>1. CASE MeetLive(c)
    BY <2>1, LayerFacts DEF MeetLive
  <2>2. CASE EndLease(c)
    <3> DEFINE q == Unpin(Pool, c)
    <3>1. /\ PoolOK(Pool) /\ Bounded(Pool.entry) /\ Pool.entry = entry
          /\ Good(log, chain, Pool.entry, states, live, call)
          /\ NoOps(chain, c) /\ call[c].step # "holding" /\ entry' = q.entry
      BY <2>2, Parts, FreeFacts DEF EndLease, SetPool
    <3> HIDE DEF q
    <3>2. Same(Pool.entry, q.entry)
      BY <3>1, UnpinKeeps DEF q
    <3> QED BY <3>1, <3>2
  <2> QED BY <2>1, <2>2
<1>3. Layer(log, chain', entry, states, call, known) /\ NamedLoads(chain')
  BY <1>1, LayerFacts
<1> QED BY <1>1, <1>2, <1>3, RestLayer, QuietLayer

\* A call joins the entry of its id, or makes it and starts the load.
LEMMA EnterLayer ==
  ASSUME IInv2, NEW c \in Client, Enter(c)
  PROVE  LayerNext
<1> USE DEF IInv2
<1> DEFINE i == call[c].id
           pin == IF call[c].kind = "borrow" THEN 1 ELSE 0
           tag == IF entry[i] = NoEntry THEN FreshTag(i) ELSE entry[i].tag
           loaded == entry[i].phase \in {"ready", "committing", "reserved"}
           v == [call[c] EXCEPT !.step = IF loaded THEN "loaded" ELSE "loading",
                   !.tag = tag, !.source = IF loaded THEN entry[i].source ELSE NoLog,
                   !.pinned = IF pin = 1 THEN "yes" ELSE "no"]
<1>1. /\ call[c] \in Call /\ i \in Id /\ call[c].step = "top"
      /\ call' = [call EXCEPT ![c] = v] /\ UNCHANGED <<log, states, known>>
  BY Parts, FreeFacts DEF Enter
<1>2. /\ v.step = IF loaded THEN "loaded" ELSE "loading"
      /\ v.source = IF loaded THEN entry[i].source ELSE NoLog
      /\ v.id = i /\ v.floor = call[c].floor
  BY <1>1 DEF Call
<1>3. call'[c] = v /\ \A d \in Client \ {c} : call'[d] = call[d]
  BY <1>1, Parts
<1> HIDE DEF v
<1>4. CallKnown(known, v)
  <2>1. call[c].floor <= known[i]
    BY <1>1, LayerFacts DEF CallKnown
  <2>2. loaded => known[i] <= entry[i].source.len
    BY <1>1, LayerFacts DEF KnownAt, Held
  <2>3. /\ call[c].floor \in Nat /\ known[i] \in Nat /\ entry[i].source.len \in Nat
    BY <1>1, LayerFacts
  <2> HIDE DEF i
  <2> QED BY <1>2, <2>1, <2>2, <2>3 DEF CallKnown, Loaded
<1>5. \A d \in Client : \/ call'[d] = call[d]
                        \/ CallKnown(known, call'[d]) /\ call'[d].step # "writing"
  BY <1>2, <1>3, <1>4
<1>6. CASE entry[i] # NoEntry
  <2>1. entry' = [entry EXCEPT ![i].pins = @ + pin] /\ chain' = chain
    BY <1>6 DEF Enter
  <2>2. Same(entry, entry')
    <3>1. entry[i] \in PoolEntry
      BY <1>1, <1>6, Parts
    <3>2. /\ entry'[i].tag = entry[i].tag /\ entry'[i].phase = entry[i].phase
          /\ entry'[i].source = entry[i].source
      BY <1>1, <2>1, <3>1, Parts DEF PoolEntry
    <3>3. \A j \in Id \ {i} : entry'[j] = entry[j]
      BY <2>1, Parts
    <3> QED BY <3>2, <3>3 DEF Same
  <2>3. Layer(log, chain', entry, states, call, known) /\ NamedLoads(chain')
    BY <2>1, LayerFacts
  <2> QED BY <1>1, <1>5, <2>2, <2>3, QuietLayer
<1>7. CASE entry[i] = NoEntry
  <2> DEFINE x == [NoEntry EXCEPT !.tag = tag, !.phase = "loading", !.pins = pin]
             o == [op |-> "load", client |-> "none", tag |-> tag]
  <2>1. /\ entry' = [entry EXCEPT ![i] = x]
        /\ chain' = [chain EXCEPT ![i] = Append(chain[i], o)]
    BY <1>7 DEF Enter, Enqueue
  <2>2. FreshFor(chain, call, i, tag)
    BY <1>1, <1>7, Parts, FreshTagFacts
  <2>3. /\ x.tag = tag /\ x.phase = "loading" /\ o.op = "load" /\ o.tag = tag
        /\ o \in Operation
    BY <2>2 DEF NoEntry, Operation, FreshFor
  <2>4. entry'[i] = x /\ \A j \in Id \ {i} : entry'[j] = entry[j]
    BY <1>1, <2>1, Parts
  <2> HIDE DEF x, o, tag, pin
  <2>5. LayerAt(log, chain, entry', states, call, known, i)
    <3>1. /\ WritesAt(chain, entry, states, call, i) /\ KnownAt(log, entry, known, i)
          /\ "loading" \notin Held /\ "reserved" # "loading"
      BY <1>1, LayerFacts DEF Held
    <3>2. LoadsAt(chain, entry', i)
      BY <2>2, <2>3, <2>4, <3>1 DEF LoadsAt, FreshFor, NoLoad
    <3>3. WritesAt(chain, entry', states, call, i)
      BY <2>3, <2>4, <3>1 DEF WritesAt
    <3> QED BY <2>3, <2>4, <3>1, <3>2, <3>3 DEF LayerAt, KnownAt
  <2>6. Layer(log, chain, entry', states, call, known)
    BY <1>1, <2>4, <2>5, EntryLayer
  <2>7. Layer(log, chain, entry', states, call', known)
    BY <1>5, <2>6, CallsLayer
  <2>8. Layer(log, chain', entry', states, call', known)
    <3>1. entry'[i].phase \notin Held /\ NoLoad(chain, i, entry'[i].tag)
      BY <2>2, <2>3, <2>4 DEF Held, FreshFor
    <3> HIDE DEF i
    <3> QED BY <1>1, <2>1, <2>3, <2>7, <3>1, Parts, EnqueueLayer
  <2> QED BY <1>1, <2>8 DEF LayerNext
<1> QED BY <1>6, <1>7

\* A load: what it read is known, and is what its entry holds.
LEMMA LoadLayer ==
  ASSUME IInv2, NEW i \in Id, LoadDone(i)
  PROVE  LayerNext
<1> USE DEF IInv2
<1> DEFINE tag == Head1(i).tag
           n == log[i].len
<1>1. /\ chain[i] # <<>> /\ Dequeue(i) /\ Head1(i).op = "load"
      /\ known' = [known EXCEPT ![i] = n] /\ UNCHANGED <<log, states>>
      /\ call' = [c \in Client |-> IF c \in Waiters(i, tag)
                    THEN [call[c] EXCEPT !.step = "loaded", !.source = log[i]] ELSE call[c]]
  BY DEF LoadDone, Runs
<1>2. /\ Layer(log, chain', entry, states, call, known) /\ NoWrites(chain', call, i)
      /\ NamedLoads(chain')
      /\ tag = entry[i].tag => NoneOf(chain', i, "load")
  BY <1>1, HeadLayer
<1>3. /\ known[i] \in Nat /\ n \in Nat /\ known[i] <= n /\ log[i] \in Log
      /\ known \in [Id -> Nat] /\ log \in [Id -> Log] /\ \A c \in Client : call[c] \in Call
  BY LayerFacts, Parts DEF KnownAt
<1>4. entry[i].phase \notin Held
  <2>1. 1 \in DOMAIN chain[i] /\ chain[i][1].op = "load"
    <3>1. chain[i] \in Seq(Operation)
      BY Parts
    <3>2. 1 \in DOMAIN chain[i] /\ Head(chain[i]) = chain[i][1]
      BY <1>1, <3>1, DropFacts
    <3> QED BY <1>1, <3>2 DEF Head1
  <2> QED BY <2>1, LayerFacts DEF LoadsAt
<1>5. Layer(log, chain', entry, states, call, known')
  <2>1. log = [log EXCEPT ![i] = log[i]]
    BY <1>3
  <2> DEFINE l == log[i]
  <2>2. l \in Log /\ log[i].len <= l.len /\ log = [log EXCEPT ![i] = l] /\ n <= l.len
    BY <1>3, <2>1
  <2> HIDE DEF l
  <2> QED BY <1>1, <1>2, <1>3, <1>4, <2>2, LogLayer
<1>6. \A c \in Client : \/ call'[c] = call[c]
                        \/ CallKnown(known', call'[c]) /\ call'[c].step # "writing"
  <2> SUFFICES ASSUME NEW c \in Client, c \in Waiters(i, tag)
               PROVE  CallKnown(known', call'[c]) /\ call'[c].step # "writing"
    BY <1>1
  <2> DEFINE v == [call[c] EXCEPT !.step = "loaded", !.source = log[i]]
  <2>1. call'[c] = v /\ call[c].id = i /\ call[c].step = "loading"
    BY <1>1 DEF Waiters
  <2>2. v.step = "loaded" /\ v.source = log[i] /\ v.floor = call[c].floor /\ v.id = i
    BY <1>3, <2>1 DEF Call
  <2> HIDE DEF v
  <2>3. call[c].floor <= known[i] /\ call[c].floor \in Nat
    BY <2>1, LayerFacts DEF CallKnown
  <2>4. call[c].floor <= n
    BY <1>3, <2>3
  <2>5. known'[i] = n
    BY <1>1, <1>3
  <2> QED BY <2>1, <2>2, <2>4, <2>5 DEF CallKnown
<1>7. Layer(log, chain', entry, states, call', known') /\ NoWrites(chain', call', i)
  BY <1>2, <1>5, <1>6, CallsLayer
<1>8. CASE ~(entry[i] # NoEntry /\ entry[i].tag = tag)
  <2>1. entry' = entry
    BY <1>8 DEF LoadDone
  <2> QED BY <1>1, <1>7, <2>1 DEF LayerNext
<1>9. CASE entry[i] # NoEntry /\ entry[i].tag = tag
  <2> DEFINE x == [entry[i] EXCEPT !.source = log[i]]
             y == [x EXCEPT !.phase = "ready"]
             F == [entry EXCEPT ![i] = y]
             p == Put(Pool, i, x)
             q == MakeReady(p, i)
  <2>1. entry[i] \in PoolEntry
    BY <1>9, Parts
  <2>2. /\ x \in PoolEntry /\ x # NoEntry /\ x.phase = entry[i].phase
        /\ x.tag = entry[i].tag /\ x.pins = entry[i].pins /\ y.tag = entry[i].tag
        /\ y.source = log[i] /\ y.phase = "ready"
    BY <1>3, <2>1 DEF PoolEntry, NoEntry, Tag
  <2>3. entry' = q.entry
    <3>1. p = [Pool EXCEPT !.entry[i].source = log[i]]
      BY Parts, PutForms
    <3> QED BY <1>9, <3>1 DEF LoadDone, SetPool
  <2>4. /\ p.entry[i] = x /\ [p.entry EXCEPT ![i] = [p.entry[i] EXCEPT !.phase = "ready"]] = F
    BY Parts DEF Put
  <2>5. F[i] = y /\ \A j \in Id \ {i} : F[j] = entry[j]
    BY Parts
  <2>6. PoolOK(p) /\ Bounded(p.entry) /\ p.entry[i] # NoEntry
    <3>1. PoolOK(Pool) /\ Bounded(Pool.entry) /\ Pool.entry[i] # NoEntry
          /\ x.phase # "ready"
      BY <1>4, <1>9, <2>2, Parts DEF Held
    <3> HIDE DEF x
    <3> QED BY <1>9, <2>2, <2>4, <3>1, Parts, PutFacts
  <2> HIDE DEF x, y, p, q, F
  <2>7. Trims(F, q.entry)
    BY <2>4, <2>6, MakeReadyFacts DEF q
  <2>8. LayerAt(log, chain', F, states, call', known', i)
    <3>1. WritesAt(chain', F, states, call', i)
      BY <1>7 DEF WritesAt, NoWrites
    <3>2. LoadsAt(chain', F, i)
      BY <1>2, <1>9 DEF LoadsAt, NoneOf
    <3>3. known'[i] = n /\ log[i].len = n
      BY <1>1, <1>3
    <3>4. KnownAt(log, F, known', i)
      BY <1>3, <2>2, <2>5, <3>3 DEF KnownAt
    <3> QED BY <3>1, <3>2, <3>4 DEF LayerAt
  <2>9. Layer(log, chain', F, states, call', known')
    BY <1>7, <2>5, <2>8, EntryLayer
  <2>10. Layer(log, chain', q.entry, states, call', known')
    BY <1>2, <2>7, <2>9, TrimSame, SameKeeps
  <2> QED BY <1>1, <2>3, <2>10 DEF LayerNext
<1> QED BY <1>8, <1>9

\* A pin goes, or an entry does.
LEMMA UnpinSame ==
  ASSUME IInv, NEW c \in Client, Good(log, chain', entry, states, live, call),
         NoOps(chain', c), call[c].step # "holding", SetPool(Unpin(Pool, c))
  PROVE  Same(entry, entry')
<1> DEFINE q == Unpin(Pool, c)
<1>1. PoolOK(Pool) /\ Bounded(Pool.entry) /\ Pool.entry = entry /\ entry' = q.entry
  BY Parts DEF SetPool
<1> HIDE DEF q
<1>2. Same(Pool.entry, q.entry)
  BY <1>1, UnpinKeeps DEF q
<1> QED BY <1>1, <1>2

\* The entry of an id goes, or none.
LEMMA PoolSame ==
  ASSUME IInv, NEW i \in Id, SetPool(Remove(Pool, i)) \/ SetPool(Pool)
  PROVE  /\ Same(entry, entry')
         /\ SetPool(Remove(Pool, i)) => entry'[i] = NoEntry
<1>1. Pool.entry = entry /\ Pool.entry \in [Id -> PoolEntry \cup {NoEntry}]
  BY Parts
<1>2. CASE SetPool(Remove(Pool, i))
  BY <1>1, <1>2, RemoveSame DEF SetPool
<1>3. CASE SetPool(Pool)
  <2>1. entry' = entry
    BY <1>1, <1>3 DEF SetPool
  <2>2. SetPool(Remove(Pool, i)) => entry'[i] = NoEntry
    BY <1>1, RemoveSame DEF SetPool
  <2> QED BY <2>1, <2>2 DEF Same
<1> QED BY <1>2, <1>3

\* The client of the running operation.
LEMMA OwnerFacts ==
  ASSUME IInv, NEW i \in Id, chain[i] # <<>>, Dequeue(i), NEW c, c = Head1(i).client,
         Head1(i).op \in {"commit", "check", "append"}
  PROVE  /\ c \in Client /\ call[c].id = i /\ call[c] \in Call /\ NoOps(chain', c)
         /\ Good(log, chain', entry, states, live, call)
         /\ OpInv(log, entry, live, call, i, Head1(i))
         /\ Head1(i).op = "commit" => call[c].step = "committing"
         /\ Head1(i).op = "check" => call[c].step = "checking"
<1>1. /\ Good(log, chain', entry, states, live, call)
      /\ OpInv(log, entry, live, call, i, Head1(i))
      /\ c # "none" => NoOps(chain', c)
  BY HeadFacts
<1>2. c \in Client /\ call[c].id = i /\ NoOps(chain', c)
  BY <1>1, ActorsAssumption DEF OpInv
<1> QED BY <1>1, <1>2, FreeFacts DEF OpInv

\* The source is there: the check is queued.
LEMMA CheckLayer ==
  ASSUME IInv2, NEW c \in Client, Check(c)
  PROVE  LayerNext
<1> USE DEF IInv2
<1> DEFINE i == call[c].id
           q == Touched(c)
<1>1. /\ call[c] \in Call /\ i \in Id /\ call[c].step = "loaded" /\ NoOps(chain, c)
      /\ UNCHANGED <<log, states, known>>
  BY Parts, FreeFacts DEF Check
<1>2. /\ PoolOK(q) /\ Bounded(q.entry) /\ Trims(entry, q.entry)
      /\ Good(log, chain, q.entry, states, live, call)
  BY <1>1, TouchedFacts
<1> HIDE DEF q
<1>3. Same(entry, q.entry)
  BY <1>2, TrimSame
<1>4. CASE Attached(i)
  <2> DEFINE r == Unpin(q, c)
  <2>1. entry' = r.entry /\ chain' = chain /\ call' = Ended(call, c)
    BY <1>4, Parts DEF Check, Finish, Ended, SetPool, q
  <2> HIDE DEF r
  <2>2. Same(q.entry, r.entry) /\ PoolOK(r)
    BY <1>1, <1>2, <2>1, UnpinKeeps DEF r
  <2>3. Same(entry, entry')
    <3>1. ASSUME NEW j \in Id PROVE r.entry[j] = NoEntry \/ r.entry[j].tag # 0
      BY <2>2 DEF PoolOK, PoolEntry, Tag
    <3> QED BY <1>3, <2>1, <2>2, <3>1 DEF Same, NoEntry
  <2>4. Layer(log, chain', entry, states, call, known) /\ NamedLoads(chain')
    BY <2>1, LayerFacts
  <2> QED BY <1>1, <2>1, <2>3, <2>4, RestLayer, QuietLayer
<1>5. CASE ~Attached(i)
  <2> DEFINE v == [call[c] EXCEPT !.step = "checking"]
             o == [op |-> "check", client |-> c, tag |-> 0]
  <2>1. /\ entry' = q.entry /\ chain' = [chain EXCEPT ![i] = Append(chain[i], o)]
        /\ call' = [call EXCEPT ![c] = v]
    BY <1>5 DEF Check, Enqueue, SetPool, q
  <2>2. /\ v.step = "checking" /\ v.source = call[c].source /\ v.id = i
        /\ v.floor = call[c].floor
    BY <1>1 DEF Call
  <2>3. o \in Operation /\ o.op = "check"
    BY DEF Operation
  <2> HIDE DEF v, o
  <2>4. \A d \in Client : \/ call'[d] = call[d]
                          \/ CallKnown(known, call'[d]) /\ call'[d].step # "writing"
    <3>1. call'[c] = v /\ \A d \in Client \ {c} : call'[d] = call[d]
      BY <2>1, Parts
    <3>2. CallKnown(known, v)
      BY <1>1, <2>2, LayerFacts DEF CallKnown, Loaded
    <3> QED BY <2>2, <3>1, <3>2
  <2>5. Layer(log, chain', entry, states, call, known)
    <3> HIDE DEF i
    <3> QED BY <1>1, <2>1, <2>3, Parts, EnqueueLayer
  <2>6. NamedLoads(chain')
    <3>1. IInv'
      BY CheckStep
    <3> QED BY <3>1, NamedFacts DEF IInv
  <2> QED BY <1>1, <1>3, <2>1, <2>4, <2>5, <2>6, QuietLayer
<1> QED BY <1>4, <1>5

\* A check is back: what it answers is no older than what the caller knew.
LEMMA CheckDoneLayer ==
  ASSUME IInv2, NEW i \in Id, CheckDone(i)
  PROVE  LayerNext /\ served' = "fresh"
<1> USE DEF IInv2
<1> DEFINE c == Head1(i).client
<1>1. /\ chain[i] # <<>> /\ Dequeue(i) /\ Head1(i).op = "check"
      /\ UNCHANGED <<log, states, known>>
  BY DEF CheckDone, Runs
<1>2. /\ c \in Client /\ call[c].id = i /\ call[c] \in Call /\ NoOps(chain', c)
      /\ Good(log, chain', entry, states, live, call) /\ call[c].step = "checking"
  BY <1>1, OwnerFacts
<1>3. Layer(log, chain', entry, states, call, known) /\ NamedLoads(chain')
  BY <1>1, HeadLayer
<1>4. call[c].floor <= call[c].source.len /\ call[c].floor \in Nat /\ call[c].source.len \in Nat
      /\ call[c].floor <= known[call[c].id]
  BY <1>2, LayerFacts DEF CallKnown, Loaded
<1> HIDE DEF c
<1>5. CASE SetPool(Unpin(Pool, c)) /\ Finish(c) /\ UNCHANGED served
  <2>1. call' = Ended(call, c)
    BY <1>2, <1>5, Parts DEF Finish, Ended
  <2>2. Same(entry, entry')
    BY <1>2, <1>5, UnpinSame
  <2> QED BY <1>1, <1>2, <1>3, <1>5, <2>1, <2>2, RestLayer, QuietLayer
<1>6. CASE Deliver(c)
  <2>1. Same(entry, entry')
    BY <1>6, <1>2, PoolSame DEF Deliver
  <2>2. ~(call[c].source.len < call[c].floor)
    BY <1>4
  <2>3. served' = "fresh"
    BY <1>6, <2>2 DEF Deliver, Answer
  <2>4. \A d \in Client : \/ call'[d] = call[d]
                          \/ CallKnown(known, call'[d]) /\ call'[d].step # "writing"
    <3>1. CASE Finish(c)
      <4>1. call' = Ended(call, c)
        BY <1>2, <3>1, Parts DEF Finish, Ended
      <4> QED BY <1>2, <4>1, RestLayer
    <3>2. CASE call' = [call EXCEPT ![c].step = "leasing"]
      <4> DEFINE v == [call[c] EXCEPT !.step = "leasing"]
      <4>1. call'[c] = v /\ \A d \in Client \ {c} : call'[d] = call[d]
        BY <1>2, <3>2, Parts
      <4>2. /\ v.step = "leasing" /\ v.source = call[c].source /\ v.id = call[c].id
            /\ v.floor = call[c].floor
        BY <1>2 DEF Call
      <4> HIDE DEF v
      <4>3. CallKnown(known, v)
        BY <1>4, <4>2 DEF CallKnown
      <4> QED BY <4>1, <4>2, <4>3
    <3> QED BY <1>6, <3>1, <3>2 DEF Deliver
  <2> QED BY <1>1, <1>3, <2>1, <2>3, <2>4, QuietLayer
<1>7. CASE /\ SetPool(IF Current(c) THEN Remove(Pool, i) ELSE Pool)
           /\ Go(c, "top") /\ UNCHANGED served
  <2>1. call' = Restarted(call, c)
    BY <1>2, <1>7, Parts DEF Go, Restarted
  <2>2. Same(entry, entry')
    BY <1>7, PoolSame
  <2> QED BY <1>1, <1>2, <1>3, <1>7, <2>1, <2>2, RestLayer, QuietLayer
<1> QED BY <1>5, <1>6, <1>7 DEF CheckDone, c

\* A resume or a load takes the ready entry, waits, or starts over.
LEMMA ReserveLayer ==
  ASSUME IInv2, NEW c \in Client, Reserve(c)
  PROVE  LayerNext
<1> USE DEF IInv2
<1> DEFINE i == call[c].id
<1>1. /\ call[c] \in Call /\ i \in Id /\ call[c].step \in {"loaded", "settling"}
      /\ UNCHANGED <<log, states, known>>
  BY Parts, FreeFacts DEF Reserve
<1>2. /\ call[c].floor <= known[i] /\ call[c].floor <= call[c].source.len
      /\ call[c].floor \in Nat /\ known[i] \in Nat /\ entry[i].source.len \in Nat
  BY <1>1, LayerFacts DEF CallKnown, Loaded
<1>3. CASE Go(c, "top") /\ UNCHANGED <<entry, chain>>
  <2>1. call' = Restarted(call, c)
    BY <1>3, Parts DEF Go, Restarted
  <2>2. /\ Layer(log, chain', entry, states, call, known) /\ NamedLoads(chain')
        /\ Same(entry, entry')
    BY <1>3, LayerFacts
  <2> QED BY <1>1, <2>1, <2>2, RestLayer, QuietLayer
<1>4. CASE call' = [call EXCEPT ![c].step = "settling"] /\ UNCHANGED <<entry, chain>>
  <2> DEFINE v == [call[c] EXCEPT !.step = "settling"]
  <2>1. call'[c] = v /\ \A d \in Client \ {c} : call'[d] = call[d]
    BY <1>4, Parts
  <2>2. /\ v.step = "settling" /\ v.source = call[c].source /\ v.id = i
        /\ v.floor = call[c].floor
    BY <1>1 DEF Call
  <2> HIDE DEF v
  <2>3. CallKnown(known, v)
    BY <1>2, <2>2 DEF CallKnown
  <2>4. /\ Layer(log, chain', entry, states, call, known) /\ NamedLoads(chain')
        /\ Same(entry, entry')
    BY <1>4, LayerFacts
  <2> QED BY <1>1, <2>1, <2>2, <2>3, <2>4, QuietLayer
<1>5. CASE /\ entry[i].phase = "ready"
           /\ entry' = [entry EXCEPT ![i].phase = "committing"]
           /\ Enqueue(i, "commit", c, call[c].tag)
           /\ call' = [call EXCEPT ![c].step = "committing", ![c].source = entry[i].source]
  <2> DEFINE x == [entry[i] EXCEPT !.phase = "committing"]
             v == [call[c] EXCEPT !.step = "committing", !.source = entry[i].source]
             o == [op |-> "commit", client |-> c, tag |-> call[c].tag]
  <2>1. /\ entry'[i] = x /\ \A j \in Id \ {i} : entry'[j] = entry[j]
        /\ call'[c] = v /\ \A d \in Client \ {c} : call'[d] = call[d]
        /\ chain' = [chain EXCEPT ![i] = Append(chain[i], o)]
    BY <1>1, <1>5, Parts DEF Enqueue
  <2>2. entry[i] \in PoolEntry
    BY <1>1, <1>5, Parts DEF NoEntry
  <2>3. /\ x.tag = entry[i].tag /\ x.source = entry[i].source /\ x.phase = "committing"
        /\ v.step = "committing" /\ v.source = entry[i].source /\ v.id = i
        /\ v.floor = call[c].floor /\ o \in Operation /\ o.op = "commit"
    BY <1>1, <2>2 DEF PoolEntry, Call, Operation
  <2> HIDE DEF x, v, o
  <2>4. /\ WritesAt(chain, entry, states, call, i) /\ LoadsAt(chain, entry, i)
        /\ KnownAt(log, entry, known, i)
    BY <1>1, LayerFacts
  <2>5. LayerAt(log, chain, entry', states, call, known, i)
    <3>1. WritesAt(chain, entry', states, call, i)
      BY <1>5, <2>1, <2>3, <2>4 DEF WritesAt, Held
    <3>2. LoadsAt(chain, entry', i)
      BY <1>5, <2>1, <2>3, <2>4 DEF LoadsAt, Held
    <3>3. KnownAt(log, entry', known, i)
      BY <1>5, <2>1, <2>3, <2>4 DEF KnownAt, Held
    <3> QED BY <3>1, <3>2, <3>3 DEF LayerAt
  <2>6. Layer(log, chain, entry', states, call, known)
    BY <1>1, <2>1, <2>5, EntryLayer
  <2>7. CallKnown(known, v)
    <3>1. known[i] <= entry[i].source.len
      BY <1>5, <2>4 DEF KnownAt, Held
    <3>2. call[c].floor <= entry[i].source.len
      BY <1>2, <3>1
    <3> QED BY <1>2, <2>3, <3>2 DEF CallKnown
  <2>8. Layer(log, chain, entry', states, call', known)
    <3>1. \A d \in Client : \/ call'[d] = call[d]
                            \/ CallKnown(known, call'[d]) /\ call'[d].step # "writing"
      BY <2>1, <2>3, <2>7
    <3> QED BY <2>6, <3>1, CallsLayer
  <2>9. Layer(log, chain', entry', states, call', known)
    <3> HIDE DEF i
    <3> QED BY <1>1, <2>1, <2>3, <2>8, Parts, EnqueueLayer
  <2> QED BY <1>1, <2>9 DEF LayerNext
<1> QED BY <1>3, <1>4, <1>5 DEF Reserve

\* A log grows, perhaps by what the process writes or reads, and the state of
\* its id changes.
LEMMA GrowLayer ==
  ASSUME IInv2, Layer(log, chain', entry, states, call, known), NamedLoads(chain'),
         Same(entry, entry'), call' \in [Client -> Call],
         \A d \in Client : \/ call'[d] = call[d]
                           \/ CallKnown(known, call'[d]) /\ call'[d].step # "writing",
         NEW i \in Id, NEW l \in Log, log[i].len <= l.len, log' = [log EXCEPT ![i] = l],
         NEW n \in Nat, n = known[i] \/ (known[i] <= n /\ n <= l.len /\ entry'[i].phase \notin Held),
         known' = [known EXCEPT ![i] = n],
         states' = states \/ (NoWrites(chain', call, i) /\ \A j \in Id \ {i} : states'[j] = states[j])
  PROVE  LayerNext
<1>1. Layer(log, chain', entry', states, call, known)
  BY SameKeeps
<1>2. /\ Layer(log, chain', entry', states, call', known)
      /\ NoWrites(chain', call, i) => NoWrites(chain', call', i)
  BY <1>1, CallsLayer
<1>3. Layer(log, chain', entry', states', call', known)
  <2>1. CASE states' = states
    BY <1>2, <2>1
  <2>2. CASE NoWrites(chain', call, i) /\ \A j \in Id \ {i} : states'[j] = states[j]
    BY <1>2, <2>2, StateLayer
  <2> QED BY <2>1, <2>2
<1>4. /\ log \in [Id -> Log] /\ known \in [Id -> Nat] /\ \A c \in Client : call'[c] \in Call
  BY Parts DEF IInv2
<1>5. Layer(log', chain', entry', states', call', known')
  BY <1>3, <1>4, LogLayer
<1> QED BY <1>5 DEF LayerNext

\* A commit: a repair is known and takes the entry, a grant keeps its source.
LEMMA CommitDoneLayer ==
  ASSUME IInv2, NEW i \in Id, CommitDone(i)
  PROVE  LayerNext /\ served' = "fresh"
<1> USE DEF IInv2
<1> DEFINE c == Head1(i).client
<1>1. chain[i] # <<>> /\ Dequeue(i) /\ Head1(i).op = "commit"
  BY DEF CommitDone, Runs
<1>2. /\ c \in Client /\ call[c].id = i /\ call[c] \in Call /\ NoOps(chain', c)
      /\ call[c].step = "committing" /\ OpInv(log, entry, live, call, i, Head1(i))
  BY <1>1, OwnerFacts
<1>3. /\ Layer(log, chain', entry, states, call, known) /\ NamedLoads(chain')
      /\ NoWrites(chain', call, i)
  BY <1>1, HeadLayer
<1>4. /\ call[c].floor <= call[c].source.len /\ call[c].floor \in Nat
      /\ call[c].source.len \in Nat /\ call[c].floor <= known[call[c].id]
      /\ known[i] \in Nat /\ log[i].len \in Nat /\ known[i] <= log[i].len
  BY <1>2, LayerFacts DEF CallKnown, Loaded, KnownAt
<1>5. UpToDate(i, call[c].source) => /\ entry[i].phase = "committing" /\ entry[i] # NoEntry
                                     /\ Current(c)
  BY <1>1, <1>2, <1>4 DEF OpInv, UpToDate, Current, NoEntry
<1>6. /\ Finish(c) => call' = Ended(call, c)
      /\ Go(c, "top") => call' = Restarted(call, c)
  BY <1>2, Parts DEF Finish, Go, Ended, Restarted
<1>7. Finish(c) \/ Go(c, "top") =>
        \A d \in Client : \/ call'[d] = call[d]
                          \/ CallKnown(known, call'[d]) /\ call'[d].step # "writing"
  BY <1>2, <1>6, RestLayer
<1> HIDE DEF c
<1>8. CASE /\ SetPool(IF Current(c) THEN Remove(Pool, i) ELSE Pool)
           /\ Finish(c) \/ Go(c, "top")
           /\ UNCHANGED <<log, states, known, served>>
  <2>1. Same(entry, entry')
    BY <1>8, PoolSame
  <2> QED BY <1>3, <1>7, <1>8, <2>1, QuietLayer
<1>9. CASE /\ UpToDate(i, call[c].source) /\ call[c].source.turn = "open"
           /\ log' = [log EXCEPT ![i] = [len |-> @.len + 1, turn |-> "closed"]]
           /\ known' = [known EXCEPT ![i] = log[i].len + 1]
           /\ SetPool(IF Current(c) THEN Remove(Pool, i) ELSE Pool)
           /\ Go(c, "top") /\ UNCHANGED <<states, served>>
  <2>1. Same(entry, entry') /\ entry'[i] = NoEntry
    BY <1>5, <1>9, PoolSame
  <2>2. entry'[i].phase \notin Held
    BY <2>1 DEF NoEntry, Held
  <2> DEFINE n == log[i].len + 1
             l == [len |-> n, turn |-> "closed"]
  <2>3. n \in Nat /\ log[i].len <= n /\ known[i] <= n
    BY <1>4
  <2>4. log' = [log EXCEPT ![i] = l] /\ known' = [known EXCEPT ![i] = n]
    BY <1>9
  <2> HIDE DEF n
  <2>5. l \in Log /\ l.len = n /\ n <= n
    BY <2>3 DEF Log
  <2> HIDE DEF l
  <2>6. call' \in [Client -> Call]
    BY CommitDoneStep, Parts DEF IInv, Good, Types
  <2> QED BY <1>3, <1>7, <1>9, <2>1, <2>2, <2>3, <2>4, <2>5, <2>6, GrowLayer
<1>10. CASE /\ UpToDate(i, call[c].source)
            /\ states' = [states EXCEPT ![i] =
                 [cursor |-> call[c].source.len, owner |-> "none"]]
            /\ Grant(c, i) /\ UNCHANGED <<log, known>>
  <2>1. Layer(log, chain', entry, states', call, known)
    <3>1. \A j \in Id \ {i} : states'[j] = states[j]
      BY <1>10, Parts
    <3> QED BY <1>3, <3>1, StateLayer
  <2>2. entry[i] \in PoolEntry /\ entry[i] # NoEntry /\ entry[i].phase = "committing"
    BY <1>5, <1>10, Parts
  <2>3. ASSUME NEW x, x.tag = entry[i].tag, x.source = entry[i].source,
               x.phase \in {"ready", "reserved"},
               NEW F, F = [entry EXCEPT ![i] = x]
        PROVE  Layer(log, chain', F, states', call, known)
    <3>1. F[i] = x /\ \A j \in Id \ {i} : F[j] = entry[j]
      BY <2>3, Parts
    <3>2. LayerAt(log, chain', entry, states', call, known, i)
      BY <2>1 DEF Layer
    <3>3. WritesAt(chain', F, states', call, i)
      BY <1>3 DEF WritesAt, NoWrites
    <3>4. LoadsAt(chain', F, i)
      BY <2>2, <3>2 DEF LayerAt, LoadsAt, Held
    <3>5. KnownAt(log, F, known, i)
      BY <2>2, <2>3, <3>1, <3>2 DEF LayerAt, KnownAt, Held
    <3>6. LayerAt(log, chain', F, states', call, known, i)
      BY <3>3, <3>4, <3>5 DEF LayerAt
    <3> QED BY <2>1, <3>1, <3>6, EntryLayer
  <2>4. ASSUME Layer(log, chain', entry', states', call, known),
               \A d \in Client : \/ call'[d] = call[d]
                                 \/ CallKnown(known, call'[d]) /\ call'[d].step # "writing"
        PROVE  LayerNext
    <3>1. Layer(log, chain', entry', states', call', known)
      BY <2>4, CallsLayer
    <3> QED BY <1>10, <3>1 DEF LayerNext
  <2>5. CASE /\ SetPool([Pool EXCEPT !.entry[i].phase = "reserved"])
             /\ call' = [call EXCEPT ![c].step = "holding"] /\ UNCHANGED served
    <3> DEFINE x == [entry[i] EXCEPT !.phase = "reserved"]
               v == [call[c] EXCEPT !.step = "holding"]
    <3>1. entry' = [entry EXCEPT ![i] = x] /\ call' = [call EXCEPT ![c] = v]
      <4>1. entry' = [entry EXCEPT ![i].phase = "reserved"]
        BY <2>5 DEF SetPool, Pool
      <4> QED BY <2>5, <4>1
    <3>2. /\ x.tag = entry[i].tag /\ x.source = entry[i].source /\ x.phase = "reserved"
          /\ v.step = "holding" /\ v.source = call[c].source /\ v.id = call[c].id
          /\ v.floor = call[c].floor
      BY <1>2, <2>2 DEF PoolEntry, Call
    <3> HIDE DEF x, v
    <3>3. CallKnown(known, v)
      BY <1>4, <3>2 DEF CallKnown
    <3>4. call'[c] = v /\ \A d \in Client \ {c} : call'[d] = call[d]
      BY <1>2, <3>1, Parts
    <3>5. Layer(log, chain', entry', states', call, known)
      BY <2>3, <3>1, <3>2
    <3> QED BY <2>4, <2>5, <3>2, <3>3, <3>4, <3>5
  <2>6. CASE SetPool(MakeReady(Pool, i)) /\ Finish(c) /\ UNCHANGED served
    <3> DEFINE y == [entry[i] EXCEPT !.phase = "ready"]
               F == [entry EXCEPT ![i] = y]
               q == MakeReady(Pool, i)
    <3>1. y.tag = entry[i].tag /\ y.source = entry[i].source /\ y.phase = "ready"
      BY <2>2 DEF PoolEntry
    <3>2. Trims(F, q.entry) /\ entry' = q.entry
      <4>1. PoolOK(Pool) /\ Pool.entry[i] # NoEntry /\ Bounded(Pool.entry) /\ Pool.entry = entry
        BY <2>2, Parts
      <4>2. entry' = q.entry
        BY <2>6 DEF SetPool
      <4> HIDE DEF q
      <4>3. Trims([Pool.entry EXCEPT ![i] = [Pool.entry[i] EXCEPT !.phase = "ready"]], q.entry)
        BY <4>1, MakeReadyFacts DEF q
      <4> QED BY <4>1, <4>2, <4>3
    <3> HIDE DEF y, q
    <3>3. F = [entry EXCEPT ![i] = y]
      OBVIOUS
    <3> HIDE DEF F
    <3>4. Layer(log, chain', F, states', call, known)
      BY <2>3, <3>1, <3>3
    <3>5. Layer(log, chain', entry', states', call, known)
      BY <1>3, <3>2, <3>4, TrimSame, SameKeeps
    <3> QED BY <1>7, <2>4, <2>6, <3>5
  <2>7. CASE SetPool(Remove(Pool, i)) /\ Finish(c) /\ Answer(c, call[c].source.len)
    <3>1. Same(entry, entry')
      BY <2>7, PoolSame
    <3>2. Layer(log, chain', entry', states', call, known)
      BY <1>3, <2>1, <3>1, SameKeeps
    <3>3. ~(call[c].source.len < call[c].floor)
      BY <1>4
    <3>4. served' = "fresh"
      BY <2>7, <3>3 DEF Answer
    <3> QED BY <1>7, <2>4, <2>7, <3>2, <3>4
  <2> QED BY <1>10, <2>5, <2>6, <2>7 DEF Grant
<1> QED BY <1>5, <1>8, <1>9, <1>10 DEF CommitDone, c

\* A resume publishes its session, or lets the reservation go.
LEMMA ResumeLayer ==
  ASSUME IInv2, NEW c \in Client, Publish(c) \/ Release(c)
  PROVE  LayerNext
<1> USE DEF IInv2
<1> DEFINE i == call[c].id
<1>1. /\ call[c] \in Call /\ i \in Id /\ call[c].step = "holding"
      /\ call' = Ended(call, c) /\ UNCHANGED <<log, known>>
  BY Parts, FreeFacts DEF Publish, Release, Finish, Ended
<1>2. entry[i].phase = "reserved" /\ entry[i] # NoEntry /\ entry[i] \in PoolEntry
  <2>1. c \in HoldersOf(call, i)
    BY <1>1 DEF HoldersOf
  <2>2. ReservedAt(log, entry, states, live, call, i)
    BY <1>1, Parts DEF Good, ReservedInv
  <2>3. entry[i].phase = "reserved" /\ entry[i] # NoEntry
    BY <2>1, <2>2 DEF ReservedAt, NoEntry
  <2> QED BY <1>1, <2>3, Parts
<1>3. /\ WritesAt(chain, entry, states, call, i) /\ LoadsAt(chain, entry, i)
      /\ KnownAt(log, entry, known, i) /\ NamedLoads(chain)
      /\ Layer(log, chain, entry, states, call, known)
  BY <1>1, LayerFacts
<1>4. NoWrites(chain, call, i)
  BY <1>2, <1>3 DEF WritesAt, NoWrites
<1>5. \A d \in Client : \/ call'[d] = call[d]
                        \/ CallKnown(known, call'[d]) /\ call'[d].step # "writing"
  BY <1>1, RestLayer
<1>6. CASE Publish(c)
  <2> DEFINE o == [op |-> "init", client |-> "none", tag |-> 0]
  <2>1. /\ SetPool(Remove(Pool, i)) /\ \A j \in Id \ {i} : states'[j] = states[j]
        /\ chain' = chain \/ chain' = [chain EXCEPT ![i] = Append(chain[i], o)]
    BY <1>1, <1>6, Parts DEF Publish, Enqueue
  <2>2. Same(entry, entry')
    BY <1>1, <2>1, PoolSame
  <2>3. Layer(log, chain, entry', states', call', known)
    <3>1. Layer(log, chain, entry', states, call, known)
      BY <1>3, <2>2, SameKeeps
    <3>2. Layer(log, chain, entry', states', call, known)
      <4> HIDE DEF i
      <4> QED BY <1>1, <1>4, <2>1, <3>1, StateLayer
    <3> QED BY <1>5, <3>2, CallsLayer
  <2>4. o \in Operation /\ o.op = "init"
    BY DEF Operation
  <2> HIDE DEF o, i
  <2>5. Layer(log, chain', entry', states', call', known)
    <3>1. CASE chain' = chain
      BY <2>3, <3>1
    <3>2. CASE chain' = [chain EXCEPT ![i] = Append(chain[i], o)]
      BY <1>1, <2>3, <2>4, <3>2, Parts, EnqueueLayer
    <3> QED BY <2>1, <3>1, <3>2
  <2> QED BY <1>1, <2>5 DEF LayerNext
<1>7. CASE Release(c)
  <2>1. chain' = chain /\ states' = states
    BY <1>7 DEF Release
  <2>2. CASE SetPool(Remove(Pool, i))
    <3>1. Same(entry, entry')
      BY <1>1, <2>2, PoolSame
    <3> QED BY <1>1, <1>3, <1>5, <2>1, <3>1, QuietLayer
  <2>3. CASE SetPool(MakeReady(Pool, i))
    <3> DEFINE y == [entry[i] EXCEPT !.phase = "ready"]
               F == [entry EXCEPT ![i] = y]
               q == MakeReady(Pool, i)
    <3>1. y.tag = entry[i].tag /\ y.source = entry[i].source /\ y.phase = "ready"
      BY <1>2 DEF PoolEntry
    <3>2. Trims(F, q.entry) /\ entry' = q.entry
      <4>1. PoolOK(Pool) /\ Pool.entry[i] # NoEntry /\ Bounded(Pool.entry) /\ Pool.entry = entry
        BY <1>2, Parts
      <4>2. entry' = q.entry
        BY <2>3 DEF SetPool
      <4> HIDE DEF q
      <4>3. Trims([Pool.entry EXCEPT ![i] = [Pool.entry[i] EXCEPT !.phase = "ready"]], q.entry)
        BY <1>1, <4>1, MakeReadyFacts DEF q
      <4> QED BY <4>1, <4>2, <4>3
    <3>3. F[i] = y /\ \A j \in Id \ {i} : F[j] = entry[j]
      BY <1>1, Parts
    <3> HIDE DEF y, q, F
    <3>4. LayerAt(log, chain, F, states, call, known, i)
      <4>1. WritesAt(chain, F, states, call, i)
        BY <1>4 DEF WritesAt, NoWrites
      <4>2. LoadsAt(chain, F, i)
        BY <1>2, <1>3 DEF LoadsAt, Held
      <4>3. KnownAt(log, F, known, i)
        BY <1>2, <1>3, <3>1, <3>3 DEF KnownAt, Held
      <4> QED BY <4>1, <4>2, <4>3 DEF LayerAt
    <3>5. Layer(log, chain, F, states, call, known)
      BY <1>1, <1>3, <3>3, <3>4, EntryLayer
    <3>6. Layer(log, chain, entry', states, call, known)
      BY <1>3, <3>2, <3>5, TrimSame, SameKeeps
    <3>7. Layer(log, chain, entry', states, call', known)
      BY <1>5, <3>6, CallsLayer
    <3> QED BY <1>1, <2>1, <3>7 DEF LayerNext
  <2> QED BY <1>7, <2>2, <2>3 DEF Release
<1> QED BY <1>6, <1>7

\* A caller takes back its operation.
LEMMA UnqueuedLayer ==
  ASSUME IInv2, NEW c \in Client, Queued(c), call[c].step # "holding", chain' = Unqueued(c)
  PROVE  /\ Layer(log, chain', entry, states, call, known) /\ NamedLoads(chain')
         /\ Good(log, chain', entry, states, live, call) /\ NoOps(chain', c)
<1> DEFINE i == call[c].id
           k == Place(c)
           w == Seqs!RemoveAt(chain[i], k)
<1>1. IInv /\ Layer(log, chain, entry, states, call, known)
  BY DEF IInv2
<1>2. i \in Id /\ chain \in [Id -> Seq(Operation)] /\ chain[i] \in Seq(Operation)
  BY <1>1, Parts, FreeFacts
<1>3. Good(log, chain', entry, states, live, call) /\ NoOps(chain', c)
  BY <1>1, QueuedFacts
<1>4. k \in DOMAIN chain[i]
  <2>1. PICK l \in 2..Len(chain[i]) : chain[i][l].client = c
    BY DEF Queued
  <2>2. l \in DOMAIN chain[i]
    BY <1>2, <2>1
  <2> QED BY <2>1, <2>2 DEF Place
<1>5. Drops(chain[i], k, w) /\ chain' = Cleared(chain, i, w)
  BY <1>2, <1>4, DropFacts DEF Unqueued, Cleared
<1> HIDE DEF i, k, w
<1>6. Layer(log, chain', entry, states, call, known)
  BY <1>1, <1>2, <1>4, <1>5, DropLayer
<1> QED BY <1>3, <1>6, NamedFacts

\* A caller gives up.
LEMMA AbortLayer ==
  ASSUME IInv2, NEW c \in Client, Abort(c)
  PROVE  LayerNext
<1> USE DEF IInv2
<1> DEFINE i == call[c].id
<1>1. /\ call[c] \in Call /\ i \in Id /\ call' = Ended(call, c)
      /\ UNCHANGED <<log, states, known>>
      /\ call[c].step \notin {"committing", "checking", "appending", "writing"} => NoOps(chain, c)
  BY Parts, FreeFacts DEF Abort, Finish, Ended
<1>2. \A d \in Client : \/ call'[d] = call[d]
                        \/ CallKnown(known, call'[d]) /\ call'[d].step # "writing"
  BY <1>1, RestLayer
<1>3. Good(log, chain, entry, states, live, call)
  BY Parts
<1>4. CASE Same(entry, entry') /\ UNCHANGED chain
  <2>1. Layer(log, chain', entry, states, call, known) /\ NamedLoads(chain')
    BY <1>4, LayerFacts
  <2> QED BY <1>1, <1>2, <1>4, <2>1, QuietLayer
<1>5. CASE /\ call[c].step \in {"top", "loading", "loaded", "settling"}
           /\ SetPool(Unpin(Pool, c)) /\ UNCHANGED chain
  <2>1. NoOps(chain', c) /\ Good(log, chain', entry, states, live, call)
    BY <1>1, <1>3, <1>5
  <2>2. Same(entry, entry')
    BY <1>5, <2>1, UnpinSame
  <2> QED BY <1>4, <1>5, <2>2
<1>6. CASE /\ call[c].step = "loaded" /\ SetPool(Unpin(Touched(c), c)) /\ UNCHANGED chain
  <2> DEFINE q == Touched(c)
             r == Unpin(q, c)
  <2>1. /\ PoolOK(q) /\ Bounded(q.entry) /\ Trims(entry, q.entry) /\ NoOps(chain, c)
        /\ Good(log, chain, q.entry, states, live, call)
    BY <1>1, <1>6, TouchedFacts
  <2>2. entry' = r.entry
    BY <1>6 DEF SetPool
  <2> HIDE DEF q, r
  <2>3. Same(entry, q.entry)
    BY <2>1, TrimSame
  <2>4. Same(q.entry, r.entry) /\ PoolOK(r)
    BY <1>1, <1>6, <2>1, UnpinKeeps DEF r
  <2>5. ASSUME NEW j \in Id PROVE r.entry[j] = NoEntry \/ r.entry[j].tag # 0
    BY <2>4 DEF PoolOK, PoolEntry, Tag
  <2>6. Same(entry, entry')
    BY <2>2, <2>3, <2>4, <2>5 DEF Same, NoEntry
  <2> QED BY <1>4, <1>6, <2>6
<1>7. CASE SetPool(Remove(Pool, i)) /\ UNCHANGED chain
  <2>1. Same(entry, entry')
    BY <1>1, <1>7, PoolSame
  <2> QED BY <1>4, <1>7, <2>1
<1>8. CASE /\ call[c].step = "checking" /\ Queued(c)
           /\ SetPool(Unpin(Pool, c)) /\ chain' = Unqueued(c)
  <2>1. /\ Layer(log, chain', entry, states, call, known) /\ NamedLoads(chain')
        /\ Good(log, chain', entry, states, live, call) /\ NoOps(chain', c)
    BY <1>8, UnqueuedLayer
  <2>2. Same(entry, entry')
    BY <1>8, <2>1, UnpinSame
  <2> QED BY <1>1, <1>2, <2>1, <2>2, QuietLayer
<1>9. CASE /\ call[c].step = "committing" /\ Queued(c)
           /\ SetPool(IF Current(c) THEN Remove(Pool, i) ELSE Pool)
           /\ chain' = Unqueued(c)
  <2>1. Layer(log, chain', entry, states, call, known) /\ NamedLoads(chain')
    BY <1>9, UnqueuedLayer
  <2>2. Same(entry, entry')
    BY <1>1, <1>9, PoolSame
  <2> QED BY <1>1, <1>2, <2>1, <2>2, QuietLayer
<1> QED BY <1>5, <1>6, <1>7, <1>8, <1>9 DEF Abort

\* An operation fails.
LEMMA FailsLayer ==
  ASSUME IInv2, NEW i \in Id, OperationFails(i)
  PROVE  LayerNext
<1> USE DEF IInv2
<1> DEFINE o == Head1(i)
           c == o.client
<1>1. chain[i] # <<>> /\ Dequeue(i) /\ UNCHANGED <<log, states, known>>
  BY DEF OperationFails
<1>2. Layer(log, chain', entry, states, call, known) /\ NamedLoads(chain')
  BY <1>1, HeadLayer
<1>3. o \in Operation
  BY <1>1, HeadFacts
<1>4. ASSUME Same(entry, entry'),
             \A d \in Client : \/ call'[d] = call[d]
                               \/ CallKnown(known, call'[d]) /\ call'[d].step # "writing"
      PROVE  LayerNext
  BY <1>1, <1>2, <1>4, QuietLayer
<1>5. CASE o.op = "load"
  <2>1. /\ SetPool(IF entry[i].tag = o.tag THEN Remove(Pool, i) ELSE Pool)
        /\ call' = [d \in Client |->
             IF d \in Waiters(i, o.tag) THEN NoCall(i) ELSE call[d]]
    BY <1>5 DEF OperationFails
  <2>2. Same(entry, entry')
    BY <2>1, PoolSame
  <2>3. CallKnown(known, NoCall(i)) /\ NoCall(i).step # "writing"
    <3>1. known[i] \in Nat
      BY LayerFacts
    <3> QED BY <3>1 DEF CallKnown, NoCall, Loaded
  <2> QED BY <1>4, <2>1, <2>2, <2>3
<1>6. ASSUME o.op \in {"commit", "check", "append"}, Finish(c)
      PROVE  \A d \in Client : \/ call'[d] = call[d]
                               \/ CallKnown(known, call'[d]) /\ call'[d].step # "writing"
  <2>1. c \in Client
    BY <1>1, <1>6, OwnerFacts
  <2> HIDE DEF c
  <2>2. call' = Ended(call, c)
    BY <1>6, Parts DEF Finish, Ended
  <2> QED BY <2>1, <2>2, RestLayer
<1>7. CASE o.op = "commit"
  <2>1. SetPool(IF Current(c) THEN Remove(Pool, i) ELSE Pool) /\ Finish(c)
    BY <1>7 DEF OperationFails
  <2>2. Same(entry, entry')
    BY <2>1, PoolSame
  <2> QED BY <1>4, <1>6, <1>7, <2>1, <2>2
<1>8. CASE o.op = "check"
  <2>1. SetPool(Unpin(Pool, c)) /\ Finish(c)
    BY <1>8 DEF OperationFails
  <2>2. /\ c \in Client /\ NoOps(chain', c) /\ call[c].step = "checking"
        /\ Good(log, chain', entry, states, live, call)
    BY <1>1, <1>8, OwnerFacts
  <2>3. Same(entry, entry')
    <3> HIDE DEF c
    <3> QED BY <2>1, <2>2, UnpinSame
  <2> QED BY <1>4, <1>6, <1>8, <2>1, <2>3
<1>9. CASE o.op = "append"
  <2>1. Finish(c) /\ UNCHANGED entry
    BY <1>9 DEF OperationFails
  <2> QED BY <1>4, <1>6, <1>9, <2>1, LayerFacts
<1>10. CASE o.op \in {"init", "write"}
  <2>1. UNCHANGED <<entry, call>>
    BY <1>10 DEF OperationFails
  <2> QED BY <1>4, <2>1, LayerFacts
<1> QED BY <1>3, <1>5, <1>7, <1>8, <1>9, <1>10 DEF OperationFails, Operation

\* An append starts to write: it runs first, and of an id to adopt nothing is
\* left in the pool that a caller could take.
LEMMA AppendStartsLayer ==
  ASSUME IInv2, NEW i \in Id, AppendStarts(i)
  PROVE  LayerNext
<1> USE DEF IInv2
<1> DEFINE c == Head1(i).client
           q == TakeReady(i)
<1>1. /\ c \in Client /\ call[c].id = i /\ call[c].step = "appending"
      /\ UNCHANGED <<log, states, known>> /\ chain[i] # <<>>
  BY AppenderFacts DEF AppendStarts, Runs
<1>2. 1 \in DOMAIN chain[i] /\ chain[i][1].client = c /\ chain[i][1].op = "append"
  <2>1. chain[i] \in Seq(Operation)
    BY Parts
  <2>2. 1 \in DOMAIN chain[i] /\ Head(chain[i]) = chain[i][1]
    BY <1>1, <2>1, DropFacts
  <2> QED BY <2>2 DEF AppendStarts, Runs, Head1
<1> HIDE DEF c
<1>3. CASE Dequeue(i) /\ Finish(c) /\ UNCHANGED entry
  <2>1. call' = Ended(call, c)
    BY <1>3, Parts DEF Finish, Ended
  <2>2. Layer(log, chain', entry, states, call, known) /\ NamedLoads(chain')
    BY <1>1, <1>3, HeadLayer
  <2>3. Same(entry, entry')
    BY <1>3, LayerFacts
  <2> QED BY <1>1, <2>1, <2>2, <2>3, RestLayer, QuietLayer
<1>4. CASE /\ Writable(i) /\ SetPool(q) /\ UNCHANGED chain
           /\ call' = [call EXCEPT ![c].step = "writing"]
  <2>1. SetPool(Remove(Pool, i)) \/ SetPool(Pool)
    BY <1>4 DEF TakeReady
  <2>2. Same(entry, entry')
    BY <2>1, PoolSame
  <2>3. entry'[i].phase # "reserved" /\ (states[i] = NoState => entry'[i].phase \notin Held)
    <3>1. CASE SetPool(Remove(Pool, i))
      <4>1. entry'[i] = NoEntry
        BY <3>1, PoolSame
      <4> QED BY <4>1 DEF NoEntry, Held
    <3>2. CASE q # Remove(Pool, i)
      <4>1. SetPool(Pool) /\ ~(states[i] = NoState /\ entry[i].phase = "ready")
        BY <1>4, <3>2 DEF TakeReady
      <4>2. entry' = entry
        BY <4>1 DEF SetPool, Pool
      <4> QED BY <1>4, <4>1, <4>2 DEF Writable, Held
    <3> QED BY <1>4, <3>1, <3>2
  <2> HIDE DEF q
  <2>4. Layer(log, chain, entry', states, call, known)
    BY <2>2, LayerFacts, SameKeeps
  <2> DEFINE v == [call[c] EXCEPT !.step = "writing"]
  <2>5. call'[c] = v /\ \A d \in Client \ {c} : call'[d] = call[d]
    BY <1>1, <1>4, Parts
  <2>6. v.step = "writing"
    <3>1. call[c] \in Call
      BY <1>1, Parts, FreeFacts
    <3> QED BY <3>1 DEF Call
  <2> HIDE DEF v
  <2>7. ASSUME NEW j \in Id PROVE LayerAt(log, chain, entry', states, call', known, j)
    <3>1. LayerAt(log, chain, entry', states, call, known, j)
      BY <2>4 DEF Layer
    <3>2. ASSUME NEW k \in DOMAIN chain[j], NEW d \in Client, Writes(chain, call', j, k, d)
          PROVE  /\ k = 1 /\ entry'[j].phase # "reserved"
                 /\ states[j] = NoState => entry'[j].phase \notin Held
      <4>1. CASE d # c
        <5>1. Writes(chain, call, j, k, d)
          BY <2>5, <3>2, <4>1 DEF Writes
        <5> QED BY <3>1, <5>1 DEF LayerAt, WritesAt
      <4>2. CASE d = c
        <5>1. /\ chain[j][k].op = "append" /\ chain[j][k].client = c /\ c # "none"
          BY <3>2, <4>2, ActorsAssumption DEF Writes
        <5>2. ChainInv(log, chain, entry, live, call)
          BY Parts DEF Good
        <5>3. OpInv(log, entry, live, call, j, chain[j][k])
          BY <5>2 DEF ChainInv
        <5>4. j = i
          BY <1>1, <5>1, <5>3 DEF OpInv
        <5>5. k = 1
          <6>1. k # 1 => ~Clash(chain[i][k], chain[i][1])
            BY <1>2, <5>2, <5>4 DEF ChainInv
          <6> QED BY <1>2, <5>1, <5>4, <6>1 DEF Clash
        <5> QED BY <2>3, <5>4, <5>5
      <4> QED BY <4>1, <4>2
    <3>3. WritesAt(chain, entry', states, call', j)
      BY <3>2 DEF WritesAt
    <3> QED BY <3>1, <3>3 DEF LayerAt
  <2>8. ASSUME NEW d \in Client PROVE CallKnown(known, call'[d])
    <3>1. CallKnown(known, call[d])
      BY LayerFacts
    <3>2. CASE d = c
      BY <2>5, <2>6, <3>2 DEF CallKnown
    <3> QED BY <2>5, <3>1, <3>2
  <2>9. Layer(log, chain, entry', states, call', known)
    BY <2>7, <2>8 DEF Layer
  <2> QED BY <1>1, <1>4, <2>9 DEF LayerNext
<1> QED BY <1>3, <1>4 DEF AppendStarts, c, q

\* The append that writes runs alone on its id.
LEMMA WriterFacts ==
  ASSUME IInv2, NEW i \in Id, AppendDone(i)
  PROVE  /\ entry[i].phase # "reserved"
         /\ states[i] = NoState => entry[i].phase \notin Held
<1>1. IInv
  BY DEF IInv2
<1> DEFINE c == Head1(i).client
<1>2. c \in Client /\ call[c].step = "writing" /\ chain[i] # <<>>
  BY <1>1, AppenderFacts DEF AppendDone, Runs
<1>3. 1 \in DOMAIN chain[i] /\ chain[i][1].client = c /\ chain[i][1].op = "append"
  <2>1. chain[i] \in Seq(Operation)
    BY <1>1, Parts
  <2>2. 1 \in DOMAIN chain[i] /\ Head(chain[i]) = chain[i][1]
    BY <1>2, <2>1, DropFacts
  <2> QED BY <2>2 DEF AppendDone, Runs, Head1
<1> HIDE DEF c
<1>4. WritesAt(chain, entry, states, call, i)
  BY LayerFacts
<1> QED BY <1>2, <1>3, <1>4 DEF WritesAt, Writes

\* An append that started ends: what it read and wrote is known.
LEMMA AppendDoneLayer ==
  ASSUME IInv2, NEW i \in Id, AppendDone(i)
  PROVE  LayerNext
<1> USE DEF IInv2
<1> DEFINE c == Head1(i).client
           n == IF states[i] = NoState THEN Adopted(i).len ELSE known[i]
<1>1. /\ c \in Client /\ call[c].id = i /\ chain[i] # <<>> /\ Dequeue(i) /\ Finish(c)
      /\ entry[i].phase # "reserved"
      /\ states[i] = NoState => entry[i].phase \notin Held
  BY AppenderFacts, WriterFacts DEF AppendDone, Runs
<1> HIDE DEF c
<1>2. /\ Layer(log, chain', entry, states, call, known) /\ NamedLoads(chain')
      /\ NoWrites(chain', call, i)
  BY <1>1, HeadLayer
<1>3. /\ \A d \in Client : \/ call'[d] = call[d]
                           \/ CallKnown(known, call'[d]) /\ call'[d].step # "writing"
      /\ call' \in [Client -> Call]
  <2>1. call' = Ended(call, c)
    BY <1>1, Parts DEF Finish, Ended
  <2>2. IInv'
    BY <1>1, AppendDoneStep
  <2> QED BY <1>1, <2>1, <2>2, RestLayer DEF IInv, Good, Types
<1>4. /\ Adopted(i) \in Log /\ Adopted(i).len \in Nat /\ log[i].len <= Adopted(i).len
      /\ known[i] \in Nat /\ log[i].len \in Nat /\ known[i] <= log[i].len
      /\ known \in [Id -> Nat]
  <2>1. /\ Adopted(i) \in Log /\ Adopted(i).len \in Nat
        /\ Adopted(i).len > log[i].len \/ Adopted(i) = log[i]
    BY AdoptedFacts
  <2>2. /\ known[i] \in Nat /\ log[i].len \in Nat /\ known[i] <= log[i].len
    BY LayerFacts DEF KnownAt
  <2> QED BY <2>1, <2>2, Parts
<1>5. \A j \in Id \ {i} : states'[j] = states[j]
  BY Parts DEF AppendDone
<1>6. CASE /\ log' = [log EXCEPT ![i] = Adopted(i)]
           /\ known' = IF states[i] = NoState
                       THEN [known EXCEPT ![i] = Adopted(i).len] ELSE known
           /\ UNCHANGED entry
  <2>1. Same(entry, entry')
    BY <1>6, LayerFacts
  <2>2. n \in Nat /\ known' = [known EXCEPT ![i] = n]
    BY <1>4, <1>6
  <2>3. n = known[i] \/ (known[i] <= n /\ n <= Adopted(i).len /\ entry'[i].phase \notin Held)
    BY <1>1, <1>4, <1>6
  <2> HIDE DEF n
  <2> QED BY <1>2, <1>3, <1>4, <1>5, <1>6, <2>1, <2>2, <2>3, GrowLayer
<1>7. CASE /\ \E turn \in {"open", "closed"} :
                log' = [log EXCEPT ![i] = [len |-> Adopted(i).len + 1, turn |-> turn]]
           /\ known' = [known EXCEPT ![i] = Adopted(i).len + 1]
           /\ Invalidate(i)
  <2>1. PICK turn \in {"open", "closed"} :
          log' = [log EXCEPT ![i] = [len |-> Adopted(i).len + 1, turn |-> turn]]
    BY <1>7
  <2> DEFINE m == Adopted(i).len + 1
             l == [len |-> m, turn |-> turn]
  <2>2. m \in Nat /\ log[i].len <= m /\ known[i] <= m /\ known' = [known EXCEPT ![i] = m]
    BY <1>4, <1>7
  <2> HIDE DEF m
  <2>3. l \in Log /\ l.len = m /\ m <= m /\ log' = [log EXCEPT ![i] = l]
    BY <2>1, <2>2 DEF Log, m
  <2> HIDE DEF l
  <2>4. Same(entry, entry') /\ entry'[i] = NoEntry
    BY <1>7, PoolSame DEF Invalidate
  <2>5. entry'[i].phase \notin Held
    BY <2>4 DEF NoEntry, Held
  <2> QED BY <1>2, <1>3, <1>5, <2>2, <2>3, <2>4, <2>5, GrowLayer
<1> QED BY <1>6, <1>7 DEF AppendDone

\* A write of a live session, which has no entry, or its detach.
LEMMA WriteDoneLayer ==
  ASSUME IInv2, NEW i \in Id, WriteDone(i) \/ DetachDone(i)
  PROVE  LayerNext
<1> USE DEF IInv2
<1>1. /\ chain[i] # <<>> /\ Dequeue(i) /\ call' = call
      /\ Head1(i).op \in {"init", "write", "detach"}
  BY DEF WriteDone, DetachDone, Runs
<1>2. /\ Layer(log, chain', entry, states, call, known) /\ NamedLoads(chain')
      /\ NoWrites(chain', call, i)
  BY <1>1, HeadLayer
<1>3. CASE UNCHANGED <<log, states, entry, known>>
  <2>1. Same(entry, entry')
    BY <1>3, LayerFacts
  <2> QED BY <1>1, <1>2, <1>3, <2>1, QuietLayer
<1>4. CASE DetachDone(i)
  <2>1. \A j \in Id \ {i} : states'[j] = states[j]
    BY <1>4, Parts DEF DetachDone
  <2>2. Layer(log, chain', entry, states', call, known)
    BY <1>2, <2>1, StateLayer
  <2> QED BY <1>1, <1>4, <2>2 DEF DetachDone, LayerNext
<1>5. CASE WriteDone(i) /\ ~UNCHANGED <<log, states, entry, known>>
  <2> DEFINE first == Runs(i, "init")
             last == IF first THEN live[i].saved + 1 ELSE live[i].next
             cursor == states[i].cursor
             n == log[i].len + (last - cursor)
             l == [len |-> n, turn |-> "closed"]
  <2>1. live[i].phase \in {"live", "draining"}
    <3>1. OpInv(log, entry, live, call, i, Head1(i))
      BY <1>1, HeadFacts
    <3> QED BY <1>5, <3>1 DEF OpInv, WriteDone, Runs
  <2>2. /\ live[i].next \in Nat /\ live[i].saved \in Nat /\ cursor \in Nat
        /\ known[i] \in Nat /\ log[i].len \in Nat /\ known[i] <= log[i].len
    BY <2>1, LiveFacts, LayerFacts DEF KnownAt
  <2>3. /\ IF first THEN cursor = live[i].saved ELSE cursor < last
        /\ log' = [log EXCEPT ![i] = l] /\ known' = [known EXCEPT ![i] = n]
        /\ \A j \in Id \ {i} : states'[j] = states[j]
        /\ Invalidate(i)
    BY <1>5, Parts DEF WriteDone
  <2>4. cursor < last /\ last \in Nat
    BY <2>2, <2>3
  <2> HIDE DEF first, last, cursor
  <2>5. n \in Nat /\ log[i].len <= n /\ known[i] <= n
    BY <2>2, <2>4
  <2> HIDE DEF n
  <2>6. l \in Log /\ l.len = n /\ n <= n
    BY <2>5 DEF Log
  <2> HIDE DEF l
  <2>7. Same(entry, entry') /\ entry'[i] = NoEntry
    BY <2>3, PoolSame DEF Invalidate
  <2>8. entry'[i].phase \notin Held /\ call' \in [Client -> Call]
    BY <1>1, <2>7, Parts DEF NoEntry, Held
  <2> QED BY <1>1, <1>2, <2>3, <2>5, <2>6, <2>7, <2>8, GrowLayer
<1> QED BY <1>3, <1>4, <1>5

\* A live session grows, retires, or queues its writes and its detach.
LEMMA LiveLayer ==
  ASSUME IInv2, NEW i \in Id, LiveAppend(i) \/ Retire(i) \/ Flush(i) \/ Detach(i)
  PROVE  LayerNext
<1> USE DEF IInv2
<1>1. UNCHANGED <<log, entry, states, call, known>>
  BY DEF LiveAppend, Retire, Flush, Detach
<1>2. CASE LiveAppend(i) \/ Retire(i)
  BY <1>1, <1>2 DEF LayerNext, LiveAppend, Retire
<1>3. ASSUME NEW op \in {"write", "detach"}, Enqueue(i, op, "none", 0)
      PROVE  LayerNext
  <2> DEFINE o == [op |-> op, client |-> "none", tag |-> 0]
  <2>1. o \in Operation /\ o.op = op /\ chain' = [chain EXCEPT ![i] = Append(chain[i], o)]
    BY <1>3 DEF Operation, Enqueue
  <2> HIDE DEF o
  <2>2. Layer(log, chain', entry, states, call, known)
    BY <2>1, Parts, EnqueueLayer
  <2> QED BY <1>1, <2>2 DEF LayerNext
<1> QED BY <1>2, <1>3 DEF Flush, Detach

\* Another process writes, which this one does not know.
LEMMA ElsewhereLayer ==
  ASSUME IInv2, NEW i \in Id, WriteElsewhere(i)
  PROVE  LayerNext
<1> USE DEF IInv2
<1>1. PICK turn \in {"open", "closed"} :
        log' = [log EXCEPT ![i] = [len |-> log[i].len + 1, turn |-> turn]]
  BY DEF WriteElsewhere
<1> DEFINE m == log[i].len + 1
           l == [len |-> m, turn |-> turn]
           n == known[i]
<1>2. /\ log[i].len \in Nat /\ n \in Nat /\ known \in [Id -> Nat]
  BY LayerFacts, Parts
<1>3. m \in Nat /\ log[i].len <= m
  BY <1>2
<1> HIDE DEF m
<1>4. l \in Log /\ log[i].len <= l.len /\ log' = [log EXCEPT ![i] = l]
  BY <1>1, <1>3 DEF Log, m
<1>5. /\ UNCHANGED <<chain, entry, states, call, known>>
      /\ Same(entry, entry') /\ n = known[i] /\ known' = [known EXCEPT ![i] = n]
  BY <1>2, LayerFacts DEF WriteElsewhere
<1> HIDE DEF l, n
<1>6. /\ Layer(log, chain', entry, states, call, known) /\ NamedLoads(chain')
      /\ call' \in [Client -> Call]
      /\ \A d \in Client : call'[d] = call[d]
  BY <1>5, LayerFacts, Parts
<1> QED BY <1>2, <1>4, <1>5, <1>6, GrowLayer

-----------------------------------------------------------------------------
(* The theorems *)

\* The invariant holds at first, when every log has its first record only.
LEMMA InitInv ==
  ASSUME Init
  PROVE  IInv
<1> DEFINE b == CHOOSE i \in Id : TRUE
<1>1. b \in Id
  BY ActorsAssumption
<1> HIDE DEF b
<1>2. /\ log \in [Id -> Log] /\ \A i \in Id : log[i].len = 1
      /\ chain = [i \in Id |-> <<>>] /\ entry = [i \in Id |-> NoEntry] /\ recency = <<>>
      /\ states = [i \in Id |-> NoState] /\ live = [i \in Id |-> NoLive]
      /\ call = [c \in Client |-> NoCall(b)]
      /\ calls = [c \in Client |-> 0] /\ failures = 0 /\ served = "fresh"
      /\ known = [i \in Id |-> 0]
  BY DEF Init, Log, b
<1>3. /\ NoCall(b) \in Call /\ NoCall(b).step = "idle" /\ NoCall(b).pinned = "no"
      /\ NoCall(b).id = b /\ NoCall(b).floor = 0 /\ NoCall(b).source = NoLog
      /\ NoLog.len = 0 /\ NoEntry.source = NoLog /\ NoEntry.phase = "absent"
      /\ NoLive.phase = "none"
  BY <1>1 DEF NoCall, Call, Kind, NoLog, Log, NoEntry, NoLive
<1> DEFINE v == NoCall(b)
<1>4. \A c \in Client : call[c] = v
  BY <1>2
<1> HIDE DEF v
<1>5. Types(log, chain, entry, states, live, call)
  <2>1. chain \in [Id -> Seq(Operation)]
    BY <1>2
  <2> QED BY <1>2, <1>3, <2>1 DEF Types
<1>6. ChainInv(log, chain, entry, live, call)
  BY <1>2 DEF ChainInv
<1>7. EntryInv(log, entry, states, live)
  BY <1>2, <1>3 DEF EntryInv, Old
<1>8. PinsInv(entry, call)
  BY <1>2 DEF PinsInv
<1>9. ReservedInv(log, entry, states, live, call)
  BY <1>2, <1>3, <1>4 DEF ReservedInv, ReservedAt, HoldersOf, v
<1>10. \A c \in Client : CallOK(log, entry, call[c])
  BY <1>1, <1>2, <1>3, <1>4 DEF CallOK, Old, Loaded, v
<1>11. PoolOK(Pool)
  <2>1. recency \in Seq(Id) /\ Seqs!IsInjective(recency) /\ \A i \in Id : ~Listed(recency, i)
    BY <1>2 DEF Seqs!IsInjective, Listed
  <2>2. Order(entry, recency) /\ entry \in [Id -> PoolEntry \cup {NoEntry}]
    BY <1>2, <2>1 DEF Order
  <2> QED BY <2>1, <2>2 DEF PoolOK, Pool
<1>12. Bounded(entry)
  BY <1>2, <1>3 DEF Bounded, ReadyIds
<1>13. calls \in [Client -> 0..MaxCalls] /\ failures \in 0..MaxFailures
       /\ known \in [Id -> Nat]
  BY <1>2, BoundsAssumption
<1> QED BY <1>2, <1>5, <1>6, <1>7, <1>8, <1>9, <1>10, <1>11, <1>12, <1>13 DEF IInv, Good

\* Every step keeps it.
LEMMA StepInv ==
  ASSUME IInv2, [Next]_vars
  PROVE  IInv'
<1> USE DEF IInv2
<1>1. CASE UNCHANGED vars
  BY <1>1 DEF IInv, vars, Pool
<1>2. ASSUME NEW c \in Client, Goes(c) \/ Ask(c) \/ Publish(c) \/ Release(c) \/ Abort(c)
      PROVE  IInv'
  BY <1>2, AskStep, MeetLiveStep, EnterStep, CheckStep, EndLeaseStep, ReserveStep,
     PublishStep, ReleaseStep, AbortStep DEF Goes
<1>3. ASSUME NEW i \in Id, Completes(i) PROVE IInv'
  <2>1. CASE AppendDone(i)
    BY <2>1, WriterFacts, AppendDoneStep
  <2> QED BY <1>3, <2>1, LoadDoneStep, CheckDoneStep, CommitDoneStep, AppendStartsStep,
             WriteDoneStep, DetachDoneStep DEF Completes
<1>4. ASSUME NEW i \in Id,
             \/ OperationFails(i) \/ LiveAppend(i) \/ Flush(i) \/ Retire(i) \/ Detach(i)
             \/ WriteElsewhere(i)
      PROVE  IInv'
  BY <1>4, OperationFailsStep, LiveStep, QueueStep, WriteElsewhereStep
<1> QED BY <1>1, <1>2, <1>3, <1>4 DEF Next

\* Every step keeps what the process knows, and no read answers with less.
LEMMA StepLayer ==
  ASSUME IInv2, [Next]_vars
  PROVE  LayerNext /\ served' = "fresh"
<1>1. CASE UNCHANGED vars
  BY <1>1 DEF IInv2, LayerNext, vars
<1>2. ASSUME NEW c \in Client, Goes(c) \/ Ask(c) \/ Publish(c) \/ Release(c) \/ Abort(c)
      PROVE  LayerNext /\ served' = "fresh"
  <2>1. LayerNext
    BY <1>2, AskLayer, EndLayer, EnterLayer, CheckLayer, ReserveLayer, ResumeLayer,
       AbortLayer DEF Goes
  <2>2. served' = served
    BY <1>2 DEF Goes, Ask, MeetLive, Enter, Check, EndLease, Reserve, Publish, Release,
                Abort
  <2> QED BY <2>1, <2>2 DEF IInv2
<1>3. ASSUME NEW i \in Id, Completes(i)
      PROVE  LayerNext /\ served' = "fresh"
  <2>1. CASE CheckDone(i) \/ CommitDone(i)
    BY <2>1, CheckDoneLayer, CommitDoneLayer
  <2>2. CASE LoadDone(i) \/ AppendStarts(i) \/ AppendDone(i) \/ WriteDone(i) \/ DetachDone(i)
    <3>1. LayerNext
      BY <2>2, LoadLayer, AppendStartsLayer, AppendDoneLayer, WriteDoneLayer
    <3>2. served' = served
      BY <2>2 DEF LoadDone, AppendStarts, AppendDone, WriteDone, DetachDone
    <3> QED BY <3>1, <3>2 DEF IInv2
  <2> QED BY <1>3, <2>1, <2>2 DEF Completes
<1>4. ASSUME NEW i \in Id,
             \/ OperationFails(i) \/ LiveAppend(i) \/ Flush(i) \/ Retire(i) \/ Detach(i)
             \/ WriteElsewhere(i)
      PROVE  LayerNext /\ served' = "fresh"
  <2>1. LayerNext
    BY <1>4, FailsLayer, LiveLayer, ElsewhereLayer
  <2>2. served' = served
    BY <1>4 DEF OperationFails, LiveAppend, Flush, Retire, Detach, WriteElsewhere
  <2> QED BY <2>1, <2>2 DEF IInv2
<1> QED BY <1>1, <1>2, <1>3, <1>4 DEF Next

\* At first the process knows nothing.
LEMMA InitLayer ==
  ASSUME Init
  PROVE  IInv2
<1> DEFINE b == CHOOSE i \in Id : TRUE
           v == NoCall(b)
<1>1. /\ \A i \in Id : /\ log[i].len = 1 /\ chain[i] = <<>> /\ entry[i] = NoEntry
                       /\ known[i] = 0
      /\ \A c \in Client : call[c] = v
      /\ served = "fresh" /\ b \in Id
  BY ActorsAssumption DEF Init
<1>2. v.step = "idle" /\ v.floor = 0 /\ v.id = b
  BY DEF NoCall
<1> HIDE DEF v, b
<1>3. ASSUME NEW i \in Id PROVE LayerAt(log, chain, entry, states, call, known, i)
  <2>1. DOMAIN chain[i] = {}
    BY <1>1
  <2>2. KnownAt(log, entry, known, i)
    BY <1>1 DEF KnownAt, NoEntry, Held
  <2> QED BY <2>1, <2>2 DEF LayerAt, WritesAt, LoadsAt
<1>4. ASSUME NEW c \in Client PROVE CallKnown(known, call[c])
  BY <1>1, <1>2 DEF CallKnown, Loaded
<1> QED BY <1>1, <1>3, <1>4, InitInv DEF IInv2, Layer

\* The invariant and its layer hold always.
THEOREM Invariance == Spec => []IInv2
<1>1. Init => IInv2
  BY InitLayer
<1>2. IInv2 /\ [Next]_vars => IInv2'
  <2> SUFFICES ASSUME IInv2, [Next]_vars PROVE IInv2'
    OBVIOUS
  <2> QED BY StepInv, StepLayer DEF IInv2, LayerNext
<1> QED BY <1>1, <1>2, PTL DEF Spec

\* The pins of an entry are at most one for each client.
LEMMA PinsFacts ==
  ASSUME IInv, NEW i \in Id, entry[i] # NoEntry
  PROVE  /\ IsFiniteSet(Pinned(entry, call, i)) /\ entry[i].pins \in 0..Cardinality(Client)
         /\ entry[i].pins = Cardinality(Pinned(entry, call, i))
<1>1. entry[i].pins = Cardinality(Pinned(entry, call, i))
  BY Parts DEF Good, PinsInv
<1>2. Pinned(entry, call, i) \in SUBSET Client
  BY DEF Pinned
<1> DEFINE P == Pinned(entry, call, i)
<1> HIDE DEF P
<1>3. IsFiniteSet(P) /\ Cardinality(P) <= Cardinality(Client)
  BY <1>2, ActorsAssumption, FS_Subset DEF P
<1>4. Cardinality(P) \in Nat /\ Cardinality(Client) \in Nat
  BY <1>3, ActorsAssumption, FS_CardinalityType
<1> QED BY <1>1, <1>3, <1>4 DEF P

\* Every variable keeps its type; every entry stands once in the LRU's order,
\* and has at most one pin for each client.
THEOREM TypeAlways == Spec => []TypeOK
<1>1. IInv => TypeOK
  <2> SUFFICES ASSUME IInv PROVE TypeOK
    OBVIOUS
  <2>1. Order(entry, recency)
    BY Parts DEF PoolOK
  <2>2. ASSUME NEW i \in Id PROVE entry[i] \in Entry \cup {NoEntry}
    <3>1. CASE entry[i] # NoEntry
      <4>1. entry[i] \in PoolEntry /\ entry[i].pins \in 0..Cardinality(Client)
        BY <3>1, Parts, PinsFacts
      <4> QED BY <4>1 DEF PoolEntry, Entry
    <3> QED BY <3>1
  <2>3. entry \in [Id -> Entry \cup {NoEntry}]
    BY <2>2, Parts
  <2> QED BY <2>1, <2>3, Parts DEF TypeOK, IInv, Order
<1>2. IInv2 => IInv
  BY DEF IInv2
<1> QED BY <1>1, <1>2, Invariance, PTL

\* A granted reservation is exclusive and exact until it is published or
\* released: one caller holds it, what it prepared is the stored log, the
\* cursor stands at its end, and nobody owns the session.
THEOREM ReservationAlways == Spec => []ReservationHolds
<1>1. IInv => ReservationHolds
  <2> SUFFICES ASSUME IInv, NEW i \in Id
               PROVE  /\ (entry[i].phase = "reserved") <=> (Holders(i) # {})
                      /\ \A c \in Holders(i) :
                           /\ Holders(i) = {c} /\ Current(c)
                           /\ call[c].source = log[i] /\ log[i].turn = "closed"
                           /\ states[i] = [cursor |-> log[i].len, owner |-> "none"]
                           /\ live[i].phase = "none"
    BY DEF ReservationHolds
  <2>1. ReservedAt(log, entry, states, live, call, i)
    BY Parts DEF Good, ReservedInv
  <2>2. Holders(i) = HoldersOf(call, i)
    BY DEF Holders, HoldersOf
  <2>3. ASSUME NEW c \in Holders(i) PROVE Current(c)
    <3>1. call[c].id = i /\ entry[i].tag = call[c].tag /\ entry[i].phase = "reserved"
      BY <2>1, <2>2, <2>3 DEF ReservedAt, Holders
    <3> QED BY <3>1 DEF Current, NoEntry
  <2> QED BY <2>1, <2>2, <2>3 DEF ReservedAt
<1>2. IInv2 => IInv
  BY DEF IInv2
<1> QED BY <1>1, <1>2, Invariance, PTL

\* A read never goes back: it answers with every record that this process had
\* read or written when the call was made, also when the source it shares is
\* older than the log and lent by a commit under way.
THEOREM ReadsAlways == Spec => []ReadsNeverGoBack
<1>1. IInv2 => ReadsNeverGoBack
  BY DEF IInv2, ReadsNeverGoBack
<1> QED BY <1>1, Invariance, PTL

-----------------------------------------------------------------------------
(* Leases *)

\* What keeps the entries that have a pin keeps the leases.
LEMMA StaysLease ==
  ASSUME Stays(call, entry, entry') \/ Stays(call', entry, entry')
  PROVE  LeaseIsKept
<1> SUFFICES ASSUME NEW i \in ReadyIds(entry), NEW c \in Client, call[c].pinned = "yes",
                    call[c].id = i, Current(c), call'[c] = call[c], entry'[i] = NoEntry
             PROVE  FALSE
  BY DEF LeaseIsKept
<1> QED BY DEF Stays, Pins, Current, ReadyIds

\* An entry goes that is not ready, or whose session is written, stale, adopted
\* by an append, or given up by a resume.
LEMMA RemoveLease ==
  ASSUME IInv, NEW i \in Id,
         SetPool(Remove(Pool, i)) \/ SetPool(Pool) \/ UNCHANGED <<entry, recency>>,
         \/ entry[i].phase # "ready" \/ entry[i].source # log[i]
         \/ log'[i] # log[i]
         \/ \E c \in Client : /\ call[c].id = i /\ call'[c] # call[c]
                              /\ call[c].kind = "prepare" \/ call[c].step = "appending"
  PROVE  LeaseIsKept
<1>1. \A j \in Id \ {i} : entry'[j] = entry[j]
  <2>1. entry' = [entry EXCEPT ![i] = NoEntry] \/ entry' = entry
    BY DEF SetPool, Remove, Pool
  <2> QED BY <2>1, Parts
<1>2. \A j \in ReadyIds(entry) : entry[j] # NoEntry
  BY DEF ReadyIds, NoEntry
<1> QED BY <1>1, <1>2 DEF LeaseIsKept, ReadyIds

\* A call ends and its pin with it.
LEMMA UnpinLease ==
  ASSUME IInv, NEW c \in Client, Good(log, chain', entry, states, live, call),
         NoOps(chain', c), call[c].step # "holding", SetPool(Unpin(Pool, c)), Finish(c)
  PROVE  LeaseIsKept
<1> DEFINE q == Unpin(Pool, c)
<1>1. call' = Ended(call, c) /\ PoolOK(Pool) /\ Bounded(Pool.entry) /\ Pool.entry = entry
  BY Parts DEF Finish, Ended
<1> HIDE DEF q
<1>2. Stays(call', Pool.entry, q.entry)
  BY <1>1, UnpinKeeps DEF q
<1>3. entry' = q.entry
  BY DEF SetPool, q
<1> QED BY <1>1, <1>2, <1>3, StaysLease

\* An entry becomes ready that was not.
LEMMA ReadyLease ==
  ASSUME IInv, NEW i \in Id, entry[i] # NoEntry, SetPool(MakeReady(Pool, i))
  PROVE  LeaseIsKept
<1> DEFINE q == MakeReady(Pool, i)
<1>1. PoolOK(Pool) /\ Bounded(Pool.entry) /\ Pool.entry = entry /\ PinsInv(entry, call)
  BY Parts DEF Good
<1> HIDE DEF q
<1>2. Stays(call, Pool.entry, q.entry)
  BY <1>1, MakeReadyStays DEF q
<1>3. entry' = q.entry
  BY DEF SetPool, q
<1> QED BY <1>1, <1>2, <1>3, StaysLease

\* No entry goes when a call joins one or reserves it.
LEMMA EnterLease ==
  ASSUME IInv, NEW c \in Client, Enter(c) \/ Reserve(c)
  PROVE  LeaseIsKept
<1>1. ASSUME NEW i \in Id, entry[i] # NoEntry PROVE entry'[i] # NoEntry
  <2>1. entry[i] \in PoolEntry /\ entry[i].tag # 0 /\ call[c].id \in Id
    BY <1>1, Parts, FreeFacts DEF PoolEntry, Tag
  <2>2. entry'[i].tag = entry[i].tag
    <3>1. CASE Enter(c)
      <4>1. CASE i = call[c].id
        <5>1. \E n : entry' = [entry EXCEPT ![i].pins = n]
          BY <1>1, <3>1, <4>1 DEF Enter
        <5> QED BY <2>1, <5>1, Parts DEF PoolEntry
      <4>2. CASE i # call[c].id
        BY <3>1, <4>2, Parts DEF Enter
      <4> QED BY <4>1, <4>2
    <3>2. CASE Reserve(c)
      <4>1. entry' = [entry EXCEPT ![call[c].id].phase = "committing"] \/ entry' = entry
        BY <3>2 DEF Reserve
      <4>2. CASE entry' = entry
        BY <4>2
      <4>3. CASE entry' = [entry EXCEPT ![call[c].id].phase = "committing"]
        <5>1. CASE i = call[c].id
          <6>1. entry'[i] = [entry[i] EXCEPT !.phase = "committing"]
            BY <4>3, <5>1, Parts
          <6> QED BY <2>1, <6>1 DEF PoolEntry
        <5>2. CASE i # call[c].id
          BY <4>3, <5>2, Parts
        <5> QED BY <5>1, <5>2
      <4> QED BY <4>1, <4>2, <4>3
    <3> QED BY <3>1, <3>2
  <2> QED BY <2>1, <2>2 DEF NoEntry
<1> QED BY <1>1, StaysLease DEF Stays

\* The touch of an entry evicts only what has no pin, and a pin that goes then
\* evicts nothing else.
LEMMA TouchLease ==
  ASSUME IInv, NEW c \in Client, call[c].step # "holding", NoOps(chain, c),
         \/ SetPool(Touched(c))
         \/ SetPool(Unpin(Touched(c), c)) /\ Finish(c)
  PROVE  LeaseIsKept
<1> DEFINE i == call[c].id
           q == Touched(c)
<1>1. i \in Id /\ PinsInv(entry, call)
  BY Parts, FreeFacts DEF Good
<1>2. /\ PoolOK(q) /\ Bounded(q.entry) /\ Trims(entry, q.entry)
      /\ Good(log, chain, q.entry, states, live, call)
  BY <1>1, TouchedFacts
<1>3. \/ entry' = q.entry
      \/ SetPool(Unpin(q, c)) /\ Finish(c)
  BY DEF SetPool
<1> HIDE DEF q
<1>4. Stays(call, entry, q.entry)
  BY <1>1, <1>2, Parts, TrimStays
<1>5. CASE SetPool(Unpin(q, c)) /\ Finish(c)
  <2> DEFINE r == Unpin(q, c)
  <2>1. entry' = r.entry /\ call' = Ended(call, c)
    BY <1>5, Parts DEF Finish, Ended, SetPool
  <2> HIDE DEF r
  <2>2. Stays(call', q.entry, r.entry)
    BY <1>1, <1>2, <2>1, UnpinKeeps DEF r
  <2>3. ASSUME NEW j \in Id, NEW d \in Client, entry[j] # NoEntry, Pins(entry, call'[d], j)
        PROVE  r.entry[j] # NoEntry
    <3>1. call'[d] = call[d]
      <4>1. d # c
        BY <2>1, <2>3, Parts DEF Ended, NoCall, Pins
      <4> QED BY <2>1, <4>1, Parts DEF Ended
    <3>2. q.entry[j] = entry[j]
      <4>1. q.entry[j] # NoEntry
        BY <1>4, <2>3, <3>1 DEF Stays
      <4> QED BY <1>2, <4>1 DEF Trims
    <3> QED BY <2>2, <2>3, <3>2 DEF Stays, Pins
  <2> QED BY <2>1, <2>3, StaysLease DEF Stays
<1> QED BY <1>3, <1>4, <1>5, StaysLease

\* A reader touches its entry.
LEMMA CheckLease ==
  ASSUME IInv, NEW c \in Client, Check(c)
  PROVE  LeaseIsKept
<1>1. call[c].step # "holding" /\ NoOps(chain, c)
  BY Parts, FreeFacts DEF Check
<1>2. \/ SetPool(Touched(c))
      \/ SetPool(Unpin(Touched(c), c)) /\ Finish(c)
  BY DEF Check
<1> QED BY <1>1, <1>2, TouchLease

\* A load evicts only what has no pin when its entry becomes ready.
LEMMA LoadLease ==
  ASSUME IInv, NEW i \in Id, LoadDone(i)
  PROVE  LeaseIsKept
<1>1. OpInv(log, entry, live, call, i, Head1(i)) /\ Head1(i).op = "load"
  BY HeadFacts DEF LoadDone, Runs
<1>2. CASE ~(entry[i] # NoEntry /\ entry[i].tag = Head1(i).tag)
  <2>1. entry' = entry
    BY <1>2 DEF LoadDone
  <2> QED BY <2>1, StaysLease DEF Stays
<1>3. CASE entry[i] # NoEntry /\ entry[i].tag = Head1(i).tag
  <2> DEFINE x == [entry[i] EXCEPT !.source = log[i]]
             p == Put(Pool, i, x)
             q == MakeReady(p, i)
  <2>1. entry[i] \in PoolEntry /\ entry[i].phase = "loading" /\ log[i] \in Log
    BY <1>1, <1>3, Parts DEF OpInv
  <2>2. /\ x \in PoolEntry /\ x.phase = "loading" /\ x # NoEntry
        /\ x.tag = entry[i].tag /\ x.pins = entry[i].pins
    BY <2>1 DEF PoolEntry, NoEntry
  <2>3. entry' = q.entry
    <3>1. p = [Pool EXCEPT !.entry[i].source = log[i]]
      BY Parts, PutForms
    <3> QED BY <1>3, <3>1 DEF LoadDone, SetPool
  <2> HIDE DEF x
  <2>4. /\ p.entry[i] = x /\ \A j \in Id \ {i} : p.entry[j] = entry[j]
    BY Parts DEF Put
  <2>5. PoolOK(p) /\ Bounded(p.entry)
    BY <1>3, <2>2, Parts, PutFacts
  <2> HIDE DEF p, q
  <2>6. ASSUME NEW j \in Id
        PROVE  /\ p.entry[j].tag = entry[j].tag /\ p.entry[j].pins = entry[j].pins
               /\ p.entry[j] # NoEntry <=> entry[j] # NoEntry
    BY <1>3, <2>2, <2>4
  <2>7. \A j \in Id : Pinned(p.entry, call, j) = Pinned(entry, call, j)
    BY <2>6 DEF Pinned, Pins
  <2>8. PinsInv(p.entry, call)
    BY <2>6, <2>7, Parts DEF PinsInv, Good
  <2>9. Stays(call, p.entry, q.entry)
    BY <1>3, <2>5, <2>6, <2>8, MakeReadyStays DEF q
  <2> QED BY <2>3, <2>6, <2>9, StaysLease DEF Stays, Pins
<1> QED BY <1>2, <1>3

\* A check discards only an entry it found stale.
LEMMA CheckDoneLease ==
  ASSUME IInv, NEW i \in Id, CheckDone(i)
  PROVE  LeaseIsKept
<1> DEFINE c == Head1(i).client
<1>1. /\ Good(log, chain', entry, states, live, call)
      /\ OpInv(log, entry, live, call, i, Head1(i)) /\ Head1(i).op = "check"
      /\ c # "none" => NoOps(chain', c)
  BY HeadFacts DEF CheckDone, Runs
<1>2. /\ c \in Client /\ call[c].id = i /\ call[c].step = "checking" /\ NoOps(chain', c)
  BY <1>1, ActorsAssumption DEF OpInv
<1>3. CallOK(log, entry, call[c])
  BY <1>2, Parts, FreeFacts
<1> HIDE DEF c
<1>4. CASE SetPool(Unpin(Pool, c)) /\ Finish(c)
  BY <1>1, <1>2, <1>4, UnpinLease
<1>5. CASE Deliver(c)
  <2>1. entry' = entry
    BY <1>5 DEF Deliver, SetPool, Pool
  <2> QED BY <2>1, StaysLease DEF Stays
<1>6. CASE /\ ~UpToDate(i, call[c].source)
           /\ SetPool(IF Current(c) THEN Remove(Pool, i) ELSE Pool)
  <2>1. CASE Current(c)
    <3>1. entry[i].source # log[i]
      BY <1>2, <1>3, <1>6, <2>1 DEF CallOK, Current, UpToDate, Loaded
    <3> QED BY <1>6, <2>1, <3>1, RemoveLease
  <2>2. CASE ~Current(c)
    <3>1. entry' = entry
      BY <1>6, <2>2 DEF SetPool, Pool
    <3> QED BY <3>1, StaysLease DEF Stays
  <2> QED BY <2>1, <2>2
<1> QED BY <1>4, <1>5, <1>6 DEF CheckDone, c

\* A commit discards its own entry, which is not ready.
LEMMA CommitDoneLease ==
  ASSUME IInv, NEW i \in Id, CommitDone(i)
  PROVE  LeaseIsKept
<1> DEFINE c == Head1(i).client
<1>1. OpInv(log, entry, live, call, i, Head1(i)) /\ Head1(i).op = "commit"
      /\ log[i].len \in Nat
  BY HeadFacts, Parts DEF CommitDone, Runs, Log
<1>7. CASE entry[i].tag # Head1(i).tag
  <2>1. ~Current(c) /\ ~UpToDate(i, call[c].source)
    <3>1. call[c].id = i /\ call[c].tag = Head1(i).tag /\ call[c].source.len < log[i].len
          /\ call[c] \in Call
      BY <1>1, <1>7, Parts DEF OpInv
    <3>2. call[c].source.len \in Nat
      BY <3>1 DEF Call, Log
    <3> HIDE DEF c
    <3> QED BY <1>1, <1>7, <3>1, <3>2 DEF Current, UpToDate
  <2>2. entry' = entry
    BY <2>1 DEF CommitDone, SetPool, Pool
  <2> QED BY <2>2, StaysLease DEF Stays
<1> SUFFICES ASSUME entry[i].tag = Head1(i).tag PROVE LeaseIsKept
  BY <1>7
<1>2. entry[i].phase = "committing" /\ entry[i] # NoEntry
  BY <1>1 DEF OpInv, NoEntry
<1> HIDE DEF c
<1>3. CASE \/ SetPool(IF Current(c) THEN Remove(Pool, i) ELSE Pool)
           \/ SetPool(Remove(Pool, i)) \/ UNCHANGED <<entry, recency>>
  BY <1>2, <1>3, RemoveLease
<1>4. CASE SetPool(MakeReady(Pool, i))
  BY <1>2, <1>4, ReadyLease
<1>5. CASE SetPool([Pool EXCEPT !.entry[i].phase = "reserved"])
  <2>1. entry' = [entry EXCEPT ![i].phase = "reserved"]
    BY <1>5 DEF SetPool, Pool
  <2>2. entry[i] \in PoolEntry
    BY <1>2, Parts
  <2>3. entry'[i].phase = "reserved" /\ \A j \in Id \ {i} : entry'[j] = entry[j]
    BY <2>1, <2>2, Parts DEF PoolEntry
  <2>4. \A j \in Id : entry[j] # NoEntry => entry'[j] # NoEntry
    BY <2>3 DEF NoEntry
  <2> QED BY <2>4, StaysLease DEF Stays
<1>6. \/ SetPool(IF Current(c) THEN Remove(Pool, i) ELSE Pool)
      \/ Grant(c, i) \/ UNCHANGED <<entry, recency>>
  BY DEF CommitDone, c
<1> QED BY <1>3, <1>4, <1>5, <1>6 DEF Grant

\* A resume discards or returns its own entry, which is not ready.
LEMMA ResumeLease ==
  ASSUME IInv, NEW c \in Client, Publish(c) \/ Release(c)
  PROVE  LeaseIsKept
<1> DEFINE i == call[c].id
<1>1. i \in Id /\ entry[i].phase = "reserved" /\ entry[i] # NoEntry
  <2>1. i \in Id /\ c \in HoldersOf(call, i)
    BY Parts, FreeFacts DEF HoldersOf, Publish, Release
  <2>2. ReservedAt(log, entry, states, live, call, i)
    BY <2>1, Parts DEF Good, ReservedInv
  <2> QED BY <2>1, <2>2 DEF ReservedAt, NoEntry
<1>2. SetPool(Remove(Pool, i)) \/ SetPool(MakeReady(Pool, i))
  BY DEF Publish, Release
<1> HIDE DEF i
<1> QED BY <1>1, <1>2, RemoveLease, ReadyLease

\* A caller that gives up discards only the entry it commits or was to take.
LEMMA AbortLease ==
  ASSUME IInv, NEW c \in Client, Abort(c)
  PROVE  LeaseIsKept
<1> DEFINE i == call[c].id
<1>1. i \in Id /\ Finish(c)
  BY Parts, FreeFacts DEF Abort
<1>2. CASE /\ SetPool(IF Current(c) THEN Remove(Pool, i) ELSE Pool)
           /\ call[c].step = "committing" /\ Queued(c)
  <2>1. Current(c) => entry[i].phase # "ready"
    BY <1>1, <1>2, QueuedFacts
  <2>2. CASE Current(c)
    BY <1>1, <1>2, <2>1, <2>2, RemoveLease
  <2>3. CASE ~Current(c)
    <3>1. entry' = entry
      BY <1>2, <2>3 DEF SetPool, Pool
    <3> QED BY <3>1, StaysLease DEF Stays
  <2> QED BY <2>2, <2>3
<1>3. CASE /\ SetPool(Unpin(Pool, c)) /\ call[c].step # "holding"
           /\ \/ UNCHANGED chain /\ NoOps(chain, c)
              \/ Queued(c) /\ chain' = Unqueued(c)
  <2>1. Good(log, chain', entry, states, live, call) /\ NoOps(chain', c)
    BY <1>3, Parts, QueuedFacts
  <2> QED BY <1>1, <1>3, <2>1, UnpinLease
<1>4. call[c].step \notin {"committing", "checking", "appending", "writing"} => NoOps(chain, c)
  BY Parts, FreeFacts
<1>5. CASE call[c].step = "loaded" /\ SetPool(Unpin(Touched(c), c))
  BY <1>1, <1>4, <1>5, TouchLease
<1>6. CASE SetPool(Remove(Pool, i)) /\ call[c].kind = "prepare"
  <2>1. call'[c].kind # "prepare"
    BY <1>1, Parts DEF Finish, NoCall
  <2>2. call'[c] # call[c] /\ call[c].id = i
    BY <1>6, <2>1
  <2> HIDE DEF i
  <2> QED BY <1>1, <1>6, <2>2, RemoveLease
<1> QED BY <1>2, <1>3, <1>4, <1>5, <1>6 DEF Abort

\* A failed operation discards only an entry that is not ready.
LEMMA FailsLease ==
  ASSUME IInv, NEW i \in Id, OperationFails(i)
  PROVE  LeaseIsKept
<1> DEFINE o == Head1(i)
           c == o.client
<1>1. /\ Good(log, chain', entry, states, live, call)
      /\ o \in Operation /\ OpInv(log, entry, live, call, i, o)
      /\ c # "none" => NoOps(chain', c)
  BY HeadFacts DEF OperationFails
<1>2. CASE o.op = "load"
  <2>1. SetPool(IF entry[i].tag = o.tag THEN Remove(Pool, i) ELSE Pool)
    BY <1>2 DEF OperationFails
  <2>2. entry[i].tag = o.tag => entry[i].phase # "ready"
    BY <1>1, <1>2 DEF OpInv
  <2>3. CASE entry[i].tag = o.tag
    BY <2>1, <2>2, <2>3, RemoveLease
  <2>4. CASE entry[i].tag # o.tag
    <3>1. entry' = entry
      BY <2>1, <2>4 DEF SetPool, Pool
    <3> QED BY <3>1, StaysLease DEF Stays
  <2> QED BY <2>3, <2>4
<1>3. CASE o.op = "commit"
  <2>1. SetPool(IF Current(c) THEN Remove(Pool, i) ELSE Pool)
    BY <1>3 DEF OperationFails
  <2>2. Current(c) => entry[i].phase # "ready"
    BY <1>1, <1>3 DEF OpInv, Current
  <2>3. CASE Current(c)
    BY <2>1, <2>2, <2>3, RemoveLease
  <2>4. CASE ~Current(c)
    <3>1. entry' = entry
      BY <2>1, <2>4 DEF SetPool, Pool
    <3> QED BY <3>1, StaysLease DEF Stays
  <2> QED BY <2>3, <2>4
<1>4. CASE o.op = "check"
  <2>1. SetPool(Unpin(Pool, c)) /\ Finish(c)
    BY <1>4 DEF OperationFails
  <2>2. c \in Client /\ call[c].step # "holding" /\ NoOps(chain', c)
    BY <1>1, <1>4, ActorsAssumption DEF OpInv
  <2> HIDE DEF c
  <2> QED BY <1>1, <2>1, <2>2, UnpinLease
<1>5. CASE o.op \in {"append", "init", "write"}
  <2>1. entry' = entry
    BY <1>5 DEF OperationFails
  <2> QED BY <2>1, StaysLease DEF Stays
<1>6. o.op \in {"load", "commit", "check", "append", "init", "write"}
  BY <1>1 DEF OperationFails, Operation
<1> QED BY <1>2, <1>3, <1>4, <1>5, <1>6

\* An append that starts takes the ready entry of the session it adopts.
LEMMA AppendStartsLease ==
  ASSUME IInv, NEW i \in Id, AppendStarts(i)
  PROVE  LeaseIsKept
<1> DEFINE c == Head1(i).client
<1>1. c \in Client /\ call[c].id = i /\ call[c] \in Call /\ call[c].step = "appending"
  BY AppenderFacts, Parts DEF AppendStarts
<1>2. CASE UNCHANGED <<entry, recency>>
  BY <1>2, StaysLease DEF Stays
<1>3. CASE SetPool(TakeReady(i)) /\ call' = [call EXCEPT ![c].step = "writing"]
  <2> HIDE DEF c
  <2>1. call'[c] # call[c]
    <3>1. call'[c].step = "writing"
      BY <1>1, <1>3, Parts DEF Call
    <3> QED BY <1>1, <3>1
  <2>2. SetPool(Remove(Pool, i)) \/ SetPool(Pool)
    BY <1>3 DEF TakeReady
  <2> QED BY <1>1, <2>1, <2>2, RemoveLease
<1> QED BY <1>2, <1>3 DEF AppendStarts

\* A write discards the entry of the session it writes.
LEMMA WriteLease ==
  ASSUME IInv, NEW i \in Id, AppendDone(i) \/ WriteDone(i)
  PROVE  LeaseIsKept
<1>1. CASE UNCHANGED <<entry, recency>>
  BY <1>1, StaysLease DEF Stays
<1>2. CASE /\ \E turn : log' = [log EXCEPT ![i] = [len |-> Adopted(i).len + 1, turn |-> turn]]
           /\ SetPool(Remove(Pool, i))
  <2>1. /\ Adopted(i).len \in Nat /\ log[i].len \in Nat
        /\ Adopted(i).len > log[i].len \/ Adopted(i) = log[i]
    BY AdoptedFacts
  <2>2. log'[i].len = Adopted(i).len + 1
    BY <1>2, Parts
  <2>3. log'[i].len # log[i].len
    BY <2>1, <2>2
  <2> QED BY <1>2, <2>3, RemoveLease
<1>3. CASE WriteDone(i) /\ SetPool(Remove(Pool, i))
  <2>1. /\ OpInv(log, entry, live, call, i, Head1(i))
        /\ Head1(i).op \in {"init", "write"}
    BY <1>3, HeadFacts DEF WriteDone, Runs
  <2>2. entry[i].phase # "ready"
    <3>1. entry[i] = NoEntry
      BY <2>1, LiveFacts DEF OpInv
    <3> QED BY <3>1 DEF NoEntry
  <2> QED BY <1>3, <2>2, RemoveLease
<1> QED BY <1>1, <1>2, <1>3 DEF AppendDone, WriteDone, Invalidate

\* No step evicts an entry under a lease.
LEMMA NextLease ==
  ASSUME IInv, [Next]_vars
  PROVE  LeaseIsKept
<1>1. CASE UNCHANGED entry
  BY <1>1, StaysLease DEF Stays
<1>2. ASSUME NEW c \in Client, Goes(c) \/ Ask(c) \/ Publish(c) \/ Release(c) \/ Abort(c)
      PROVE  LeaseIsKept
  <2>1. CASE Ask(c) \/ MeetLive(c)
    BY <1>1, <2>1 DEF Ask, MeetLive
  <2>2. CASE EndLease(c)
    <3>1. /\ Good(log, chain', entry, states, live, call) /\ NoOps(chain', c)
          /\ call[c].step # "holding"
      BY <2>2, Parts, FreeFacts DEF EndLease
    <3> QED BY <2>2, <3>1, UnpinLease DEF EndLease
  <2> QED BY <1>2, <2>1, <2>2, EnterLease, CheckLease, ResumeLease, AbortLease DEF Goes
<1>3. ASSUME NEW i \in Id, Completes(i) PROVE LeaseIsKept
  <2>1. CASE DetachDone(i)
    BY <1>1, <2>1 DEF DetachDone
  <2> QED BY <1>3, <2>1, LoadLease, CheckDoneLease, CommitDoneLease, AppendStartsLease,
             WriteLease DEF Completes
<1>4. ASSUME NEW i \in Id,
             \/ OperationFails(i) \/ LiveAppend(i) \/ Flush(i) \/ Retire(i) \/ Detach(i)
             \/ WriteElsewhere(i)
      PROVE  LeaseIsKept
  <2>1. CASE OperationFails(i)
    BY <2>1, FailsLease
  <2>2. CASE LiveAppend(i) \/ Flush(i) \/ Retire(i) \/ Detach(i) \/ WriteElsewhere(i)
    BY <1>1, <2>2 DEF LiveAppend, Flush, Retire, Detach, WriteElsewhere
  <2> QED BY <1>4, <2>1, <2>2
<1>5. CASE UNCHANGED vars
  BY <1>1, <1>5 DEF vars
<1> QED BY <1>2, <1>3, <1>4, <1>5 DEF Next

\* Leases and the LRU agree: pins count the leases and the waiting borrows
\* exactly, more entries than the capacity are ready only while all of those
\* are pinned, and a ready entry under a pin goes only when its own session is
\* written, found stale, adopted for an append or given up by a resume, never to
\* make room.
THEOREM PoolAlways == Spec => PoolIsSound
<1>1. IInv => PinsAreCounted
  <2> SUFFICES ASSUME IInv, NEW i \in Id, entry[i] # NoEntry
               PROVE  entry[i].pins = Cardinality({ c \in Client :
                        call[c].id = i /\ call[c].pinned = "yes" /\ Current(c) })
    BY DEF PinsAreCounted
  <2>1. Pinned(entry, call, i) =
          { c \in Client : call[c].id = i /\ call[c].pinned = "yes" /\ Current(c) }
    BY DEF Pinned, Pins, Current
  <2> QED BY <2>1, PinsFacts
<1>2. IInv => PoolIsBounded
  BY DEF IInv, Bounded, PoolIsBounded
<1>3. IInv /\ [Next]_vars => [LeaseIsKept]_vars
  BY NextLease
<1>4. IInv2 => IInv
  BY DEF IInv2
<1> QED BY <1>1, <1>2, <1>3, <1>4, Invariance, PTL DEF Spec, PoolIsSound
=============================================================================
