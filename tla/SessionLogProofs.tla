-------------------------- MODULE SessionLogProofs --------------------------
(***************************************************************************)
(* Proofs about what ends up in a session's log: the tool events that      *)
(* ToolScheduler appends, for any number of calls and any bound of the     *)
(* pool, and the log that SessionRepair closes after a crash, for any set  *)
(* of calls and any bounds.  Both meet the companion's check, a fold over  *)
(* the log; the lemmas about folds come first, by induction on its length. *)
(***************************************************************************)
EXTENDS ToolScheduler, SessionRepair, FiniteSetTheorems, SequenceTheorems,
        WellFoundedInduction, TLAPS

-----------------------------------------------------------------------------
(* Induction, and folds from left to right *)

\* Induction over the natural numbers, for a set of them.
LEMMA Inductive ==
  ASSUME NEW P, 0 \in P, \A n \in Nat : n \in P => n + 1 \in P
  PROVE  \A n \in Nat : n \in P
<1> DEFINE R == OpToRel(<, Nat)
           T == Nat \ P
<1>1. IsWellFoundedOn(R, Nat)
  BY NatLessThanWellFounded
<1>2. \A x, y \in Nat : x < y => <<x, y>> \in R
  BY DEF OpToRel
<1> HIDE DEF R
<1> SUFFICES ASSUME T # {} PROVE FALSE
  OBVIOUS
<1>3. \E x \in T : \A y \in T : <<y, x>> \notin R
  BY <1>1, WFMin
<1>4. PICK x \in T : \A y \in T : <<y, x>> \notin R
  BY <1>3
<1>5. x \in Nat /\ x # 0 /\ x - 1 \in Nat /\ x - 1 < x
  BY <1>4
<1>6. x - 1 \in P
  BY <1>2, <1>4, <1>5
<1>7. x \in P
  BY <1>5, <1>6
<1> QED BY <1>4, <1>7

\* The first n elements, and one more.
LEMMA PrefixFacts ==
  ASSUME NEW S, NEW s \in Seq(S), NEW n \in 0..Len(s)
  PROVE  /\ SubSeq(s, 1, n) \in Seq(S) /\ Len(SubSeq(s, 1, n)) = n
         /\ DOMAIN SubSeq(s, 1, n) = 1..n
         /\ \A k \in 1..n : SubSeq(s, 1, n)[k] = s[k]
         /\ n < Len(s) => SubSeq(s, 1, n + 1) = Append(SubSeq(s, 1, n), s[n + 1])
         /\ n = Len(s) => SubSeq(s, 1, n) = s
<1>1. /\ SubSeq(s, 1, n) \in Seq(S) /\ Len(SubSeq(s, 1, n)) = n
      /\ \A k \in 1..n : SubSeq(s, 1, n)[k] = s[k]
  OBVIOUS
<1>2. DOMAIN SubSeq(s, 1, n) = 1..n
  BY <1>1
<1>3. ASSUME n < Len(s) PROVE SubSeq(s, 1, n + 1) = Append(SubSeq(s, 1, n), s[n + 1])
  BY <1>3
<1>4. ASSUME n = Len(s) PROVE SubSeq(s, 1, n) = s
  BY <1>4
<1> QED BY <1>1, <1>2, <1>3, <1>4

\* One more event.
LEMMA AppendFacts ==
  ASSUME NEW S, NEW q \in Seq(S), NEW e \in S, NEW w, w = Append(q, e)
  PROVE  /\ w \in Seq(S) /\ Len(q) \in Nat /\ Len(w) = Len(q) + 1
         /\ DOMAIN w = 1..Len(q) + 1 /\ DOMAIN q = 1..Len(q)
         /\ \A i \in DOMAIN q : w[i] = q[i]
         /\ w[Len(q) + 1] = e
OBVIOUS

\* The largest element of a non-empty set of positions.
LEMMA MaxFacts ==
  ASSUME NEW n \in Nat, NEW t \in SUBSET (1..n), t # {}
  PROVE  Seqs!Max(t) \in t /\ \A k \in t : Seqs!Max(t) >= k
<1> DEFINE P == { m \in Nat : \A u \in SUBSET (1..m) :
                    u # {} => \E x \in u : \A k \in u : x >= k }
<1>1. 0 \in P
  <2>1. 1..0 = {}
    OBVIOUS
  <2> QED BY <2>1
<1>2. ASSUME NEW m \in Nat, m \in P PROVE m + 1 \in P
  <2> SUFFICES ASSUME NEW u \in SUBSET (1..m + 1), u # {}
               PROVE  \E x \in u : \A k \in u : x >= k
    OBVIOUS
  <2>1. CASE m + 1 \in u
    BY <2>1
  <2>2. CASE m + 1 \notin u
    <3>1. u \in SUBSET (1..m)
      BY <2>2
    <3> QED BY <1>2, <3>1
  <2> QED BY <2>1, <2>2
<1>3. n \in P
  <2> HIDE DEF P
  <2> QED BY <1>1, <1>2, Inductive
<1> QED BY <1>3 DEF Seqs!Max

\* The function of FoldLeft's definition, for a step function G.
IsFold(f, G, b, s) ==
  \A t \in SUBSET DOMAIN s :
    f[t] = IF t = {} THEN b ELSE G[<<f[t \ {Seqs!Max(t)}], s[Seqs!Max(t)]>>]

\* A fold over a sequence from left to right exists, for any step function G on
\* states A and elements B.
LEMMA FoldExists ==
  ASSUME NEW A, NEW B, NEW G \in [A \X B -> A], NEW b \in A, NEW s \in Seq(B)
  PROVE  \E f \in [SUBSET DOMAIN s -> A] : IsFold(f, G, b, s)
<1> DEFINE Fold(f, m) == \A t \in SUBSET (1..m) :
             f[t] = IF t = {} THEN b ELSE G[<<f[t \ {Seqs!Max(t)}], s[Seqs!Max(t)]>>]
           P == { m \in Nat : m <= Len(s) => \E f \in [SUBSET (1..m) -> A] : Fold(f, m) }
<1>1. 0 \in P
  <2> DEFINE f == [t \in SUBSET (1..0) |-> b]
  <2>1. f \in [SUBSET (1..0) -> A] /\ Fold(f, 0)
    OBVIOUS
  <2> QED BY <2>1
<1>2. ASSUME NEW m \in Nat, m \in P PROVE m + 1 \in P
  <2> SUFFICES ASSUME m + 1 <= Len(s)
               PROVE  \E f \in [SUBSET (1..m + 1) -> A] : Fold(f, m + 1)
    <3>1. m + 1 \in Nat
      OBVIOUS
    <3> HIDE DEF Fold
    <3> QED BY <3>1
  <2>1. PICK g \in [SUBSET (1..m) -> A] : Fold(g, m)
    <3>1. m <= Len(s)
      OBVIOUS
    <3> HIDE DEF Fold
    <3> QED BY <1>2, <3>1
  <2> DEFINE f == [t \in SUBSET (1..m + 1) |->
                     IF m + 1 \in t THEN G[<<g[t \ {m + 1}], s[m + 1]>>] ELSE g[t]]
  <2>2. s[m + 1] \in B
    OBVIOUS
  <2>3. f \in [SUBSET (1..m + 1) -> A]
    <3> SUFFICES ASSUME NEW t \in SUBSET (1..m + 1) PROVE f[t] \in A
      OBVIOUS
    <3>1. CASE m + 1 \in t
      <4>1. t \ {m + 1} \in SUBSET (1..m)
        OBVIOUS
      <4>2. <<g[t \ {m + 1}], s[m + 1]>> \in A \X B
        BY <4>1, <2>2
      <4>3. f[t] = G[<<g[t \ {m + 1}], s[m + 1]>>]
        BY <3>1
      <4> HIDE DEF f
      <4> QED BY <4>2, <4>3
    <3>2. CASE m + 1 \notin t
      <4>1. t \in SUBSET (1..m)
        BY <3>2
      <4> QED BY <4>1, <3>2
    <3> QED BY <3>1, <3>2
  <2>4. Fold(f, m + 1)
    <3> SUFFICES ASSUME NEW t \in SUBSET (1..m + 1)
                 PROVE  f[t] = IF t = {} THEN b
                               ELSE G[<<f[t \ {Seqs!Max(t)}], s[Seqs!Max(t)]>>]
      OBVIOUS
    <3>1. CASE m + 1 \in t
      <4>1. Seqs!Max(t) = m + 1
        <5>1. m + 1 \in Nat /\ t # {}
          BY <3>1
        <5>2. Seqs!Max(t) \in t /\ Seqs!Max(t) >= m + 1
          BY <3>1, <5>1, MaxFacts
        <5>3. \A k \in t : k \in Nat /\ k <= m + 1
          OBVIOUS
        <5>4. \E x : x = Seqs!Max(t) /\ x \in Nat /\ x <= m + 1 /\ x >= m + 1
          BY <5>2, <5>3
        <5> QED BY <5>4
      <4>2. t \ {m + 1} \in SUBSET (1..m) /\ f[t \ {m + 1}] = g[t \ {m + 1}]
        OBVIOUS
      <4>3. f[t] = G[<<g[t \ {m + 1}], s[m + 1]>>] /\ t # {}
        BY <3>1
      <4> HIDE DEF f
      <4> QED BY <4>1, <4>2, <4>3
    <3>2. CASE m + 1 \notin t
      <4>1. t \in SUBSET (1..m) /\ t \ {Seqs!Max(t)} \in SUBSET (1..m)
        <5>1. \A k \in t : k \in 1..m + 1 /\ k # m + 1
          BY <3>2
        <5>2. \A k \in t : k \in 1..m
          BY <5>1
        <5> HIDE DEF f
        <5> QED BY <5>2
      <4>2. f[t] = g[t] /\ f[t \ {Seqs!Max(t)}] = g[t \ {Seqs!Max(t)}]
        BY <4>1
      <4> HIDE DEF f
      <4> QED BY <2>1, <4>1, <4>2
    <3> QED BY <3>1, <3>2
  <2> HIDE DEF f, Fold
  <2> QED BY <2>3, <2>4
<1>3. Len(s) \in P
  <2> HIDE DEF P
  <2> QED BY <1>1, <1>2, Inductive
<1>4. DOMAIN s = 1..Len(s)
  OBVIOUS
<1>5. \E f \in [SUBSET (1..Len(s)) -> A] : Fold(f, Len(s))
  <2>1. Len(s) <= Len(s)
    OBVIOUS
  <2> HIDE DEF Fold
  <2> QED BY <1>3, <2>1
<1> QED BY <1>4, <1>5 DEF IsFold

\* Two such folds agree when they agree at the start and step by step.
Agree(f, g, n) ==
  f[{}] = g[{}] /\ \A m \in 1..n : f[1..m - 1] = g[1..m - 1] => f[1..m] = g[1..m]

\* Two such functions have the same value for the first n positions.
LEMMA FoldUnique ==
  ASSUME NEW f, NEW g, NEW n \in Nat, Agree(f, g, n)
  PROVE  f[1..n] = g[1..n]
<1> DEFINE P == { m \in Nat : m <= n => f[1..m] = g[1..m] }
<1>1. 0 \in P
  <2>1. 1..0 = {}
    OBVIOUS
  <2> QED BY <2>1 DEF Agree
<1>2. ASSUME NEW m \in Nat, m \in P PROVE m + 1 \in P
  <2>1. (m + 1) - 1 = m /\ (m + 1 <= n => m <= n /\ m + 1 \in 1..n)
    OBVIOUS
  <2> QED BY <1>2, <2>1 DEF Agree
<1>3. n \in P
  <2> HIDE DEF P
  <2> QED BY <1>1, <1>2, Inductive
<1> QED BY <1>3

\* A fold reads the positions in their order.
LEMMA InitialFacts ==
  ASSUME NEW m \in Nat \ {0}
  PROVE  /\ 1..m # {} /\ 1..m \in SUBSET (1..m)
         /\ Seqs!Max(1..m) = m /\ (1..m) \ {m} = 1..m - 1
<1>1. m \in 1..m
  OBVIOUS
<1>2. Seqs!Max(1..m) \in 1..m /\ Seqs!Max(1..m) >= m
  BY <1>1, MaxFacts
<1>3. \E x : x = Seqs!Max(1..m) /\ x \in Nat /\ x <= m /\ x >= m
  BY <1>2
<1> QED BY <1>1, <1>3

\* The fold that FoldExists promises.
FoldOf(A, G, b, s) ==
  (CHOOSE f : f \in [SUBSET DOMAIN s -> A] /\ IsFold(f, G, b, s))[DOMAIN s]

\* A step function, its first state, and what is folded.
FoldArgs(A, B, G, b, s) == G \in [A \X B -> A] /\ b \in A /\ s \in Seq(B)

\* A function that folds position by position arrives at the fold.
Folds(h, A, G, b, s) ==
  /\ h[{}] = b
  /\ \A m \in 1..Len(s) : h[1..m - 1] \in A => h[1..m] = G[<<h[1..m - 1], s[m]>>]

\* A function that folds position by position has the fold as its last value.
LEMMA FoldEquals ==
  ASSUME NEW A, NEW B, NEW G, NEW b, NEW s, NEW h,
         FoldArgs(A, B, G, b, s), Folds(h, A, G, b, s)
  PROVE  FoldOf(A, G, b, s) \in A /\ h[1..Len(s)] = FoldOf(A, G, b, s)
<1>0. G \in [A \X B -> A] /\ b \in A /\ s \in Seq(B)
  BY DEF FoldArgs
<1> DEFINE g == CHOOSE f : f \in [SUBSET DOMAIN s -> A] /\ IsFold(f, G, b, s)
<1>1. g \in [SUBSET DOMAIN s -> A] /\ IsFold(g, G, b, s)
  BY <1>0, FoldExists
<1>2. DOMAIN s = 1..Len(s) /\ Len(s) \in Nat
  BY <1>0
<1>3. FoldOf(A, G, b, s) = g[1..Len(s)]
  BY <1>2 DEF FoldOf
<1> HIDE DEF g
<1>4. \A m \in 0..Len(s) : g[1..m] \in A
  BY <1>1, <1>2
<1>5. g[{}] = b
  BY <1>1 DEF IsFold
<1>6. ASSUME NEW m \in 1..Len(s) PROVE g[1..m] = G[<<g[1..m - 1], s[m]>>]
  <2>1. m \in Nat \ {0} /\ 1..m \in SUBSET DOMAIN s
    BY <1>2
  <2>2. g[1..m] = IF 1..m = {} THEN b
                  ELSE G[<<g[(1..m) \ {Seqs!Max(1..m)}], s[Seqs!Max(1..m)]>>]
    BY <1>1, <2>1 DEF IsFold
  <2> QED BY <2>1, <2>2, InitialFacts
<1>7. ASSUME NEW m \in 1..Len(s), h[1..m - 1] = g[1..m - 1] PROVE h[1..m] = g[1..m]
  <2>1. h[1..m - 1] \in A
    <3>1. m - 1 \in 0..Len(s)
      BY <1>2
    <3> QED BY <1>4, <1>7, <3>1
  <2> QED BY <1>6, <1>7, <2>1 DEF Folds
<1>8. h[1..Len(s)] = g[1..Len(s)]
  <2>1. Agree(h, g, Len(s))
    BY <1>5, <1>7 DEF Agree, Folds
  <2> QED BY <1>2, <2>1, FoldUnique
<1>9. Len(s) \in 0..Len(s)
  BY <1>2
<1> QED BY <1>3, <1>4, <1>8, <1>9

\* A fold of a longer sequence takes one more step.
LEMMA FoldFacts ==
  ASSUME NEW A, NEW B, NEW G, NEW b, FoldArgs(A, B, G, b, <<>>)
  PROVE  /\ FoldOf(A, G, b, <<>>) = b
         /\ \A s \in Seq(B) :
              /\ FoldOf(A, G, b, s) \in A
              /\ \A e \in B :
                   FoldOf(A, G, b, Append(s, e)) = G[<<FoldOf(A, G, b, s), e>>]
<1>0. G \in [A \X B -> A] /\ b \in A
  BY DEF FoldArgs
<1>1. ASSUME NEW s \in Seq(B)
      PROVE  \E f : /\ f[{}] = b
                    /\ \A m \in 1..Len(s) : f[1..m] = G[<<f[1..m - 1], s[m]>>]
  <2>1. PICK f : f \in [SUBSET DOMAIN s -> A] /\ IsFold(f, G, b, s)
    BY <1>0, FoldExists
  <2>2. f[{}] = b
    BY <2>1 DEF IsFold
  <2>3. ASSUME NEW m \in 1..Len(s) PROVE f[1..m] = G[<<f[1..m - 1], s[m]>>]
    <3>1. m \in Nat \ {0} /\ 1..m \in SUBSET DOMAIN s
      OBVIOUS
    <3>2. f[1..m] = IF 1..m = {} THEN b
                    ELSE G[<<f[(1..m) \ {Seqs!Max(1..m)}], s[Seqs!Max(1..m)]>>]
      BY <2>1, <3>1 DEF IsFold
    <3> QED BY <3>1, <3>2, InitialFacts
  <2> QED BY <2>2, <2>3
<1>2. FoldOf(A, G, b, <<>>) = b
  <2>1. <<>> \in Seq(B) /\ Len(<<>>) = 0 /\ 1..0 = {}
    OBVIOUS
  <2>2. PICK f : f[{}] = b /\ \A m \in 1..Len(<<>>) : f[1..m] = G[<<f[1..m - 1], <<>>[m]>>]
    BY <1>1, <2>1
  <2>3. f[1..Len(<<>>)] = FoldOf(A, G, b, <<>>)
    <3>1. Folds(f, A, G, b, <<>>)
      BY <2>2 DEF Folds
    <3>2. FoldArgs(A, B, G, b, <<>>)
      BY <1>0, <2>1 DEF FoldArgs
    <3> QED BY <3>1, <3>2, FoldEquals
  <2> QED BY <2>1, <2>2, <2>3
<1>3. ASSUME NEW s \in Seq(B) PROVE FoldOf(A, G, b, s) \in A
  <2>1. PICK f : Folds(f, A, G, b, s)
    BY <1>1 DEF Folds
  <2>2. FoldArgs(A, B, G, b, s)
    BY <1>0 DEF FoldArgs
  <2> QED BY <2>1, <2>2, FoldEquals
<1>4. ASSUME NEW s \in Seq(B), NEW e \in B
      PROVE  FoldOf(A, G, b, Append(s, e)) = G[<<FoldOf(A, G, b, s), e>>]
  <2>1. Append(s, e) \in Seq(B)
    OBVIOUS
  <2>2. PICK w : w = Append(s, e)
    OBVIOUS
  <2>3. /\ Len(s) \in Nat /\ w \in Seq(B) /\ Len(w) = Len(s) + 1 /\ w[Len(s) + 1] = e
        /\ \A m \in 1..Len(s) : w[m] = s[m] /\ m \in 1..Len(w)
        /\ Len(s) + 1 \in 1..Len(w) /\ (Len(s) + 1) - 1 = Len(s)
    BY <2>1, <2>2
  <2>4. PICK f : f[{}] = b /\ \A m \in 1..Len(w) : f[1..m] = G[<<f[1..m - 1], w[m]>>]
    BY <1>1, <2>3
  <2>5. f[1..Len(w)] = FoldOf(A, G, b, w)
    <3>1. Folds(f, A, G, b, w)
      BY <2>4 DEF Folds
    <3>2. FoldArgs(A, B, G, b, w)
      BY <1>0, <2>3 DEF FoldArgs
    <3> QED BY <3>1, <3>2, FoldEquals
  <2>6. \A m \in 1..Len(s) : f[1..m] = G[<<f[1..m - 1], s[m]>>]
    BY <2>3, <2>4
  <2>7. f[1..Len(s)] = FoldOf(A, G, b, s)
    <3>1. Folds(f, A, G, b, s)
      BY <2>4, <2>6 DEF Folds
    <3>2. FoldArgs(A, B, G, b, s)
      BY <1>0 DEF FoldArgs
    <3> QED BY <3>1, <3>2, FoldEquals
  <2>8. f[1..Len(s) + 1] = G[<<f[1..Len(s)], e>>]
    BY <2>3, <2>4
  <2> QED BY <2>2, <2>3, <2>5, <2>7, <2>8
<1> QED BY <1>2, <1>3, <1>4

\* The companion's record of a log, event by event.
RecordClosed(A, B, b) == b \in A /\ \A x \in A, e \in B : Record(x, e) \in A

\* RecordAll takes the events one after the other, in a closed set of records.
LEMMA RecordFold ==
  ASSUME NEW A, NEW B, NEW b, RecordClosed(A, B, b)
  PROVE  /\ RecordAll(b, <<>>) = b
         /\ \A s \in Seq(B) :
              /\ RecordAll(b, s) \in A
              /\ \A e \in B : RecordAll(b, Append(s, e)) = Record(RecordAll(b, s), e)
<1>0. b \in A /\ \A x \in A, e \in B : Record(x, e) \in A
  BY DEF RecordClosed
<1> DEFINE G == [p \in A \X B |-> Record(p[1], p[2])]
           Solves(f, s) == f = [t \in SUBSET DOMAIN s |->
             IF t = {} THEN b ELSE Record(f[t \ {Seqs!Max(t)}], s[Seqs!Max(t)])]
<1>1. \A s : Seqs!FoldLeft(Record, b, s) = (CHOOSE f : Solves(f, s))[DOMAIN s]
  BY Zenon DEF Seqs!FoldLeft, Seqs!MapThenFoldSet
<1>2. G \in [A \X B -> A]
  BY <1>0
<1>3. \A x \in A, e \in B : G[<<x, e>>] = Record(x, e)
  BY <1>0
<1> HIDE DEF G
<1>4. ASSUME NEW s \in Seq(B) PROVE Seqs!FoldLeft(Record, b, s) = FoldOf(A, G, b, s)
  <2>1. \E f : Solves(f, s)
    <3>1. PICK f \in [SUBSET DOMAIN s -> A] : IsFold(f, G, b, s)
      BY <1>0, <1>2, FoldExists
    <3>2. \A t \in SUBSET DOMAIN s : t # {} => Seqs!Max(t) \in t
      <4>1. DOMAIN s = 1..Len(s) /\ Len(s) \in Nat
        OBVIOUS
      <4> QED BY <4>1, MaxFacts
    <3>3. ASSUME NEW t \in SUBSET DOMAIN s, t # {}
          PROVE  f[t \ {Seqs!Max(t)}] \in A /\ s[Seqs!Max(t)] \in B
      BY <3>2, <3>3
    <3>4. \A t \in SUBSET DOMAIN s :
            f[t] = IF t = {} THEN b ELSE Record(f[t \ {Seqs!Max(t)}], s[Seqs!Max(t)])
      BY <1>3, <3>1, <3>3 DEF IsFold
    <3>5. Solves(f, s)
      BY <3>4
    <3> QED BY <3>5
  <2>2. PICK h : h = CHOOSE f : Solves(f, s)
    OBVIOUS
  <2>3. Solves(h, s)
    BY <2>1, <2>2
  <2>4. h[{}] = b
    BY <2>3
  <2>5. ASSUME NEW m \in 1..Len(s), h[1..m - 1] \in A
        PROVE  h[1..m] = G[<<h[1..m - 1], s[m]>>]
    <3>1. m \in Nat \ {0} /\ 1..m \in SUBSET DOMAIN s /\ s[m] \in B
      OBVIOUS
    <3>2. h[1..m] = IF 1..m = {} THEN b
                    ELSE Record(h[(1..m) \ {Seqs!Max(1..m)}], s[Seqs!Max(1..m)])
      BY <2>3, <3>1
    <3>3. h[1..m] = Record(h[1..m - 1], s[m])
      BY <3>1, <3>2, InitialFacts
    <3> QED BY <1>3, <2>5, <3>1, <3>3
  <2> HIDE DEF Solves
  <2>6. h[1..Len(s)] = FoldOf(A, G, b, s)
    <3>1. Folds(h, A, G, b, s)
      BY <2>4, <2>5 DEF Folds
    <3>2. FoldArgs(A, B, G, b, s)
      BY <1>0, <1>2 DEF FoldArgs
    <3> QED BY <3>1, <3>2, FoldEquals
  <2> QED BY <1>0, <1>1, <2>2, <2>6
<1>5. <<>> \in Seq(B) /\ \A s \in Seq(B), e \in B : Append(s, e) \in Seq(B)
  OBVIOUS
<1>6. FoldArgs(A, B, G, b, <<>>)
  BY <1>0, <1>2, <1>5 DEF FoldArgs
<1> HIDE DEF Solves
<1>7. Seqs!FoldLeft(Record, b, <<>>) = b
  <2>1. Seqs!FoldLeft(Record, b, <<>>) = FoldOf(A, G, b, <<>>)
    BY <1>4, <1>5
  <2>2. FoldOf(A, G, b, <<>>) = b
    BY <1>6, FoldFacts
  <2> QED BY <2>1, <2>2
<1>8. ASSUME NEW s \in Seq(B), NEW e \in B
      PROVE  Seqs!FoldLeft(Record, b, Append(s, e)) = Record(Seqs!FoldLeft(Record, b, s), e)
  <2>1. Seqs!FoldLeft(Record, b, Append(s, e)) = FoldOf(A, G, b, Append(s, e))
    BY <1>4, <1>5
  <2>2. /\ FoldOf(A, G, b, s) \in A
        /\ FoldOf(A, G, b, Append(s, e)) = G[<<FoldOf(A, G, b, s), e>>]
    BY <1>6, FoldFacts
  <2> QED BY <1>3, <1>4, <2>1, <2>2
<1>9. ASSUME NEW s \in Seq(B) PROVE Seqs!FoldLeft(Record, b, s) \in A
  BY <1>4, <1>6, FoldFacts
<1> QED BY Zenon, <1>7, <1>8, <1>9 DEF RecordAll

\* The repair's scan of a log, event by event.
ScanClosed(A, B) == NothingOpen \in A /\ \A x \in A, e \in B : Scan(x, e) \in A

\* OpenTail takes the events one after the other, in a closed set of tails.
LEMMA ScanFold ==
  ASSUME NEW A, NEW B, ScanClosed(A, B)
  PROVE  /\ OpenTail(<<>>) = NothingOpen
         /\ \A s \in Seq(B) :
              /\ OpenTail(s) \in A
              /\ \A e \in B : OpenTail(Append(s, e)) = Scan(OpenTail(s), e)
<1> PICK b : b = NothingOpen
  OBVIOUS
<1>0. b \in A /\ \A x \in A, e \in B : Scan(x, e) \in A
  BY DEF ScanClosed
<1> DEFINE G == [p \in A \X B |-> Scan(p[1], p[2])]
           Solves(f, s) == f = [t \in SUBSET DOMAIN s |->
             IF t = {} THEN b ELSE Scan(f[t \ {Seqs!Max(t)}], s[Seqs!Max(t)])]
<1>1. \A s : Seqs!FoldLeft(Scan, b, s) = (CHOOSE f : Solves(f, s))[DOMAIN s]
  BY Zenon DEF Seqs!FoldLeft, Seqs!MapThenFoldSet
<1>2. G \in [A \X B -> A]
  BY <1>0
<1>3. \A x \in A, e \in B : G[<<x, e>>] = Scan(x, e)
  BY <1>0
<1> HIDE DEF G
<1>4. ASSUME NEW s \in Seq(B) PROVE Seqs!FoldLeft(Scan, b, s) = FoldOf(A, G, b, s)
  <2>1. \E f : Solves(f, s)
    <3>1. PICK f \in [SUBSET DOMAIN s -> A] : IsFold(f, G, b, s)
      BY <1>0, <1>2, FoldExists
    <3>2. \A t \in SUBSET DOMAIN s : t # {} => Seqs!Max(t) \in t
      <4>1. DOMAIN s = 1..Len(s) /\ Len(s) \in Nat
        OBVIOUS
      <4> QED BY <4>1, MaxFacts
    <3>3. ASSUME NEW t \in SUBSET DOMAIN s, t # {}
          PROVE  f[t \ {Seqs!Max(t)}] \in A /\ s[Seqs!Max(t)] \in B
      BY <3>2, <3>3
    <3>4. \A t \in SUBSET DOMAIN s :
            f[t] = IF t = {} THEN b ELSE Scan(f[t \ {Seqs!Max(t)}], s[Seqs!Max(t)])
      BY <1>3, <3>1, <3>3 DEF IsFold
    <3>5. Solves(f, s)
      BY <3>4
    <3> QED BY <3>5
  <2>2. PICK h : h = CHOOSE f : Solves(f, s)
    OBVIOUS
  <2>3. Solves(h, s)
    BY <2>1, <2>2
  <2>4. h[{}] = b
    BY <2>3
  <2>5. ASSUME NEW m \in 1..Len(s), h[1..m - 1] \in A
        PROVE  h[1..m] = G[<<h[1..m - 1], s[m]>>]
    <3>1. m \in Nat \ {0} /\ 1..m \in SUBSET DOMAIN s /\ s[m] \in B
      OBVIOUS
    <3>2. h[1..m] = IF 1..m = {} THEN b
                    ELSE Scan(h[(1..m) \ {Seqs!Max(1..m)}], s[Seqs!Max(1..m)])
      BY <2>3, <3>1
    <3>3. h[1..m] = Scan(h[1..m - 1], s[m])
      BY <3>1, <3>2, InitialFacts
    <3> QED BY <1>3, <2>5, <3>1, <3>3
  <2> HIDE DEF Solves
  <2>6. h[1..Len(s)] = FoldOf(A, G, b, s)
    <3>1. Folds(h, A, G, b, s)
      BY <2>4, <2>5 DEF Folds
    <3>2. FoldArgs(A, B, G, b, s)
      BY <1>0, <1>2 DEF FoldArgs
    <3> QED BY <3>1, <3>2, FoldEquals
  <2> QED BY <1>0, <1>1, <2>2, <2>6
<1>5. <<>> \in Seq(B) /\ \A s \in Seq(B), e \in B : Append(s, e) \in Seq(B)
  OBVIOUS
<1>6. FoldArgs(A, B, G, b, <<>>)
  BY <1>0, <1>2, <1>5 DEF FoldArgs
<1> HIDE DEF Solves
<1>7. Seqs!FoldLeft(Scan, b, <<>>) = b
  <2>1. Seqs!FoldLeft(Scan, b, <<>>) = FoldOf(A, G, b, <<>>)
    BY <1>4, <1>5
  <2>2. FoldOf(A, G, b, <<>>) = b
    BY <1>6, FoldFacts
  <2> QED BY <2>1, <2>2
<1>8. ASSUME NEW s \in Seq(B), NEW e \in B
      PROVE  Seqs!FoldLeft(Scan, b, Append(s, e)) = Scan(Seqs!FoldLeft(Scan, b, s), e)
  <2>1. Seqs!FoldLeft(Scan, b, Append(s, e)) = FoldOf(A, G, b, Append(s, e))
    BY <1>4, <1>5
  <2>2. /\ FoldOf(A, G, b, s) \in A
        /\ FoldOf(A, G, b, Append(s, e)) = G[<<FoldOf(A, G, b, s), e>>]
    BY <1>6, FoldFacts
  <2> QED BY <1>3, <1>4, <2>1, <2>2
<1>9. ASSUME NEW s \in Seq(B) PROVE Seqs!FoldLeft(Scan, b, s) \in A
  BY <1>4, <1>6, FoldFacts
<1> QED BY Zenon, <1>7, <1>8, <1>9 DEF OpenTail

\* The turnBoundary projection of a log, event by event.
TurnClosed(A, B) == 0 \in A /\ \A x \in A, e \in B : TurnOf(x, e) \in A

\* LastTurn takes the events one after the other, in a closed set of numbers.
LEMMA TurnFold ==
  ASSUME NEW A, NEW B, TurnClosed(A, B)
  PROVE  /\ LastTurn(<<>>) = 0
         /\ \A s \in Seq(B) :
              /\ LastTurn(s) \in A
              /\ \A e \in B : LastTurn(Append(s, e)) = TurnOf(LastTurn(s), e)
<1> PICK b : b = 0
  OBVIOUS
<1>0. b \in A /\ \A x \in A, e \in B : TurnOf(x, e) \in A
  BY DEF TurnClosed
<1> DEFINE G == [p \in A \X B |-> TurnOf(p[1], p[2])]
           Solves(f, s) == f = [t \in SUBSET DOMAIN s |->
             IF t = {} THEN b ELSE TurnOf(f[t \ {Seqs!Max(t)}], s[Seqs!Max(t)])]
<1>1. \A s : Seqs!FoldLeft(TurnOf, b, s) = (CHOOSE f : Solves(f, s))[DOMAIN s]
  BY Zenon DEF Seqs!FoldLeft, Seqs!MapThenFoldSet
<1>2. G \in [A \X B -> A]
  BY <1>0
<1>3. \A x \in A, e \in B : G[<<x, e>>] = TurnOf(x, e)
  BY <1>0
<1> HIDE DEF G
<1>4. ASSUME NEW s \in Seq(B) PROVE Seqs!FoldLeft(TurnOf, b, s) = FoldOf(A, G, b, s)
  <2>1. \E f : Solves(f, s)
    <3>1. PICK f \in [SUBSET DOMAIN s -> A] : IsFold(f, G, b, s)
      BY <1>0, <1>2, FoldExists
    <3>2. \A t \in SUBSET DOMAIN s : t # {} => Seqs!Max(t) \in t
      <4>1. DOMAIN s = 1..Len(s) /\ Len(s) \in Nat
        OBVIOUS
      <4> QED BY <4>1, MaxFacts
    <3>3. ASSUME NEW t \in SUBSET DOMAIN s, t # {}
          PROVE  f[t \ {Seqs!Max(t)}] \in A /\ s[Seqs!Max(t)] \in B
      BY <3>2, <3>3
    <3>4. \A t \in SUBSET DOMAIN s :
            f[t] = IF t = {} THEN b ELSE TurnOf(f[t \ {Seqs!Max(t)}], s[Seqs!Max(t)])
      BY <1>3, <3>1, <3>3 DEF IsFold
    <3>5. Solves(f, s)
      BY <3>4
    <3> QED BY <3>5
  <2>2. PICK h : h = CHOOSE f : Solves(f, s)
    OBVIOUS
  <2>3. Solves(h, s)
    BY <2>1, <2>2
  <2>4. h[{}] = b
    BY <2>3
  <2>5. ASSUME NEW m \in 1..Len(s), h[1..m - 1] \in A
        PROVE  h[1..m] = G[<<h[1..m - 1], s[m]>>]
    <3>1. m \in Nat \ {0} /\ 1..m \in SUBSET DOMAIN s /\ s[m] \in B
      OBVIOUS
    <3>2. h[1..m] = IF 1..m = {} THEN b
                    ELSE TurnOf(h[(1..m) \ {Seqs!Max(1..m)}], s[Seqs!Max(1..m)])
      BY <2>3, <3>1
    <3>3. h[1..m] = TurnOf(h[1..m - 1], s[m])
      BY <3>1, <3>2, InitialFacts
    <3> QED BY <1>3, <2>5, <3>1, <3>3
  <2> HIDE DEF Solves
  <2>6. h[1..Len(s)] = FoldOf(A, G, b, s)
    <3>1. Folds(h, A, G, b, s)
      BY <2>4, <2>5 DEF Folds
    <3>2. FoldArgs(A, B, G, b, s)
      BY <1>0, <1>2 DEF FoldArgs
    <3> QED BY <3>1, <3>2, FoldEquals
  <2> QED BY <1>0, <1>1, <2>2, <2>6
<1>5. <<>> \in Seq(B) /\ \A s \in Seq(B), e \in B : Append(s, e) \in Seq(B)
  OBVIOUS
<1>6. FoldArgs(A, B, G, b, <<>>)
  BY <1>0, <1>2, <1>5 DEF FoldArgs
<1> HIDE DEF Solves
<1>7. Seqs!FoldLeft(TurnOf, b, <<>>) = b
  <2>1. Seqs!FoldLeft(TurnOf, b, <<>>) = FoldOf(A, G, b, <<>>)
    BY <1>4, <1>5
  <2>2. FoldOf(A, G, b, <<>>) = b
    BY <1>6, FoldFacts
  <2> QED BY <2>1, <2>2
<1>8. ASSUME NEW s \in Seq(B), NEW e \in B
      PROVE  Seqs!FoldLeft(TurnOf, b, Append(s, e)) = TurnOf(Seqs!FoldLeft(TurnOf, b, s), e)
  <2>1. Seqs!FoldLeft(TurnOf, b, Append(s, e)) = FoldOf(A, G, b, Append(s, e))
    BY <1>4, <1>5
  <2>2. /\ FoldOf(A, G, b, s) \in A
        /\ FoldOf(A, G, b, Append(s, e)) = G[<<FoldOf(A, G, b, s), e>>]
    BY <1>6, FoldFacts
  <2> QED BY <1>3, <1>4, <2>1, <2>2
<1>9. ASSUME NEW s \in Seq(B) PROVE Seqs!FoldLeft(TurnOf, b, s) \in A
  BY <1>4, <1>6, FoldFacts
<1> QED BY Zenon, <1>7, <1>8, <1>9 DEF LastTurn

\* The call blocks of a message, one by one.
Entries(p, s) == Seqs!FoldLeft(SetEntry, p, s)
EntryClosed(A, B, b) == b \in A /\ \A x \in A, e \in B : SetEntry(x, e) \in A

\* Entries are set one after the other, in a closed set of maps.
LEMMA EntryFold ==
  ASSUME NEW A, NEW B, NEW b, EntryClosed(A, B, b)
  PROVE  /\ Entries(b, <<>>) = b
         /\ \A s \in Seq(B) :
              /\ Entries(b, s) \in A
              /\ \A e \in B : Entries(b, Append(s, e)) = SetEntry(Entries(b, s), e)
<1>0. b \in A /\ \A x \in A, e \in B : SetEntry(x, e) \in A
  BY DEF EntryClosed
<1> DEFINE G == [p \in A \X B |-> SetEntry(p[1], p[2])]
           Solves(f, s) == f = [t \in SUBSET DOMAIN s |->
             IF t = {} THEN b ELSE SetEntry(f[t \ {Seqs!Max(t)}], s[Seqs!Max(t)])]
<1>1. \A s : Seqs!FoldLeft(SetEntry, b, s) = (CHOOSE f : Solves(f, s))[DOMAIN s]
  BY Zenon DEF Seqs!FoldLeft, Seqs!MapThenFoldSet
<1>2. G \in [A \X B -> A]
  BY <1>0
<1>3. \A x \in A, e \in B : G[<<x, e>>] = SetEntry(x, e)
  BY <1>0
<1> HIDE DEF G
<1>4. ASSUME NEW s \in Seq(B) PROVE Seqs!FoldLeft(SetEntry, b, s) = FoldOf(A, G, b, s)
  <2>1. \E f : Solves(f, s)
    <3>1. PICK f \in [SUBSET DOMAIN s -> A] : IsFold(f, G, b, s)
      BY <1>0, <1>2, FoldExists
    <3>2. \A t \in SUBSET DOMAIN s : t # {} => Seqs!Max(t) \in t
      <4>1. DOMAIN s = 1..Len(s) /\ Len(s) \in Nat
        OBVIOUS
      <4> QED BY <4>1, MaxFacts
    <3>3. ASSUME NEW t \in SUBSET DOMAIN s, t # {}
          PROVE  f[t \ {Seqs!Max(t)}] \in A /\ s[Seqs!Max(t)] \in B
      BY <3>2, <3>3
    <3>4. \A t \in SUBSET DOMAIN s :
            f[t] = IF t = {} THEN b ELSE SetEntry(f[t \ {Seqs!Max(t)}], s[Seqs!Max(t)])
      BY <1>3, <3>1, <3>3 DEF IsFold
    <3>5. Solves(f, s)
      BY <3>4
    <3> QED BY <3>5
  <2>2. PICK h : h = CHOOSE f : Solves(f, s)
    OBVIOUS
  <2>3. Solves(h, s)
    BY <2>1, <2>2
  <2>4. h[{}] = b
    BY <2>3
  <2>5. ASSUME NEW m \in 1..Len(s), h[1..m - 1] \in A
        PROVE  h[1..m] = G[<<h[1..m - 1], s[m]>>]
    <3>1. m \in Nat \ {0} /\ 1..m \in SUBSET DOMAIN s /\ s[m] \in B
      OBVIOUS
    <3>2. h[1..m] = IF 1..m = {} THEN b
                    ELSE SetEntry(h[(1..m) \ {Seqs!Max(1..m)}], s[Seqs!Max(1..m)])
      BY <2>3, <3>1
    <3>3. h[1..m] = SetEntry(h[1..m - 1], s[m])
      BY <3>1, <3>2, InitialFacts
    <3> QED BY <1>3, <2>5, <3>1, <3>3
  <2> HIDE DEF Solves
  <2>6. h[1..Len(s)] = FoldOf(A, G, b, s)
    <3>1. Folds(h, A, G, b, s)
      BY <2>4, <2>5 DEF Folds
    <3>2. FoldArgs(A, B, G, b, s)
      BY <1>0, <1>2 DEF FoldArgs
    <3> QED BY <3>1, <3>2, FoldEquals
  <2> QED BY <1>0, <1>1, <2>2, <2>6
<1>5. <<>> \in Seq(B) /\ \A s \in Seq(B), e \in B : Append(s, e) \in Seq(B)
  OBVIOUS
<1>6. FoldArgs(A, B, G, b, <<>>)
  BY <1>0, <1>2, <1>5 DEF FoldArgs
<1> HIDE DEF Solves
<1>7. Seqs!FoldLeft(SetEntry, b, <<>>) = b
  <2>1. Seqs!FoldLeft(SetEntry, b, <<>>) = FoldOf(A, G, b, <<>>)
    BY <1>4, <1>5
  <2>2. FoldOf(A, G, b, <<>>) = b
    BY <1>6, FoldFacts
  <2> QED BY <2>1, <2>2
<1>8. ASSUME NEW s \in Seq(B), NEW e \in B
      PROVE  Seqs!FoldLeft(SetEntry, b, Append(s, e)) =
               SetEntry(Seqs!FoldLeft(SetEntry, b, s), e)
  <2>1. Seqs!FoldLeft(SetEntry, b, Append(s, e)) = FoldOf(A, G, b, Append(s, e))
    BY <1>4, <1>5
  <2>2. /\ FoldOf(A, G, b, s) \in A
        /\ FoldOf(A, G, b, Append(s, e)) = G[<<FoldOf(A, G, b, s), e>>]
    BY <1>6, FoldFacts
  <2> QED BY <1>3, <1>4, <2>1, <2>2
<1>9. ASSUME NEW s \in Seq(B) PROVE Seqs!FoldLeft(SetEntry, b, s) \in A
  BY <1>4, <1>6, FoldFacts
<1> QED BY Zenon, <1>7, <1>8, <1>9 DEF Entries

-----------------------------------------------------------------------------
(* The tool scheduler: its invariant *)

SkippedAnswer(i) == ToolResult(1, 1, i, Skipped)

\* The tool events the scheduler logs.
ToolEvent == {Called(i) : i \in Calls} \cup {Answered(i) : i \in Calls}
           \cup {SkippedAnswer(i) : i \in Calls}

\* The call after start may be logged already while it is being prepared.
Started == IF pc \in {"preparing", "failing", "threw"} THEN start ELSE start - 1

\* Inside a group, the next call is one of it or behind its end.
GroupInv ==
  pc \notin {"classify", "done"} =>
    /\ first <= start /\ start <= last + 1 /\ first <= committed + 1
    /\ mode = "exclusive" => last = first

\* A pool holds calls of the current group only, all started under its mode.
PoolInv ==
  /\ Cardinality(inFlight) <= MaxParallel /\ inFlight \subseteq first..start - 1
  /\ \A i \in inFlight : ranAs[i] = mode
  /\ pc = "preparing" => /\ Cardinality(inFlight) < MaxParallel
                         /\ start <= last /\ ranAs[start] = mode
  /\ pc \in {"classify", "drained", "done"} => inFlight = {}
  /\ pc = "threw" => running = {}

\* Unless the scheduler fails, a started call is in the pool, waits with its
\* result, or is committed; the next one to commit waits only where commitReady
\* is about to run.
CommitInv ==
  /\ committed < start
  /\ \A i \in Calls : slots[i] # "none" => i < start
  /\ pc \notin {"failing", "threw"} =>
       \A i \in committed + 1..start - 1 : i \in inFlight \/ slots[i] # "none"
  /\ pc \notin {"failing", "threw", "committing"} =>
       (committed + 1 < start => committed + 1 \in inFlight)
  /\ \A i \in inFlight \ running : slots[i] # "none" \/ failure = "set"

\* The log holds exactly the started and the committed calls, until an abort
\* adds the skipped ones.
LogInv ==
  /\ log \in Seq(ToolEvent)
  /\ pc # "done" =>
       \A k \in DOMAIN log :
         \/ \E i \in 1..Started : log[k] = Called(i)
         \/ \E i \in 1..committed : log[k] = Answered(i)
  /\ \A i \in 1..start - 1 : Logged(Called(i))
  /\ pc = "preparing" => Logged(Called(start))
  /\ \A i \in 1..committed : Logged(Answered(i))

\* The inductive invariant.
SchedulerInv == /\ TypeOK /\ GroupInv /\ PoolInv /\ CommitInv /\ LogInv
        /\ ModelOrder /\ ResultsFollowCalls /\ AllAnswered
-----------------------------------------------------------------------------
(* Lemmas about the log *)

\* A start and the two kinds of results of a call are told apart.
LEMMA ToolEventShape ==
  ASSUME NEW i
  PROVE  /\ Called(i).type = "tool/call" /\ Called(i).call = i
         /\ Answered(i).type = "tool/result" /\ Answered(i).call = i
         /\ Answered(i).code = "none"
         /\ SkippedAnswer(i).type = "tool/result" /\ SkippedAnswer(i).call = i
         /\ SkippedAnswer(i).code = Skipped /\ Skipped # "none"
  BY DEF Called, Answered, SkippedAnswer, ToolCall, ToolResult, Skipped

\* Appending the next event of its kind, a result only behind its call, keeps
\* the order of the log.
LEMMA LogGrows ==
  ASSUME log \in Seq(ToolEvent), ModelOrder, ResultsFollowCalls,
         NEW e \in ToolEvent, log' = Append(log, e),
         \A k \in DOMAIN log : log[k].type = e.type => log[k].call < e.call,
         e.type = "tool/result" => Logged(Called(e.call))
  PROVE  /\ log' \in Seq(ToolEvent) /\ ModelOrder' /\ ResultsFollowCalls'
         /\ Logged(e)' /\ \A d : Logged(d) => Logged(d)'
         /\ \A k \in DOMAIN log' : (k \in DOMAIN log /\ log'[k] = log[k]) \/ log'[k] = e
<1>1. /\ log' \in Seq(ToolEvent) /\ DOMAIN log = 1..Len(log) /\ Len(log) \in Nat
      /\ DOMAIN log' = 1..Len(log) + 1 /\ log'[Len(log) + 1] = e
      /\ \A k \in 1..Len(log) : log'[k] = log[k]
  OBVIOUS
<1>2. ModelOrder'
  <2> SUFFICES ASSUME NEW j \in DOMAIN log', NEW k \in DOMAIN log',
                      j < k, log'[j].type = log'[k].type
               PROVE  log'[j].call < log'[k].call
    BY DEF ModelOrder
  <2>1. j \in DOMAIN log /\ log'[j] = log[j]
    BY <1>1
  <2>2. CASE k = Len(log) + 1
    BY <1>1, <2>1, <2>2
  <2>3. CASE k # Len(log) + 1
    BY <1>1, <2>1, <2>3 DEF ModelOrder
  <2> QED BY <2>2, <2>3
<1>3. ResultsFollowCalls'
  <2> SUFFICES ASSUME NEW k \in DOMAIN log', log'[k].type = "tool/result"
               PROVE  \E j \in 1..k - 1 : log'[j] = Called(log'[k].call)
    BY DEF ResultsFollowCalls
  <2>1. CASE k = Len(log) + 1
    <3>1. PICK j \in DOMAIN log : log[j] = Called(e.call)
      BY <1>1, <2>1 DEF Logged
    <3>2. j \in 1..k - 1 /\ log'[j] = log[j] /\ log'[k] = e
      BY <1>1, <2>1
    <3> QED BY <3>1, <3>2
  <2>2. CASE k # Len(log) + 1
    <3>1. k \in DOMAIN log /\ log'[k] = log[k]
      BY <1>1, <2>2
    <3>2. PICK j \in 1..k - 1 : log[j] = Called(log[k].call)
      BY <3>1 DEF ResultsFollowCalls
    <3>3. log'[j] = log[j]
      BY <1>1, <3>1
    <3> QED BY <3>1, <3>2, <3>3
  <2> QED BY <2>1, <2>2
<1>4. Logged(e)' /\ \A d : Logged(d) => Logged(d)'
  BY <1>1 DEF Logged
<1> QED BY <1>1, <1>2, <1>3, <1>4

\* Nothing the log decides changes while it stays the same.
LEMMA LogKept ==
  ASSUME SchedulerInv, UNCHANGED log
  PROVE  /\ ModelOrder' /\ ResultsFollowCalls' /\ log' \in Seq(ToolEvent)
         /\ \A d : Logged(d)' <=> Logged(d)
  BY DEF SchedulerInv, LogInv, ModelOrder, ResultsFollowCalls, Logged

\* The synthetic pairs cover the calls from i on, in order.
LEMMA SkippedPairsFacts ==
  ASSUME NEW i \in 1..N + 1
  PROVE  /\ SkippedPairs(i) \in Seq(ToolEvent)
         /\ Len(SkippedPairs(i)) = 2 * (N + 1 - i)
         /\ \A k \in 1..2 * (N + 1 - i) :
              \E c \in i..N :
                \/ k = 2 * (c - i) + 1 /\ SkippedPairs(i)[k] = Called(c)
                \/ k = 2 * (c - i) + 2 /\ SkippedPairs(i)[k] = SkippedAnswer(c)
         /\ \A c \in i..N :
              /\ SkippedPairs(i)[2 * (c - i) + 1] = Called(c)
              /\ SkippedPairs(i)[2 * (c - i) + 2] = SkippedAnswer(c)
<1> DEFINE P == SkippedPairs(i)
           L == 2 * (N + 1 - i)
<1>1. N \in Nat /\ L \in Nat
  BY SchedulerAssumption
<1>2. ASSUME NEW c \in i..N
      PROVE  /\ 2 * (c - i) + 1 \in 1..L /\ P[2 * (c - i) + 1] = Called(c)
             /\ 2 * (c - i) + 2 \in 1..L /\ P[2 * (c - i) + 2] = SkippedAnswer(c)
  <2>1. 2 * (c - i) + 1 \in 1..L /\ 2 * (c - i) + 2 \in 1..L
    BY <1>1
  <2>2. /\ i + ((2 * (c - i) + 1) - 1) \div 2 = c
        /\ (2 * (c - i) + 1) % 2 = 1
        /\ i + ((2 * (c - i) + 2) - 1) \div 2 = c
        /\ (2 * (c - i) + 2) % 2 # 1
    BY <1>1
  <2> QED BY <2>1, <2>2 DEF SkippedPairs, SkippedAnswer
<1>3. ASSUME NEW k \in 1..L
      PROVE  \E c \in i..N : k = 2 * (c - i) + 1 \/ k = 2 * (c - i) + 2
  <2>1. i + (k - 1) \div 2 \in i..N
    BY <1>1
  <2>2. \/ k = 2 * ((i + (k - 1) \div 2) - i) + 1
        \/ k = 2 * ((i + (k - 1) \div 2) - i) + 2
    BY <1>1
  <2> QED BY <2>1, <2>2
<1>4. \A c \in i..N : Called(c) \in ToolEvent /\ SkippedAnswer(c) \in ToolEvent
  BY <1>1 DEF ToolEvent, Calls
<1>5. \A k \in 1..L : P[k] \in ToolEvent
  BY <1>2, <1>3, <1>4
<1>6. P \in Seq(ToolEvent) /\ Len(P) = L
  <2>1. P = [k \in 1..L |-> P[k]]
    BY DEF SkippedPairs
  <2> HIDE DEF P, L
  <2> QED BY <1>1, <1>5, <2>1
<1> QED BY <1>2, <1>3, <1>6
-----------------------------------------------------------------------------
(* The invariant *)

\* A step of a message whose calls were not looked at yet.
LEMMA SchedulerInit == Init => SchedulerInv
<1> SUFFICES ASSUME Init PROVE SchedulerInv
  OBVIOUS
<1>1. TypeOK
  <2>1. /\ slots \in [Calls -> {"none", "settled"}]
        /\ ranAs \in [Calls -> Mode \cup {"none"}]
    BY DEF Init
  <2>2. first \in 1..N + 1 /\ last \in 0..N /\ start \in 1..N + 1 /\ committed \in 0..N
    BY SchedulerAssumption DEF Init
  <2> QED BY <2>1, <2>2 DEF Init, TypeOK, Mode
<1>2. GroupInv /\ CommitInv
  BY SchedulerAssumption DEF Init, GroupInv, CommitInv, Calls
<1>3. PoolInv
  <2>1. Cardinality(inFlight) = 0
    BY FS_EmptySet DEF Init
  <2> QED BY <2>1, SchedulerAssumption DEF Init, PoolInv
<1>4. LogInv /\ ModelOrder /\ ResultsFollowCalls /\ AllAnswered
  BY DEF Init, LogInv, ModelOrder, ResultsFollowCalls, AllAnswered
<1> QED BY <1>1, <1>2, <1>3, <1>4 DEF SchedulerInv

\* Every step keeps the invariant.
LEMMA SchedulerSteps == SchedulerInv /\ [Next]_vars => SchedulerInv'
<1> SUFFICES ASSUME SchedulerInv, [Next]_vars PROVE SchedulerInv'
  OBVIOUS
<1> USE SchedulerAssumption DEF groupVars, poolVars
<1>0. ASSUME TypeOK', GroupInv', PoolInv', CommitInv', LogInv', ModelOrder',
             ResultsFollowCalls', AllAnswered'
      PROVE  SchedulerInv'
  BY <1>0 DEF SchedulerInv
<1>a. IsFiniteSet(inFlight) /\ IsFiniteSet(Calls)
  <2>1. IsFiniteSet(1..N)
    BY FS_Interval
  <2> QED BY <2>1, FS_Subset DEF SchedulerInv, TypeOK, Calls
<1>1. CASE Classify
  <2>1. /\ UNCHANGED <<signal, start, committed, poolVars, log, ranAs>>
        /\ pc = "classify" /\ pc' \in {"done", "fill"}
    BY <1>1 DEF Classify
  <2>2. TypeOK'
    <3>1. /\ first' \in {first, start} /\ last' \in {last, N, start}
          /\ mode' \in Mode /\ aborted' \in BOOLEAN
          /\ last' = last \/ start <= N
      BY <1>1 DEF Classify, SchedulerInv, TypeOK
    <3>2. last' \in 0..N
      BY <3>1 DEF SchedulerInv, TypeOK
    <3> QED BY <2>1, <3>1, <3>2 DEF SchedulerInv, TypeOK
  <2>3. inFlight = {} /\ committed + 1 = start
    BY <2>1 DEF SchedulerInv, TypeOK, PoolInv, CommitInv
  <2>4. GroupInv'
    BY <1>1, <2>3 DEF Classify, SchedulerInv, TypeOK, GroupInv
  <2>5. PoolInv'
    <3>1. Cardinality(inFlight) <= MaxParallel
      BY DEF SchedulerInv, PoolInv
    <3>2. inFlight' = {} /\ pc' # "threw" /\ pc' # "preparing"
      BY <2>1, <2>3
    <3> QED BY <2>1, <2>3, <3>1, <3>2 DEF PoolInv
  <2>6. CommitInv'
    BY <2>1, <2>3 DEF SchedulerInv, TypeOK, CommitInv
  <2>7. LogInv'
    BY <2>1, LogKept DEF SchedulerInv, LogInv, Started, Logged
  <2>8. AllAnswered'
    BY <1>1, <2>1, <2>3 DEF Classify, SchedulerInv, TypeOK, LogInv, AllAnswered, Calls, Logged
  <2> QED BY <1>0, <2>1, <2>2, <2>4, <2>5, <2>6, <2>7, <2>8, LogKept
<1>2. CASE StartCall
  <2>1. /\ UNCHANGED <<signal, aborted, groupVars, start, committed, poolVars>>
        /\ pc = "fill" /\ pc' = "preparing" /\ log' = Append(log, Called(start))
        /\ start <= last /\ Cardinality(inFlight) < MaxParallel
    BY <1>2 DEF StartCall, MayStart
  <2>2. PICK class \in Mode : /\ start = first => class = mode
                              /\ MayStart(class)
                              /\ ranAs' = [ranAs EXCEPT ![start] = class]
    BY <1>2 DEF StartCall
  <2>3. class = mode
    BY <2>1, <2>2 DEF SchedulerInv, TypeOK, GroupInv, MayStart, Mode
  <2>4. start \in Calls /\ Called(start) \in ToolEvent
    BY <2>1 DEF SchedulerInv, TypeOK, Calls, ToolEvent
  <2>5. TypeOK'
    BY <2>1, <2>2 DEF SchedulerInv, TypeOK
  <2>6. GroupInv' /\ CommitInv'
    BY <2>1 DEF SchedulerInv, GroupInv, CommitInv
  <2>7. PoolInv'
    <3>1. \A i \in inFlight : ranAs'[i] = mode
      BY <2>1, <2>2, <2>3, <2>4 DEF SchedulerInv, TypeOK, PoolInv
    <3>2. ranAs'[start] = mode
      BY <2>2, <2>3, <2>4 DEF SchedulerInv, TypeOK
    <3> QED BY <2>1, <3>1, <3>2 DEF SchedulerInv, PoolInv
  <2>8. \A k \in DOMAIN log : log[k].type = Called(start).type =>
                                log[k].call < Called(start).call
    <3> TAKE k \in DOMAIN log
    <3>1. CASE \E i \in 1..start - 1 : log[k] = Called(i)
      BY <3>1, ToolEventShape DEF SchedulerInv, TypeOK
    <3>2. CASE \E i \in 1..committed : log[k] = Answered(i)
      BY <3>2, ToolEventShape
    <3> QED BY <2>1, <3>1, <3>2 DEF SchedulerInv, LogInv, Started
  <2>9. /\ log' \in Seq(ToolEvent) /\ ModelOrder' /\ ResultsFollowCalls'
        /\ Logged(Called(start))' /\ \A d : Logged(d) => Logged(d)'
        /\ \A k \in DOMAIN log' : \/ k \in DOMAIN log /\ log'[k] = log[k]
                                  \/ log'[k] = Called(start)
    BY <2>1, <2>4, <2>8, LogGrows, ToolEventShape DEF SchedulerInv, LogInv
  <2>10. LogInv'
    <3>1. ASSUME NEW k \in DOMAIN log'
          PROVE  \/ \E i \in 1..Started' : log'[k] = Called(i)
                 \/ \E i \in 1..committed' : log'[k] = Answered(i)
      <4>1. Started' = start /\ Started = start - 1 /\ start \in Nat \ {0}
        BY <2>1 DEF Started, SchedulerInv, TypeOK
      <4>2. CASE log'[k] = Called(start)
        BY <4>1, <4>2
      <4>3. CASE k \in DOMAIN log /\ log'[k] = log[k]
        BY <2>1, <4>1, <4>3 DEF SchedulerInv, LogInv
      <4> QED BY <2>9, <4>2, <4>3
    <3> QED BY <2>1, <2>9, <3>1 DEF SchedulerInv, LogInv
  <2> QED BY <1>0, <2>1, <2>5, <2>6, <2>7, <2>9, <2>10 DEF AllAnswered
<1>3. CASE StopFilling
  <2>1. /\ UNCHANGED <<signal, aborted, groupVars, start, committed, poolVars, log, ranAs>>
        /\ pc = "fill" /\ pc' = IF inFlight # {} THEN "racing" ELSE "drained"
    BY <1>3 DEF StopFilling
  <2>2. TypeOK' /\ GroupInv' /\ CommitInv' /\ PoolInv'
    BY <2>1 DEF SchedulerInv, TypeOK, GroupInv, CommitInv, PoolInv
  <2>3. LogInv'
    BY <2>1, LogKept DEF SchedulerInv, LogInv, Started, Logged
  <2> QED BY <1>0, <2>1, <2>2, <2>3, LogKept DEF AllAnswered
<1>4. CASE Prepared
  <2>1. /\ UNCHANGED <<signal, aborted, groupVars, committed, log, ranAs>>
        /\ pc = "preparing" /\ start <= last /\ start \in Calls
    BY <1>4 DEF Prepared, SchedulerInv, TypeOK, PoolInv, Calls
  <2>2. LogInv'
    <3>1. Logged(Called(start))
      BY <2>1 DEF SchedulerInv, LogInv
    <3>2. (start' = start /\ pc' = "failing") \/ (start' = start + 1 /\ pc' = "committing")
      BY <1>4 DEF Prepared
    <3>3. start \in Nat /\ Started' = start /\ Started = start
      BY <2>1, <3>2 DEF Started, SchedulerInv, TypeOK
    <3> QED BY <2>1, <3>1, <3>2, <3>3, LogKept DEF SchedulerInv, LogInv
  <2>3. CASE /\ start' = start + 1 /\ pc' = "committing" /\ UNCHANGED <<slots, failure>>
             /\ inFlight' = inFlight \cup {start} /\ running' = running \cup {start}
    <3>1. TypeOK' /\ GroupInv'
      BY <2>1, <2>3 DEF SchedulerInv, TypeOK, GroupInv, Calls
    <3>2. Cardinality(inFlight') <= MaxParallel
      <4>1. start \notin inFlight
        BY <2>1 DEF SchedulerInv, TypeOK, PoolInv
      <4>2. Cardinality(inFlight') = Cardinality(inFlight) + 1
        BY <1>a, <2>3, <4>1, FS_AddElement
      <4>3. Cardinality(inFlight) < MaxParallel /\ Cardinality(inFlight) \in Nat
        BY <1>a, <2>1, FS_CardinalityType DEF SchedulerInv, PoolInv
      <4> QED BY <4>2, <4>3
    <3>3. PoolInv'
      <4>1. inFlight' \subseteq first'..start' - 1
        BY <2>1, <2>3 DEF SchedulerInv, TypeOK, PoolInv, GroupInv
      <4>2. \A i \in inFlight' : ranAs'[i] = mode'
        BY <2>1, <2>3 DEF SchedulerInv, PoolInv
      <4> QED BY <2>3, <3>2, <4>1, <4>2 DEF PoolInv
    <3>4. CommitInv'
      BY <2>1, <2>3 DEF SchedulerInv, TypeOK, CommitInv
    <3> QED BY <1>0, <2>1, <2>2, <2>3, <3>1, <3>3, <3>4, LogKept DEF AllAnswered
  <2>4. CASE /\ start' = start + 1 /\ pc' = "committing"
             /\ UNCHANGED <<inFlight, running, failure>>
             /\ slots' = [slots EXCEPT ![start] = "settled"]
    <3>1. TypeOK' /\ GroupInv'
      BY <2>1, <2>4 DEF SchedulerInv, TypeOK, GroupInv, Calls
    <3>2. PoolInv'
      BY <2>1, <2>4 DEF SchedulerInv, TypeOK, PoolInv
    <3>3. CommitInv'
      BY <2>1, <2>4 DEF SchedulerInv, TypeOK, CommitInv
    <3> QED BY <1>0, <2>1, <2>2, <2>4, <3>1, <3>2, <3>3, LogKept DEF AllAnswered
  <2>5. CASE /\ failure' = "set" /\ pc' = "failing"
             /\ UNCHANGED <<start, inFlight, running, slots>>
    <3>1. TypeOK' /\ GroupInv' /\ PoolInv' /\ CommitInv'
      BY <2>1, <2>5 DEF SchedulerInv, TypeOK, GroupInv, PoolInv, CommitInv
    <3> QED BY <1>0, <2>1, <2>2, <2>5, <3>1, LogKept DEF AllAnswered
  <2> QED BY <1>4, <2>3, <2>4, <2>5 DEF Prepared
<1>5. CASE Commit
  <2>1. /\ UNCHANGED <<signal, aborted, groupVars, start, inFlight, running, slots, ranAs>>
        /\ pc = "committing"
    BY <1>5 DEF Commit
  <2>2. PICK i \in first..last :
          /\ i = committed + 1 /\ slots[i] # "none"
          /\ \/ log' = Append(log, Answered(i)) /\ committed' = committed + 1
             \/ pc' = "failing" /\ UNCHANGED <<log, committed>>
          /\ UNCHANGED <<pc, failure>> \/ (failure' = "set" /\ pc' = "failing")
    BY <1>5 DEF Commit, CommitsNext
  <2>7. pc' \in {"committing", "failing"}
    BY <2>1, <2>2
  <2>3. i \in Calls /\ i < start /\ i \in 1..start - 1 /\ Answered(i) \in ToolEvent
    BY <2>2 DEF SchedulerInv, TypeOK, CommitInv, Calls, ToolEvent
  <2>4. GroupInv' /\ PoolInv' /\ CommitInv' /\ TypeOK'
    <3>1. TypeOK'
      BY <2>1, <2>2, <2>3 DEF SchedulerInv, TypeOK, Calls
    <3>2. GroupInv'
      BY <2>1, <2>2, <2>3 DEF SchedulerInv, TypeOK, GroupInv
    <3>3. PoolInv'
      BY <2>1, <2>2 DEF SchedulerInv, PoolInv
    <3>4. CommitInv'
      BY <2>1, <2>2, <2>3 DEF SchedulerInv, TypeOK, CommitInv
    <3> QED BY <3>1, <3>2, <3>3, <3>4
  <2>5. CASE log' = Append(log, Answered(i)) /\ committed' = committed + 1
    <3>1. \A k \in DOMAIN log : log[k].type = Answered(i).type =>
                                  log[k].call < Answered(i).call
      <4> TAKE k \in DOMAIN log
      <4>1. CASE \E c \in 1..Started : log[k] = Called(c)
        BY <4>1, ToolEventShape
      <4>2. CASE \E c \in 1..committed : log[k] = Answered(c)
        BY <2>2, <4>2, ToolEventShape DEF SchedulerInv, TypeOK
      <4> QED BY <2>1, <4>1, <4>2 DEF SchedulerInv, LogInv
    <3>2. Logged(Called(i))
      BY <2>3 DEF SchedulerInv, LogInv
    <3>3. /\ log' \in Seq(ToolEvent) /\ ModelOrder' /\ ResultsFollowCalls'
          /\ Logged(Answered(i))' /\ \A d : Logged(d) => Logged(d)'
          /\ \A k \in DOMAIN log' : \/ k \in DOMAIN log /\ log'[k] = log[k]
                                    \/ log'[k] = Answered(i)
      BY <2>3, <2>5, <3>1, <3>2, LogGrows, ToolEventShape DEF SchedulerInv, LogInv
    <3>4. LogInv'
      <4>1. /\ Started \in Nat /\ Started' \in {Started, Started + 1}
            /\ committed' = i /\ i \in Nat \ {0} /\ committed = i - 1
        BY <2>1, <2>2, <2>3, <2>5 DEF Started, SchedulerInv, TypeOK, Calls
      <4>2. ASSUME NEW k \in DOMAIN log'
            PROVE  \/ \E c \in 1..Started' : log'[k] = Called(c)
                   \/ \E c \in 1..committed' : log'[k] = Answered(c)
        <5>1. CASE log'[k] = Answered(i)
          BY <4>1, <5>1
        <5>2. CASE k \in DOMAIN log /\ log'[k] = log[k]
          BY <2>1, <4>1, <5>2 DEF SchedulerInv, LogInv
        <5> QED BY <3>3, <5>1, <5>2
      <4>3. \A c \in 1..committed' : Logged(Answered(c))'
        BY <3>3, <4>1 DEF SchedulerInv, LogInv
      <4> QED BY <2>1, <2>5, <2>7, <3>3, <4>2, <4>3 DEF SchedulerInv, LogInv
    <3> QED BY <1>0, <2>1, <2>4, <2>5, <2>7, <3>3, <3>4 DEF AllAnswered
  <2>6. CASE pc' = "failing" /\ UNCHANGED <<log, committed>>
    <3>1. Started = start - 1 /\ Started' = start /\ start \in Nat
      BY <2>1, <2>6 DEF Started, SchedulerInv, TypeOK
    <3>2. LogInv'
      BY <2>1, <2>6, <3>1, LogKept DEF SchedulerInv, LogInv
    <3> QED BY <1>0, <2>1, <2>4, <2>6, <3>2, LogKept DEF AllAnswered
  <2> QED BY <2>2, <2>5, <2>6
<1>6. CASE Committed
  <2>1. /\ UNCHANGED <<signal, groupVars, start, committed, poolVars, log, ranAs>>
        /\ pc = "committing" /\ pc' \in {"failing", "fill"}
        /\ aborted' = (aborted \/ signal = "aborted")
    BY <1>6 DEF Committed
  <2>2. committed + 1 < start => slots[committed + 1] = "none"
    BY <1>6 DEF Committed, CommitsNext, SchedulerInv, TypeOK, GroupInv
  <2>3. TypeOK' /\ GroupInv' /\ PoolInv'
    BY <2>1 DEF SchedulerInv, TypeOK, GroupInv, PoolInv
  <2>4. CommitInv'
    BY <2>1, <2>2 DEF SchedulerInv, TypeOK, CommitInv
  <2>5. LogInv'
    <3>1. start \in Nat /\ Started = start - 1 /\ Started' \in {start - 1, start}
      BY <2>1 DEF Started, SchedulerInv, TypeOK
    <3> QED BY <2>1, <3>1, LogKept DEF SchedulerInv, LogInv
  <2> QED BY <1>0, <2>1, <2>3, <2>4, <2>5, LogKept DEF AllAnswered
<1>7. CASE TakeSettled
  <2>1. /\ UNCHANGED <<signal, aborted, groupVars, start, committed, running,
                       slots, failure, log, ranAs>>
        /\ pc = "racing" /\ pc' = IF failure = "set" THEN "failing" ELSE "committing"
    BY <1>7 DEF TakeSettled
  <2>2. PICK i \in inFlight \ running : inFlight' = inFlight \ {i}
    BY <1>7 DEF TakeSettled, TakeOut
  <2>3. Cardinality(inFlight') <= MaxParallel
    <3>1. Cardinality(inFlight') = Cardinality(inFlight) - 1
      BY <1>a, <2>2, FS_RemoveElement
    <3>2. Cardinality(inFlight) <= MaxParallel /\ Cardinality(inFlight) \in Nat
      BY <1>a, FS_CardinalityType DEF SchedulerInv, PoolInv
    <3> QED BY <3>1, <3>2
  <2>4. TypeOK' /\ GroupInv' /\ PoolInv' /\ CommitInv'
    BY <2>1, <2>2, <2>3 DEF SchedulerInv, TypeOK, GroupInv, PoolInv, CommitInv
  <2>5. LogInv'
    <3>1. start \in Nat /\ Started = start - 1 /\ Started' \in {start - 1, start}
      BY <2>1 DEF Started, SchedulerInv, TypeOK
    <3> QED BY <2>1, <3>1, LogKept DEF SchedulerInv, LogInv
  <2> QED BY <1>0, <2>1, <2>4, <2>5, LogKept DEF AllAnswered
<1>8. CASE Throw
  <2>1. /\ UNCHANGED <<signal, aborted, groupVars, start, committed, poolVars, log, ranAs>>
        /\ pc = "failing" /\ pc' = "threw" /\ inFlight \cap running = {}
    BY <1>8 DEF Throw, AllSettled
  <2>2. TypeOK' /\ GroupInv' /\ PoolInv' /\ CommitInv'
    BY <2>1 DEF SchedulerInv, TypeOK, GroupInv, PoolInv, CommitInv
  <2>3. LogInv'
    BY <2>1, LogKept DEF SchedulerInv, LogInv, Started
  <2> QED BY <1>0, <2>1, <2>2, <2>3, LogKept DEF AllAnswered
<1>9. CASE Drained
  <2>1. /\ UNCHANGED <<signal, aborted, groupVars, start, committed, poolVars, ranAs>>
        /\ pc = "drained" /\ pc' \in {"classify", "done"}
    BY <1>9 DEF Drained
  <2>2. inFlight = {} /\ committed + 1 = start
    BY <2>1 DEF SchedulerInv, TypeOK, PoolInv, CommitInv
  <2>3. TypeOK' /\ GroupInv' /\ PoolInv' /\ CommitInv'
    BY <2>1, <2>2 DEF SchedulerInv, TypeOK, GroupInv, PoolInv, CommitInv
  <2>4. CASE pc' = "classify" /\ UNCHANGED log
    <3>1. LogInv'
      BY <2>1, <2>4, LogKept DEF SchedulerInv, LogInv, Started
    <3> QED BY <1>0, <2>1, <2>3, <2>4, <3>1, LogKept DEF AllAnswered
  <2>5. CASE pc' = "done" /\ log' = log \o SkippedPairs(start)
    <3> DEFINE pairs == SkippedPairs(start)
    <3>1. /\ start \in 1..N + 1 /\ log \in Seq(ToolEvent) /\ Len(log) \in Nat
          /\ DOMAIN log = 1..Len(log)
      BY DEF SchedulerInv, TypeOK, LogInv
    <3>2. /\ pairs \in Seq(ToolEvent) /\ Len(pairs) = 2 * (N + 1 - start)
          /\ \A k \in 1..Len(pairs) :
               \E c \in start..N :
                 \/ k = 2 * (c - start) + 1 /\ pairs[k] = Called(c)
                 \/ k = 2 * (c - start) + 2 /\ pairs[k] = SkippedAnswer(c)
          /\ \A c \in start..N : /\ pairs[2 * (c - start) + 1] = Called(c)
                                /\ pairs[2 * (c - start) + 2] = SkippedAnswer(c)
      BY <3>1, SkippedPairsFacts
    <3> HIDE DEF pairs
    <3>3. /\ log' \in Seq(ToolEvent) /\ DOMAIN log' = 1..Len(log) + Len(pairs)
          /\ \A k \in 1..Len(log) : log'[k] = log[k]
          /\ \A k \in 1..Len(pairs) : log'[Len(log) + k] = pairs[k]
      BY <2>5, <3>1, <3>2 DEF pairs
    <3>4. ASSUME NEW k \in 1..Len(log)
          PROVE  /\ log[k].type \in {"tool/call", "tool/result"}
                 /\ log[k].call \in Nat /\ log[k].call < start
      <4>1. CASE \E i \in 1..Started : log[k] = Called(i)
        BY <2>1, <4>1, ToolEventShape DEF Started, SchedulerInv, TypeOK
      <4>2. CASE \E i \in 1..committed : log[k] = Answered(i)
        BY <2>2, <4>2, ToolEventShape DEF SchedulerInv, TypeOK
      <4> QED BY <2>1, <3>1, <4>1, <4>2 DEF SchedulerInv, LogInv
    <3>5. ASSUME NEW k \in DOMAIN log', ~(k \in 1..Len(log))
          PROVE  \E c \in start..N :
                   \/ k = Len(log) + 2 * (c - start) + 1 /\ log'[k] = Called(c)
                   \/ k = Len(log) + 2 * (c - start) + 2 /\ log'[k] = SkippedAnswer(c)
      <4>1. k - Len(log) \in 1..Len(pairs) /\ Len(log) + (k - Len(log)) = k
        <5>1. Len(log) \in Nat /\ Len(pairs) \in Nat /\ k \in 1..Len(log) + Len(pairs)
          BY <3>1, <3>2, <3>3
        <5> QED BY <3>5, <5>1
      <4>2. PICK c \in start..N :
              \/ k - Len(log) = 2 * (c - start) + 1 /\ pairs[k - Len(log)] = Called(c)
              \/ k - Len(log) = 2 * (c - start) + 2 /\ pairs[k - Len(log)] = SkippedAnswer(c)
        BY <3>2, <4>1
      <4>3. log'[k] = pairs[k - Len(log)]
        BY <3>3, <4>1
      <4>4. \/ k = Len(log) + 2 * (c - start) + 1 /\ log'[k] = Called(c)
            \/ k = Len(log) + 2 * (c - start) + 2 /\ log'[k] = SkippedAnswer(c)
        BY <3>1, <3>3, <4>2, <4>3
      <4> QED BY <4>4
    <3>6. \A d : Logged(d) => Logged(d)'
      BY <3>1, <3>2, <3>3 DEF Logged
    <3>7. ModelOrder'
      <4> SUFFICES ASSUME NEW j \in DOMAIN log', NEW k \in DOMAIN log',
                          j < k, log'[j].type = log'[k].type
                   PROVE  log'[j].call < log'[k].call
        BY DEF ModelOrder
      <4>1. CASE k \in 1..Len(log)
        BY <3>1, <3>3, <4>1 DEF SchedulerInv, ModelOrder
      <4>2. CASE j \in 1..Len(log) /\ ~(k \in 1..Len(log))
        <5>1. log'[j].call < start
          BY <3>3, <3>4, <4>2
        <5>2. log'[k].call \in start..N
          BY <3>5, <4>2, ToolEventShape
        <5>3. log'[j].call \in Nat
          BY <3>3, <3>4, <4>2
        <5> QED BY <3>1, <5>1, <5>2, <5>3
      <4>3. CASE ~(j \in 1..Len(log)) /\ ~(k \in 1..Len(log))
        <5>1. PICK b \in start..N :
                \/ j = Len(log) + 2 * (b - start) + 1 /\ log'[j] = Called(b)
                \/ j = Len(log) + 2 * (b - start) + 2 /\ log'[j] = SkippedAnswer(b)
          BY <3>5, <4>3
        <5>2. PICK c \in start..N :
                \/ k = Len(log) + 2 * (c - start) + 1 /\ log'[k] = Called(c)
                \/ k = Len(log) + 2 * (c - start) + 2 /\ log'[k] = SkippedAnswer(c)
          BY <3>5, <4>3
        <5>3. log'[j].call = b /\ log'[k].call = c
          BY <5>1, <5>2, ToolEventShape
        <5>4. \/ /\ j = Len(log) + 2 * (b - start) + 1
                 /\ k = Len(log) + 2 * (c - start) + 1
              \/ /\ j = Len(log) + 2 * (b - start) + 2
                 /\ k = Len(log) + 2 * (c - start) + 2
          BY <5>1, <5>2, ToolEventShape
        <5> QED BY <3>1, <5>3, <5>4
      <4> QED BY <3>1, <3>3, <4>1, <4>2, <4>3
    <3>8. ResultsFollowCalls'
      <4> SUFFICES ASSUME NEW k \in DOMAIN log', log'[k].type = "tool/result"
                   PROVE  \E j \in 1..k - 1 : log'[j] = Called(log'[k].call)
        BY DEF ResultsFollowCalls
      <4>1. CASE k \in 1..Len(log)
        <5>1. PICK j \in 1..k - 1 : log[j] = Called(log[k].call)
          BY <3>1, <3>3, <4>1 DEF SchedulerInv, ResultsFollowCalls
        <5>2. log'[j] = log[j] /\ log'[k] = log[k]
          BY <3>1, <3>3, <4>1
        <5> QED BY <5>1, <5>2
      <4>2. CASE ~(k \in 1..Len(log))
        <5>1. PICK c \in start..N :
                \/ k = Len(log) + 2 * (c - start) + 1 /\ log'[k] = Called(c)
                \/ k = Len(log) + 2 * (c - start) + 2 /\ log'[k] = SkippedAnswer(c)
          BY <3>5, <4>2
        <5>2. k = Len(log) + 2 * (c - start) + 2 /\ log'[k].call = c
          BY <5>1, ToolEventShape
        <5>3. 2 * (c - start) + 1 \in 1..Len(pairs)
          BY <3>1, <3>2
        <5>4. log'[Len(log) + (2 * (c - start) + 1)] = Called(c)
          BY <3>2, <3>3, <5>3
        <5>5. Len(log) + (2 * (c - start) + 1) \in 1..k - 1
          BY <3>1, <5>2
        <5> QED BY <5>2, <5>4, <5>5
      <4> QED BY <4>1, <4>2
    <3>9. LogInv'
      BY <2>1, <2>5, <3>3, <3>6 DEF SchedulerInv, LogInv
    <3>10. AllAnswered'
      <4> SUFFICES ASSUME NEW i \in Calls
                   PROVE  Logged(Answered(i))' \/ Logged(SkippedAnswer(i))'
        BY DEF AllAnswered, SkippedAnswer, Logged
      <4>1. CASE i < start
        <5>1. i \in 1..committed
          BY <2>2, <3>1, <4>1 DEF Calls, SchedulerInv, TypeOK
        <5> QED BY <3>6, <5>1 DEF SchedulerInv, LogInv
      <4>2. CASE ~(i < start)
        <5>1. i \in start..N
          BY <3>1, <4>2 DEF Calls
        <5>2. 2 * (i - start) + 2 \in 1..Len(pairs)
          BY <3>1, <3>2, <5>1
        <5>3. log'[Len(log) + (2 * (i - start) + 2)] = SkippedAnswer(i)
          BY <3>2, <3>3, <5>1, <5>2
        <5>4. Len(log) + (2 * (i - start) + 2) \in DOMAIN log'
          <6>1. Len(log) \in Nat /\ Len(pairs) \in Nat
            BY <3>1, <3>2
          <6> HIDE DEF pairs
          <6>2. PICK d \in 1..Len(pairs) : d = 2 * (i - start) + 2
            BY <5>2
          <6>3. Len(log) + d \in 1..Len(log) + Len(pairs)
            BY <6>1
          <6> QED BY <3>3, <6>2, <6>3
        <5> QED BY <5>3, <5>4 DEF Logged
      <4> QED BY <4>1, <4>2
    <3> QED BY <1>0, <2>3, <3>7, <3>8, <3>9, <3>10
  <2> QED BY <1>9, <2>4, <2>5 DEF Drained, SkipFrom
<1>10. ASSUME NEW i \in Calls, Settle(i) PROVE SchedulerInv'
  <2>1. /\ UNCHANGED <<pc, signal, aborted, groupVars, start, committed, inFlight, log, ranAs>>
        /\ i \in running /\ running' = running \ {i}
        /\ \/ failure' = "set" /\ UNCHANGED slots
           \/ slots' = [slots EXCEPT ![i] = "settled"] /\ UNCHANGED failure
    BY <1>10 DEF Settle
  <2>2. TypeOK' /\ GroupInv' /\ PoolInv'
    BY <2>1 DEF SchedulerInv, TypeOK, GroupInv, PoolInv
  <2>3. i < start /\ i \in inFlight
    BY <2>1 DEF SchedulerInv, TypeOK, PoolInv
  <2>4. CommitInv'
    <3>1. \A c \in Calls : slots'[c] # "none" => c < start
      BY <2>1, <2>3 DEF SchedulerInv, TypeOK, CommitInv
    <3>2. \A c \in Calls : slots[c] # "none" => slots'[c] # "none"
      BY <2>1 DEF SchedulerInv, TypeOK
    <3>3. inFlight \subseteq Calls /\ committed + 1..start - 1 \subseteq Calls
      BY DEF SchedulerInv, TypeOK, Calls
    <3>4. slots'[i] # "none" \/ failure' = "set"
      BY <2>1 DEF SchedulerInv, TypeOK
    <3>5. \A c \in inFlight' \ running' : slots'[c] # "none" \/ failure' = "set"
      BY <2>1, <3>2, <3>3, <3>4 DEF SchedulerInv, CommitInv
    <3> QED BY <2>1, <3>1, <3>2, <3>3, <3>5 DEF SchedulerInv, CommitInv
  <2>5. LogInv' /\ AllAnswered'
    BY <2>1, LogKept DEF SchedulerInv, LogInv, Started, AllAnswered
  <2> QED BY <1>0, <2>1, <2>2, <2>4, <2>5, LogKept
<1>11. CASE Abort \/ UNCHANGED vars
  <2>1. /\ UNCHANGED <<pc, aborted, groupVars, start, committed, poolVars, log, ranAs>>
        /\ signal' \in {signal, "aborted"}
    BY <1>11 DEF Abort, vars
  <2>2. TypeOK' /\ GroupInv' /\ PoolInv' /\ CommitInv'
    BY <2>1 DEF SchedulerInv, TypeOK, GroupInv, PoolInv, CommitInv
  <2>3. LogInv' /\ AllAnswered'
    BY <2>1, LogKept DEF SchedulerInv, LogInv, Started, AllAnswered
  <2> QED BY <1>0, <2>1, <2>2, <2>3, LogKept
<1> QED
  BY <1>1, <1>2, <1>3, <1>4, <1>5, <1>6, <1>7, <1>8, <1>9, <1>10, <1>11
  DEF Next, Scheduler

\* SchedulerInv is inductive.
THEOREM SchedulerInvariance == Spec => []SchedulerInv
  BY SchedulerInit, SchedulerSteps, PTL DEF Spec

\* Every variable keeps its type.
THEOREM TypeAlways == Spec => []TypeOK
<1>1. SchedulerInv => TypeOK
  BY DEF SchedulerInv
<1> QED BY <1>1, SchedulerInvariance, PTL

\* However the calls settle, starts and results are logged in model order,
\* each at most once, and no result precedes its call.
THEOREM OrderAlways == Spec => []LogIsOrdered
<1>1. SchedulerInv => LogIsOrdered
  BY DEF SchedulerInv, LogIsOrdered
<1> QED BY <1>1, SchedulerInvariance, PTL

\* Never more than MaxParallel bodies run, and an exclusive call runs alone.
THEOREM PoolAlways == Spec => []PoolIsSound
<1>1. SchedulerInv => PoolIsSound
  <2> SUFFICES ASSUME SchedulerInv PROVE PoolIsBounded /\ ExclusiveRunsAlone
    BY DEF PoolIsSound
  <2> USE SchedulerAssumption
  <2>1. PoolIsBounded
    <3>1. IsFiniteSet(1..N)
      BY FS_Interval
    <3>2. IsFiniteSet(inFlight) /\ running \subseteq inFlight
      BY <3>1, FS_Subset DEF SchedulerInv, TypeOK, Calls
    <3>3. /\ Cardinality(running) <= Cardinality(inFlight) /\ IsFiniteSet(running)
          /\ Cardinality(running) \in Nat /\ Cardinality(inFlight) \in Nat
      BY <3>2, FS_Subset, FS_CardinalityType
    <3> QED BY <3>3 DEF PoolIsBounded, SchedulerInv, PoolInv
  <2>2. ExclusiveRunsAlone
    <3> SUFFICES ASSUME NEW i \in Calls, ranAs[i] = "exclusive",
                        i \in running \/ (pc = "preparing" /\ start = i)
                 PROVE  running \subseteq {i}
      BY DEF ExclusiveRunsAlone
    <3>1. /\ running \subseteq inFlight /\ inFlight \subseteq first..start - 1
          /\ first \in Nat /\ last \in Nat /\ start \in Nat
      BY DEF SchedulerInv, TypeOK, PoolInv
    <3>2. mode = "exclusive" /\ pc \notin {"classify", "done"}
      BY DEF SchedulerInv, TypeOK, PoolInv
    <3>3. last = first /\ start <= last + 1
      BY <3>2 DEF SchedulerInv, GroupInv
    <3>4. CASE i \in running
      BY <3>1, <3>3, <3>4
    <3>5. CASE pc = "preparing" /\ start = i
      BY <3>1, <3>3, <3>5 DEF SchedulerInv, PoolInv
    <3> QED BY <3>4, <3>5
  <2> QED BY <2>1, <2>2
<1> QED BY <1>1, SchedulerInvariance, PTL

\* A normal return has answered every call, and a failure surfaces only after
\* every body has settled, without synthetic results.
THEOREM EndsCleanAlways == Spec => []EndsClean
<1>1. SchedulerInv => EndsClean
  <2> SUFFICES ASSUME SchedulerInv PROVE FailureDrains
    BY DEF EndsClean, SchedulerInv
  <2> SUFFICES ASSUME pc = "threw"
               PROVE  running = {} /\ \A i \in Calls : ~Logged(SkippedAnswer(i))
    BY DEF FailureDrains, SkippedAnswer
  <2>1. running = {}
    BY DEF SchedulerInv, PoolInv
  <2>2. ASSUME NEW i \in Calls, NEW k \in DOMAIN log PROVE log[k] # SkippedAnswer(i)
    <3>1. CASE \E c \in 1..Started : log[k] = Called(c)
      BY <3>1, ToolEventShape
    <3>2. CASE \E c \in 1..committed : log[k] = Answered(c)
      BY <3>2, ToolEventShape
    <3> QED BY <3>1, <3>2 DEF SchedulerInv, LogInv
  <2> QED BY <2>1, <2>2 DEF Logged
<1> QED BY <1>1, SchedulerInvariance, PTL

-----------------------------------------------------------------------------
(* The companion's check of the scheduler's events *)

\* The companion's record as a step opens, and the values it takes there.
StepOpen == [FreshTrace EXCEPT !.openTurn = 1, !.openStep = 1]
ToolTraces == [openTurn : Nat, openStep : Nat, nextTurn : Nat, nextStep : Nat,
               calls : SUBSET Calls, ok : BOOLEAN]
StepTraces == { R \in ToolTraces : R.openTurn = 1 /\ R.openStep = 1 }

\* The step opens with no call.
LEMMA StepOpenFacts ==
  StepOpen \in StepTraces /\ StepOpen.ok /\ StepOpen.calls = {}
<1> PICK F : F = FreshTrace
  OBVIOUS
<1>1. F \in ToolTraces /\ F.ok /\ F.calls = {}
  BY DEF FreshTrace, ToolTraces
<1> PICK G : G = [F EXCEPT !.openTurn = 1]
  OBVIOUS
<1>2. G \in ToolTraces /\ G.ok /\ G.calls = {} /\ G.openTurn = 1
  BY <1>1 DEF ToolTraces
<1> PICK H : H = [G EXCEPT !.openStep = 1]
  OBVIOUS
<1>3. H \in ToolTraces /\ H.ok /\ H.calls = {} /\ H.openTurn = 1 /\ H.openStep = 1
  BY <1>2 DEF ToolTraces
<1>4. H = StepOpen
  BY DEF StepOpen
<1> QED BY <1>3, <1>4 DEF StepTraces

\* Call i has started among the first n events and has no result there.
Outstanding(n, i) ==
  /\ \E j \in 1..n : log[j] = Called(i)
  /\ \A k \in 1..n : log[k].type = "tool/result" => log[k].call # i

\* The events of the scheduler name the open step, and a call.
LEMMA ToolEventFacts ==
  ASSUME NEW e \in ToolEvent
  PROVE  /\ e.turn = 1 /\ e.step = 1 /\ e.call \in Calls
         /\ \/ e.type = "tool/call" /\ e = Called(e.call)
            \/ e.type = "tool/result"
  BY DEF ToolEvent, Called, Answered, SkippedAnswer, ToolCall, ToolResult

Recorded(R1, R, e) == R \in StepTraces /\ e \in ToolEvent /\ R1 = Record(R, e)

\* What the companion makes of one of them: it accepts every start, and the
\* result of a call that is open.
LEMMA ToolRecord ==
  ASSUME NEW R, NEW e, NEW R1, Recorded(R1, R, e)
  PROVE  /\ R1 \in StepTraces
         /\ e.type = "tool/call" => R1.ok = R.ok /\ R1.calls = R.calls \cup {e.call}
         /\ e.type = "tool/result" /\ e.call \in R.calls =>
              R1.ok = R.ok /\ R1.calls = R.calls \ {e.call}
<1>1. /\ R \in StepTraces /\ R1 = Record(R, e) /\ e \in ToolEvent
      /\ e.turn = 1 /\ e.step = 1 /\ e.call \in Calls
      /\ e.type = "tool/call" \/ e.type = "tool/result"
  BY ToolEventFacts DEF Recorded
<1>2. NamesOpenStep(R, e)
  BY <1>1 DEF NamesOpenStep, StepTraces, ToolTraces
<1>3. CASE e.type = "tool/call"
  <2>1. R1 = [R EXCEPT !.calls = R.calls \cup {e.call}]
    BY <1>1, <1>2, <1>3 DEF Record, Accepts, Advance
  <2> QED BY <1>1, <1>3, <2>1 DEF StepTraces, ToolTraces
<1>4. CASE e.type = "tool/result" /\ Accepts(R, e)
  <2>1. R1 = [R EXCEPT !.calls = R.calls \ {e.call}]
    BY <1>1, <1>4 DEF Record, Advance
  <2> QED BY <1>1, <1>4, <2>1 DEF StepTraces, ToolTraces
<1>5. CASE e.type = "tool/result" /\ ~Accepts(R, e)
  <2>1. R1 = [R EXCEPT !.ok = FALSE]
    BY <1>1, <1>5 DEF Record
  <2>2. e.call \notin R.calls
    BY <1>1, <1>2, <1>5 DEF Accepts
  <2> QED BY <1>1, <1>5, <2>1, <2>2 DEF StepTraces, ToolTraces
<1> QED BY <1>1, <1>3, <1>4, <1>5

\* The record of each prefix of the log: nothing is rejected, and the open calls
\* are the outstanding ones.
LEMMA EventsTied ==
  ASSUME log \in Seq(ToolEvent), ModelOrder, ResultsFollowCalls
  PROVE  EventsAreTied
<1> DEFINE rec(n) == RecordAll(StepOpen, SubSeq(log, 1, n))
           P == { n \in Nat : n <= Len(log) =>
                    /\ rec(n) \in StepTraces /\ rec(n).ok
                    /\ \A i \in Calls : i \in rec(n).calls <=> Outstanding(n, i) }
<1>1. RecordClosed(StepTraces, ToolEvent, StepOpen)
  <2> QED BY StepOpenFacts, ToolRecord DEF RecordClosed, Recorded
<1>2. /\ RecordAll(StepOpen, <<>>) = StepOpen
      /\ \A q \in Seq(ToolEvent) :
           /\ RecordAll(StepOpen, q) \in StepTraces
           /\ \A e \in ToolEvent :
                RecordAll(StepOpen, Append(q, e)) = Record(RecordAll(StepOpen, q), e)
  BY <1>1, RecordFold
<1>3. 0 \in P
  <2>1. SubSeq(log, 1, 0) = <<>> /\ 1..0 = {}
    OBVIOUS
  <2>2. rec(0) = StepOpen
    BY <1>2, <2>1
  <2>3. \A i : ~Outstanding(0, i)
    BY <2>1 DEF Outstanding
  <2> QED BY <2>2, <2>3, StepOpenFacts
<1>4. ASSUME NEW n \in Nat, n \in P PROVE n + 1 \in P
  <2> SUFFICES ASSUME n + 1 <= Len(log)
               PROVE  /\ rec(n + 1) \in StepTraces /\ rec(n + 1).ok
                      /\ \A i \in Calls : i \in rec(n + 1).calls <=> Outstanding(n + 1, i)
    OBVIOUS
  <2> PICK R, R1, e, q : /\ R = rec(n) /\ R1 = rec(n + 1)
                         /\ e = log[n + 1] /\ q = SubSeq(log, 1, n)
    OBVIOUS
  <2>1. R \in StepTraces /\ R.ok /\ \A i \in Calls : i \in R.calls <=> Outstanding(n, i)
    BY <1>4
  <2>2. /\ Len(log) \in Nat /\ DOMAIN log = 1..Len(log) /\ n + 1 \in 1..Len(log)
        /\ \A k \in 1..n : k \in 1..Len(log) /\ k < n + 1
        /\ 1..n + 1 = 1..n \cup {n + 1} /\ (n + 1) - 1 = n
    OBVIOUS
  <2>3. e \in ToolEvent /\ q \in Seq(ToolEvent) /\ SubSeq(log, 1, n + 1) = Append(q, e)
    <3>1. n \in 0..Len(log) /\ n < Len(log)
      BY <2>2
    <3>2. /\ SubSeq(log, 1, n) \in Seq(ToolEvent)
          /\ SubSeq(log, 1, n + 1) = Append(SubSeq(log, 1, n), log[n + 1])
      BY <3>1, PrefixFacts
    <3> QED BY <2>2, <3>2
  <2>4. R1 = Record(R, e)
    BY <1>2, <2>3
  <2>5. \A k \in 1..n : log[k].type = e.type => log[k].call < e.call
    BY <2>2 DEF ModelOrder
  <2>6. /\ e.call \in Calls /\ e.call \in Nat
        /\ \A k \in 1..n : log[k].type = e.type => log[k].call # e.call
    <3>1. e.call \in Calls
      BY <2>3, ToolEventFacts
    <3>2. e.call \in Nat
      BY <3>1 DEF Calls
    <3> QED BY <2>5, <3>1, <3>2
  <2>7. Recorded(R1, R, e)
    BY <2>1, <2>3, <2>4 DEF Recorded
  <2>8. CASE e.type = "tool/call"
    <3>1. e = Called(e.call)
      BY <2>3, <2>8, ToolEventFacts
    <3>2. \A k \in 1..n : log[k].type = "tool/result" => log[k].call # e.call
      <4> SUFFICES ASSUME NEW k \in 1..n, log[k].type = "tool/result", log[k].call = e.call
                   PROVE  FALSE
        OBVIOUS
      <4>1. PICK j \in 1..k - 1 : log[j] = Called(e.call)
        BY <2>2 DEF ResultsFollowCalls
      <4>2. j \in 1..n
        BY <2>2
      <4> QED BY <2>6, <2>8, <4>1, <4>2, ToolEventShape
    <3>3. \A i \in Calls : i # e.call => (Outstanding(n + 1, i) <=> Outstanding(n, i))
      <4>1. \A i : i # e.call => Called(i) # e
        BY ToolEventShape
      <4> QED BY <2>2, <2>8, <4>1 DEF Outstanding
    <3>4. Outstanding(n + 1, e.call)
      BY <2>2, <2>8, <3>1, <3>2 DEF Outstanding
    <3>5. R1 \in StepTraces /\ R1.ok = R.ok /\ R1.calls = R.calls \cup {e.call}
      BY <2>8, <2>7, ToolRecord
    <3> QED BY <2>1, <3>3, <3>4, <3>5
  <2>9. CASE e.type = "tool/result"
    <3>1. Outstanding(n, e.call)
      <4>1. PICK j \in 1..n : log[j] = Called(e.call)
        BY <2>2, <2>9 DEF ResultsFollowCalls
      <4> QED BY <2>6, <2>9, <4>1 DEF Outstanding
    <3>2. \A i \in Calls : i # e.call => (Outstanding(n + 1, i) <=> Outstanding(n, i))
      <4>1. \A i : Called(i) # e
        BY <2>9, ToolEventShape
      <4> QED BY <2>2, <2>9, <4>1 DEF Outstanding
    <3>3. ~Outstanding(n + 1, e.call)
      BY <2>2, <2>9 DEF Outstanding
    <3>4. e.call \in R.calls
      BY <2>1, <2>6, <3>1
    <3>5. R1 \in StepTraces /\ R1.ok = R.ok /\ R1.calls = R.calls \ {e.call}
      BY <2>9, <2>7, <3>4, ToolRecord
    <3> QED BY <2>1, <3>2, <3>3, <3>5
  <2> QED BY <2>3, <2>8, <2>9, ToolEventFacts
<1>5. Len(log) \in P
  <2>1. Len(log) \in Nat
    OBVIOUS
  <2> HIDE DEF P
  <2> QED BY <1>3, <1>4, <2>1, Inductive
<1>6. SubSeq(log, 1, Len(log)) = log /\ Len(log) <= Len(log)
  OBVIOUS
<1>7. RecordAll(StepOpen, log).ok
  BY <1>5, <1>6
<1> QED BY <1>7 DEF EventsAreTied, StepOpen

\* EventsAreTied: every tool event of the scheduler, the synthetic pairs of an
\* abort included, passes the companion's check inside the open step.
THEOREM TiedAlways == Spec => []EventsAreTied
<1>1. SchedulerInv => EventsAreTied
  BY EventsTied DEF SchedulerInv, LogInv
<1> QED BY <1>1, SchedulerInvariance, PTL

-----------------------------------------------------------------------------
(* Pending calls *)

Pending == [call : Call, step : 0..MaxSteps, started : BOOLEAN]
Pendings == Seq(Pending)
Distinct(p) == \A k, l \in DOMAIN p : p[k].call = p[l].call => k = l

\* Setting an entry keeps the map well formed.
LEMMA SetEntryType ==
  ASSUME NEW p \in Seq(Pending), NEW x \in Pending
  PROVE  SetEntry(p, x) \in Seq(Pending)
<1>1. CASE Registered(p, x.call)
  <2>1. SetEntry(p, x) = [i \in DOMAIN p |-> IF p[i].call = x.call THEN x ELSE p[i]]
    BY <1>1 DEF SetEntry
  <2>2. DOMAIN p = 1..Len(p) /\ Len(p) \in Nat /\ \A i \in DOMAIN p : p[i] \in Pending
    OBVIOUS
  <2> QED BY <2>1, <2>2
<1>2. CASE ~Registered(p, x.call)
  BY <1>2 DEF SetEntry
<1> QED BY <1>1, <1>2

\* The entries a message asks for.
Asks(e) ==
  [i \in DOMAIN e.calls |-> [call |-> e.calls[i], step |-> e.step, started |-> FALSE]]

\* A message keeps the pending map well formed.
LEMMA RegisterType ==
  ASSUME NEW p \in Seq(Pending), NEW e, e.calls \in Seq(Call), e.step \in 0..MaxSteps
  PROVE  Asks(e) \in Seq(Pending) /\ Register(p, e) \in Seq(Pending)
<1>1. Asks(e) \in Seq(Pending)
  <2>1. DOMAIN e.calls = 1..Len(e.calls) /\ Len(e.calls) \in Nat
    OBVIOUS
  <2>2. \A i \in DOMAIN e.calls :
          [call |-> e.calls[i], step |-> e.step, started |-> FALSE] \in Pending
    BY DEF Pending
  <2> QED BY <2>1, <2>2 DEF Asks
<1>2. Register(p, e) = Entries(p, Asks(e))
  BY DEF Register, Asks, Entries
<1>3. Entries(p, Asks(e)) \in Seq(Pending)
  <2>1. EntryClosed(Seq(Pending), Pending, p)
    BY SetEntryType DEF EntryClosed
  <2> QED BY <1>1, <2>1, EntryFold
<1> QED BY <1>1, <1>2, <1>3

\* An empty map takes the entries of a message in its order.
LEMMA RegisterFacts ==
  ASSUME NEW e, e.calls \in Seq(Call), e.step \in 0..MaxSteps,
         \A i, j \in DOMAIN e.calls : e.calls[i] = e.calls[j] => i = j
  PROVE  Register(<<>>, e) = Asks(e)
<1>1. Register(<<>>, e) = Entries(<<>>, Asks(e))
  BY DEF Register, Asks, Entries
<1> DEFINE s == Asks(e)
           P == { n \in Nat : n <= Len(s) =>
                    Entries(<<>>, SubSeq(s, 1, n)) = SubSeq(s, 1, n) }
<1>2. <<>> \in Seq(Pending)
  OBVIOUS
<1>3. s \in Seq(Pending) /\ Distinct(s)
  <2>1. s \in Seq(Pending)
    BY <1>2, RegisterType
  <2>2. DOMAIN s = DOMAIN e.calls /\ \A i \in DOMAIN s : s[i].call = e.calls[i]
    BY DEF Asks
  <2> QED BY <2>1, <2>2 DEF Distinct
<1> HIDE DEF s
<1>4. /\ Entries(<<>>, <<>>) = <<>>
      /\ \A q \in Seq(Pending), x \in Pending :
           Entries(<<>>, Append(q, x)) =
             SetEntry(Entries(<<>>, q), x)
  <2> DEFINE A == Seq(Pending)
  <2>1. EntryClosed(A, Pending, <<>>)
    BY <1>2, SetEntryType DEF EntryClosed
  <2> HIDE DEF A
  <2>2. /\ Entries(<<>>, <<>>) = <<>>
        /\ \A q \in Seq(Pending) :
             /\ Entries(<<>>, q) \in A
             /\ \A x \in Pending : Entries(<<>>, Append(q, x)) =
                  SetEntry(Entries(<<>>, q), x)
    BY <2>1, EntryFold
  <2> QED BY <2>2
<1>5. 0 \in P
  <2>1. SubSeq(s, 1, 0) = <<>>
    BY <1>3
  <2> QED BY <1>4, <2>1
<1>6. ASSUME NEW n \in Nat, n \in P PROVE n + 1 \in P
  <2> SUFFICES ASSUME n + 1 <= Len(s)
               PROVE  Entries(<<>>, SubSeq(s, 1, n + 1)) = SubSeq(s, 1, n + 1)
    OBVIOUS
  <2>1. n \in 0..Len(s) /\ n < Len(s) /\ n + 1 \in DOMAIN s /\ s[n + 1] \in Pending
    BY <1>3
  <2>2. /\ SubSeq(s, 1, n) \in Seq(Pending) /\ DOMAIN SubSeq(s, 1, n) = 1..n
        /\ \A k \in 1..n : SubSeq(s, 1, n)[k] = s[k]
        /\ SubSeq(s, 1, n + 1) = Append(SubSeq(s, 1, n), s[n + 1])
    BY <1>3, <2>1, PrefixFacts
  <2>3. Entries(<<>>, SubSeq(s, 1, n)) = SubSeq(s, 1, n)
    BY <1>6, <2>1
  <2>4. ~Registered(SubSeq(s, 1, n), s[n + 1].call)
    <3> SUFFICES ASSUME NEW k \in 1..n, s[k].call = s[n + 1].call PROVE FALSE
      BY <2>2 DEF Registered
    <3>1. k \in DOMAIN s /\ k # n + 1
      BY <1>3, <2>1
    <3> QED BY <1>3, <2>1, <3>1 DEF Distinct
  <2>5. SetEntry(SubSeq(s, 1, n), s[n + 1]) = SubSeq(s, 1, n + 1)
    BY <2>2, <2>4 DEF SetEntry
  <2> QED BY <1>4, <2>1, <2>2, <2>3, <2>5
<1>7. Len(s) \in P
  <2>1. Len(s) \in Nat
    BY <1>3
  <2> HIDE DEF P
  <2> QED BY <1>5, <1>6, <2>1, Inductive
<1>8. Len(s) \in 0..Len(s)
  BY <1>3
<1>9. SubSeq(s, 1, Len(s)) = s
  BY <1>3, <1>8, PrefixFacts
<1>10. Entries(<<>>, SubSeq(s, 1, Len(s))) = SubSeq(s, 1, Len(s))
  BY <1>7, <1>8
<1> QED BY <1>1, <1>9, <1>10 DEF s

\* A call that starts is marked, the others are as they were.
LEMMA MarkFacts ==
  ASSUME NEW p \in Pendings, NEW c \in Call, NEW w, w = MarkStarted(p, c)
  PROVE  /\ w \in Seq(Pending) /\ DOMAIN w = DOMAIN p /\ Len(w) = Len(p)
         /\ \A k \in DOMAIN p :
              /\ w[k].call = p[k].call /\ w[k].step = p[k].step
              /\ p[k].call = c => w[k].started
              /\ p[k].call # c => w[k].started = p[k].started
<1>1. DOMAIN p = 1..Len(p) /\ Len(p) \in Nat /\ \A k \in DOMAIN p : p[k] \in Pending
  BY DEF Pendings
<1>2. DOMAIN w = DOMAIN p
  BY DEF MarkStarted
<1>3. ASSUME NEW k \in DOMAIN p
      PROVE  /\ w[k] \in Pending
             /\ w[k].call = p[k].call /\ w[k].step = p[k].step
             /\ p[k].call = c => w[k].started
             /\ p[k].call # c => w[k].started = p[k].started
  <2>1. w[k] = IF p[k].call = c THEN [p[k] EXCEPT !.started = TRUE] ELSE p[k]
    BY DEF MarkStarted
  <2>2. p[k] \in Pending
    BY <1>1
  <2> QED BY <2>1, <2>2 DEF Pending
<1>4. w \in Seq(Pending) /\ Len(w) = Len(p)
  <2>1. w = [k \in 1..Len(p) |-> w[k]]
    BY <1>1 DEF MarkStarted
  <2>2. \A k \in 1..Len(p) : w[k] \in Pending
    BY <1>1, <1>3
  <2>3. w \in [1..Len(p) -> Pending]
    BY <2>1, <2>2
  <2> QED BY <1>1, <2>3
<1> QED BY <1>2, <1>3, <1>4

\* Taking out the element at k: the others stay, in their order.
LEMMA RemoveAtFacts ==
  ASSUME NEW S, NEW q \in Seq(S), NEW k \in DOMAIN q,
         NEW w, w = Seqs!RemoveAt(q, k)
  PROVE  /\ w \in Seq(S)
         /\ \A a \in DOMAIN w : \E b \in DOMAIN q \ {k} :
              w[a] = q[b] /\ b = IF a < k THEN a ELSE a + 1
         /\ \A b \in DOMAIN q \ {k} : \E a \in DOMAIN w : w[a] = q[b]
<1> PICK n \in Nat : n = Len(q)
  OBVIOUS
<1> DEFINE u == SubSeq(q, 1, k - 1)
           v == SubSeq(q, k + 1, n)
           at(i) == IF i < k THEN i ELSE i + 1
<1>1. DOMAIN q = 1..n /\ k \in 1..n
  OBVIOUS
<1>2. u \in Seq(S) /\ Len(u) = k - 1 /\ \A i \in 1..k - 1 : u[i] = q[i]
  BY <1>1
<1>3. v \in Seq(S) /\ Len(v) = n - k /\ \A i \in 1..n - k : v[i] = q[k + i]
  BY <1>1
<1>4. w = u \o v
  BY DEF Seqs!RemoveAt
<1> HIDE DEF u, v
<1>5. /\ w \in Seq(S) /\ Len(w) = Len(u) + Len(v)
      /\ \A i \in 1..Len(u) + Len(v) : w[i] = IF i <= Len(u) THEN u[i] ELSE v[i - Len(u)]
  <2>1. /\ u \o v \in Seq(S) /\ Len(u \o v) = Len(u) + Len(v)
        /\ \A i \in 1..Len(u) + Len(v) :
             (u \o v)[i] = IF i <= Len(u) THEN u[i] ELSE v[i - Len(u)]
    BY <1>2, <1>3, ConcatProperties
  <2> QED BY <1>4, <2>1
<1>6. Len(w) = n - 1 /\ DOMAIN w = 1..n - 1
  <2>1. Len(u) = k - 1 /\ Len(v) = n - k
    BY <1>2, <1>3
  <2>2. k \in Nat /\ (k - 1) + (n - k) = n - 1
    BY <1>1
  <2>3. Len(w) = n - 1
    BY <1>5, <2>1, <2>2
  <2> QED BY <1>5, <2>3
<1>7. ASSUME NEW i \in DOMAIN w PROVE at(i) \in DOMAIN q /\ at(i) # k /\ w[i] = q[at(i)]
  <2>1. i \in 1..Len(u) + Len(v)
    BY <1>5
  <2>2. CASE i < k
    <3>1. i <= Len(u) /\ i \in 1..k - 1 /\ at(i) = i /\ i \in 1..n
      BY <1>1, <1>2, <1>6, <2>2
    <3> QED BY <1>1, <1>2, <1>5, <2>1, <2>2, <3>1
  <2>3. CASE ~(i < k)
    <3>1. ~(i <= Len(u)) /\ i - Len(u) = i - (k - 1) /\ i - (k - 1) \in 1..n - k
      BY <1>1, <1>2, <1>6, <2>3
    <3>2. at(i) = i + 1 /\ i + 1 \in 1..n /\ i + 1 # k /\ k + (i - (k - 1)) = i + 1
      BY <1>1, <1>6, <2>3
    <3>3. w[i] = v[i - (k - 1)]
      BY <1>5, <2>1, <3>1
    <3> QED BY <1>1, <1>3, <3>1, <3>2, <3>3
  <2> QED BY <2>2, <2>3
<1>8. ASSUME NEW j \in DOMAIN q, j # k PROVE \E i \in DOMAIN w : at(i) = j
  <2>1. CASE j < k
    <3>1. j \in DOMAIN w /\ at(j) = j
      BY <1>1, <1>6, <2>1
    <3> QED BY <3>1
  <2>2. CASE ~(j < k)
    <3>1. j - 1 \in DOMAIN w /\ at(j - 1) = j
      BY <1>1, <1>6, <1>8, <2>2
    <3> QED BY <3>1
  <2> QED BY <2>1, <2>2
<1>9. ASSUME NEW a \in DOMAIN w
      PROVE  \E b \in DOMAIN q \ {k} : w[a] = q[b] /\ b = IF a < k THEN a ELSE a + 1
  BY <1>7
<1>10. ASSUME NEW b \in DOMAIN q \ {k} PROVE \E a \in DOMAIN w : w[a] = q[b]
  BY <1>7, <1>8
<1> QED BY <1>5, <1>9, <1>10

\* An answered call is dropped, the others stay, once each.
Drops(w, p, c) == p \in Pendings /\ w = DropEntry(p, c)

\* A result keeps the pending map well formed.
LEMMA DropType ==
  ASSUME NEW p \in Seq(Pending), NEW c
  PROVE  DropEntry(p, c) \in Seq(Pending)
<1>1. CASE ~Registered(p, c)
  BY <1>1 DEF DropEntry
<1>2. CASE Registered(p, c)
  <2> DEFINE k == CHOOSE i \in DOMAIN p : p[i].call = c
  <2>1. k \in DOMAIN p
    BY <1>2 DEF Registered
  <2>2. DropEntry(p, c) = Seqs!RemoveAt(p, k)
    BY <1>2 DEF DropEntry
  <2> HIDE DEF k
  <2> QED BY <2>1, <2>2, RemoveAtFacts
<1> QED BY <1>1, <1>2

\* After a result the pending map holds the other entries, once each.
LEMMA DropFacts ==
  ASSUME NEW p, NEW c, NEW w, Drops(w, p, c), Distinct(p)
  PROVE  /\ Distinct(w)
         /\ \A a \in DOMAIN w : \E b \in DOMAIN p : w[a] = p[b] /\ p[b].call # c
         /\ \A b \in DOMAIN p : p[b].call # c => \E a \in DOMAIN w : w[a] = p[b]
<1>0. p \in Seq(Pending) /\ w = DropEntry(p, c)
  BY DEF Drops, Pendings
<1>1. CASE ~Registered(p, c)
  BY <1>0, <1>1 DEF DropEntry, Registered
<1>2. CASE Registered(p, c)
  <2> DEFINE k == CHOOSE i \in DOMAIN p : p[i].call = c
  <2>1. k \in DOMAIN p /\ p[k].call = c
    BY <1>2 DEF Registered
  <2>2. w = Seqs!RemoveAt(p, k)
    BY <1>0, <1>2 DEF DropEntry
  <2> HIDE DEF k
  <2>3. /\ w \in Seq(Pending)
        /\ \A a \in DOMAIN w : \E b \in DOMAIN p \ {k} :
             w[a] = p[b] /\ b = IF a < k THEN a ELSE a + 1
        /\ \A b \in DOMAIN p \ {k} : \E a \in DOMAIN w : w[a] = p[b]
    BY <1>0, <2>1, <2>2, RemoveAtFacts
  <2>4. Distinct(w)
    <3> SUFFICES ASSUME NEW a \in DOMAIN w, NEW d \in DOMAIN w, w[a].call = w[d].call
                 PROVE  a = d
      BY DEF Distinct
    <3>1. PICK b \in DOMAIN p : w[a] = p[b] /\ b = IF a < k THEN a ELSE a + 1
      BY <2>3
    <3>2. PICK f \in DOMAIN p : w[d] = p[f] /\ f = IF d < k THEN d ELSE d + 1
      BY <2>3
    <3>3. b = f
      BY <3>1, <3>2 DEF Distinct
    <3>4. a \in Nat /\ d \in Nat /\ k \in Nat
      <4>1. DOMAIN p = 1..Len(p) /\ Len(p) \in Nat
        BY <1>0
      <4>2. DOMAIN w = 1..Len(w) /\ Len(w) \in Nat
        BY <2>3
      <4> QED BY <2>1, <4>1, <4>2
    <3> QED BY <3>1, <3>2, <3>3, <3>4
  <2>5. ASSUME NEW a \in DOMAIN w
        PROVE  \E b \in DOMAIN p : w[a] = p[b] /\ p[b].call # c
    BY <2>1, <2>3, <2>5 DEF Distinct
  <2>6. ASSUME NEW b \in DOMAIN p, p[b].call # c PROVE \E a \in DOMAIN w : w[a] = p[b]
    BY <2>1, <2>3, <2>6
  <2> QED BY <2>3, <2>4, <2>5, <2>6
<1> QED BY <1>1, <1>2

\* Answering the pending calls in order drops them in order.
LEMMA DropFirst ==
  ASSUME NEW p \in Seq(Pending), p # <<>>, Distinct(p)
  PROVE  DropEntry(p, p[1].call) = Tail(p)
<1>1. 1 \in DOMAIN p /\ Registered(p, p[1].call)
  BY DEF Registered
<1>2. (CHOOSE i \in DOMAIN p : p[i].call = p[1].call) = 1
  BY <1>1 DEF Distinct
<1>3. DropEntry(p, p[1].call) = Seqs!RemoveAt(p, 1)
  BY <1>1, <1>2 DEF DropEntry
<1>4. Seqs!RemoveAt(p, 1) = SubSeq(p, 1, 0) \o SubSeq(p, 2, Len(p))
  BY DEF Seqs!RemoveAt
<1>5. SubSeq(p, 1, 0) = <<>> /\ SubSeq(p, 2, Len(p)) = Tail(p) /\ Tail(p) \in Seq(Pending)
  BY <1>1
<1>6. <<>> \o Tail(p) = Tail(p)
  BY <1>5
<1> QED BY <1>3, <1>4, <1>5, <1>6

-----------------------------------------------------------------------------
(* The three folds over a log *)

Tails == [turn : 0..MaxTurns, step : 0..MaxSteps, pending : Seq(Pending)]
Traces == [openTurn : Nat, openStep : Nat, nextTurn : Nat, nextStep : Nat,
           calls : SUBSET Call, ok : BOOLEAN]

\* The bounds are natural numbers.
LEMMA BoundsAreNat ==
  MaxTurns \in Nat /\ MaxSteps \in Nat /\ MaxEvents \in Nat /\ MaxCrashes \in Nat
  BY RepairBounds

\* The events of a log, by type.
LEMMA EventCases ==
  ASSUME NEW e \in Event
  PROVE  /\ e.turn \in Turns
         /\ \/ e.type = "turn/start"
            \/ e.type = "turn/end"
            \/ e.type = "step/start" /\ e.step \in Steps
            \/ e.type = "step/end" /\ e.step \in Steps
            \/ e.type = "assistant/message" /\ e.step \in Steps /\ e.calls \in Seq(Call)
            \/ e.type = "tool/call" /\ e.step \in Steps /\ e.call \in Call
            \/ /\ e.type = "tool/result" /\ e.step \in Steps /\ e.call \in Call
               /\ e.code \in {"none", NotStarted, OutcomeUnknown}
BY DEF Event

\* Every step of the folds keeps its type.
LEMMA RecordType ==
  ASSUME NEW T \in Traces, NEW e \in Event
  PROVE  Record(T, e) \in Traces
<1>1. CASE ~Accepts(T, e)
  BY <1>1 DEF Record, Traces
<1>2. CASE Accepts(T, e)
  <2>1. e.turn \in Nat /\ (e.type = "step/start" => e.step \in Nat)
        /\ (e.type \in {"tool/call", "tool/result"} => e.call \in Call)
    BY EventCases, BoundsAreNat DEF Turns, Steps
  <2>2. Record(T, e) = Advance(T, e)
    BY <1>2 DEF Record
  <2>3. T.nextTurn + 1 \in Nat /\ T.nextStep + 1 \in Nat
    BY DEF Traces
  <2>4. CASE e.type = "turn/start"
    <3>1. Record(T, e) = [openTurn |-> e.turn, openStep |-> T.openStep, nextTurn |-> T.nextTurn,
                          nextStep |-> 1, calls |-> T.calls, ok |-> T.ok]
      BY <2>2, <2>4 DEF Advance, Traces
    <3> QED BY <2>1, <3>1 DEF Traces
  <2>7. CASE e.type = "turn/end"
    <3>1. Record(T, e) = [openTurn |-> 0, openStep |-> T.openStep, nextTurn |-> T.nextTurn + 1,
                          nextStep |-> T.nextStep, calls |-> T.calls, ok |-> T.ok]
      BY <2>2, <2>7 DEF Advance, Traces
    <3> QED BY <2>3, <3>1 DEF Traces
  <2>8. CASE e.type = "step/start"
    BY <2>1, <2>2, <2>8 DEF Advance, Traces
  <2>9. CASE e.type = "step/end"
    <3>1. Record(T, e) = [openTurn |-> T.openTurn, openStep |-> 0, nextTurn |-> T.nextTurn,
                          nextStep |-> T.nextStep + 1, calls |-> {}, ok |-> T.ok]
      BY <2>2, <2>9 DEF Advance, Traces
    <3> QED BY <2>3, <3>1 DEF Traces
  <2>5. CASE e.type \in {"tool/call", "tool/result"}
    BY <2>1, <2>2, <2>5 DEF Advance, Traces
  <2>6. CASE e.type = "assistant/message"
    BY <2>1, <2>2, <2>6 DEF Advance, Traces
  <2> QED BY <2>4, <2>5, <2>6, <2>7, <2>8, <2>9, EventCases
<1> QED BY <1>1, <1>2

\* Every step of the scan keeps its type.
LEMMA ScanType ==
  ASSUME NEW S \in Tails, NEW e \in Event
  PROVE  Scan(S, e) \in Tails
<1>1. e.turn \in 0..MaxTurns /\ 0 \in 0..MaxTurns /\ 0 \in 0..MaxSteps
  BY EventCases, BoundsAreNat DEF Turns
<1>2. <<>> \in Seq(Pending)
  OBVIOUS
<1>3. S.pending \in Seq(Pending)
  BY DEF Tails
<1>4. CASE e.type = "turn/start" \/ e.type = "turn/end"
  BY <1>1, <1>2, <1>4 DEF Scan, NothingOpen, Tails
<1>5. CASE e.type = "step/start" \/ e.type = "step/end"
  <2>1. e.step \in 0..MaxSteps
    BY <1>5, EventCases, BoundsAreNat DEF Steps
  <2> QED BY <1>1, <1>2, <1>5, <2>1 DEF Scan, Tails
<1>6. CASE e.type = "assistant/message"
  <2>1. e.step \in 0..MaxSteps /\ e.calls \in Seq(Call)
    BY <1>6, EventCases, BoundsAreNat DEF Steps
  <2>2. Register(S.pending, e) \in Seq(Pending)
    BY <1>3, <2>1, RegisterType
  <2> QED BY <1>6, <2>2 DEF Scan, Tails
<1>7. CASE e.type = "tool/call"
  <2>1. e.call \in Call
    BY <1>7, EventCases
  <2>2. MarkStarted(S.pending, e.call) \in Seq(Pending)
    BY <1>3, <2>1, MarkFacts DEF Pendings
  <2> QED BY <1>7, <2>2 DEF Scan, Tails
<1>8. CASE e.type = "tool/result"
  <2>1. DropEntry(S.pending, e.call) \in Seq(Pending)
    BY <1>3, DropType
  <2> QED BY <1>8, <2>1 DEF Scan, Tails
<1> QED BY <1>4, <1>5, <1>6, <1>7, <1>8, EventCases

\* The record of a log, event by event.
LEMMA TraceFacts ==
  /\ Trace(<<>>) = FreshTrace
  /\ \A q \in Seq(Event) : Trace(q) \in Traces
  /\ \A q \in Seq(Event), e \in Event : Trace(Append(q, e)) = Record(Trace(q), e)
<1>1. RecordClosed(Traces, Event, FreshTrace)
  <2>1. FreshTrace \in Traces
    BY DEF FreshTrace, Traces
  <2> QED BY <2>1, RecordType DEF RecordClosed
<1> QED BY <1>1, RecordFold DEF Trace

\* The scan of a log, event by event.
LEMMA TailFacts ==
  /\ OpenTail(<<>>) = NothingOpen
  /\ \A q \in Seq(Event) : OpenTail(q) \in Tails
  /\ \A q \in Seq(Event), e \in Event : OpenTail(Append(q, e)) = Scan(OpenTail(q), e)
<1>1. ScanClosed(Tails, Event)
  <2>1. <<>> \in Seq(Pending)
    OBVIOUS
  <2>2. NothingOpen \in Tails
    BY <2>1, BoundsAreNat DEF NothingOpen, Tails
  <2> QED BY <2>2, ScanType DEF ScanClosed
<1> QED BY <1>1, ScanFold

\* The last turn of a log, event by event.
LEMMA LastTurnFacts ==
  /\ LastTurn(<<>>) = 0
  /\ \A q \in Seq(Event) : LastTurn(q) \in 0..MaxTurns
  /\ \A q \in Seq(Event), e \in Event : LastTurn(Append(q, e)) = TurnOf(LastTurn(q), e)
<1>1. TurnClosed(0..MaxTurns, Event)
  <2>1. 0 \in 0..MaxTurns
    BY BoundsAreNat
  <2>2. ASSUME NEW n \in 0..MaxTurns, NEW e \in Event PROVE TurnOf(n, e) \in 0..MaxTurns
    BY EventCases, BoundsAreNat DEF TurnOf, Turns
  <2> QED BY <2>1, <2>2 DEF TurnClosed
<1>2. /\ LastTurn(<<>>) = 0
      /\ \A q \in Seq(Event) :
           /\ LastTurn(q) \in 0..MaxTurns
           /\ \A e \in Event : LastTurn(Append(q, e)) = TurnOf(LastTurn(q), e)
  <2> DEFINE A == 0..MaxTurns
  <2>1. TurnClosed(A, Event)
    BY <1>1
  <2> HIDE DEF A
  <2>2. /\ LastTurn(<<>>) = 0
        /\ \A q \in Seq(Event) :
             /\ LastTurn(q) \in A
             /\ \A e \in Event : LastTurn(Append(q, e)) = TurnOf(LastTurn(q), e)
    BY <2>1, TurnFold
  <2> QED BY <2>2 DEF A
<1> QED BY <1>2

-----------------------------------------------------------------------------
(* What a log of the driver and of the repair satisfies *)

\* The message at i is of the step that is still open.
Open(q, i) ==
  q[i].type = "assistant/message" /\ \A j \in i..Len(q) : q[j].type # "step/end"

Asked(q) == \E i \in DOMAIN q : Open(q, i)

CalledIn(q, t, s, c) ==
  \E j \in DOMAIN q :
    q[j].type = "tool/call" /\ q[j].turn = t /\ q[j].step = s /\ q[j].call = c

\* The companion's record T, the repair's scan S and the last turn L agree on
\* what is open and on the numbers to come.
StepsMatch(T, S, L) ==
  /\ T.ok /\ T.openTurn = S.turn /\ T.openStep = S.step
  /\ T.nextTurn = IF S.turn = 0 THEN L + 1 ELSE L
  /\ S.turn # 0 => S.turn = L
  /\ S.turn = 0 => S.step = 0
  /\ S.step # 0 => S.step = T.nextStep

\* Calls lie in the turns and the steps begun so far.
NumbersMatch(q, T, S, L) ==
  \A j \in DOMAIN q : q[j].type = "tool/call" =>
    /\ q[j].turn <= L
    /\ q[j].turn = S.turn => (q[j].step < T.nextStep \/ q[j].step = S.step)

\* Pending calls are those of the open step without a result, each marked as
\* the log says.
PendingMatch(q, T, S) ==
  /\ Distinct(S.pending)
  /\ \A k \in DOMAIN S.pending :
       /\ S.pending[k].step = S.step
       /\ S.pending[k].started <=> S.pending[k].call \in T.calls
       /\ S.pending[k].started <=> CalledIn(q, S.turn, S.step, S.pending[k].call)
  /\ \A c \in T.calls : Registered(S.pending, c)
  /\ ~Asked(q) => S.pending = <<>> /\ \A c \in Call : ~CalledIn(q, S.turn, S.step, c)
  /\ Asked(q) => S.step # 0

\* A call of the open step has no result while it is pending, and one after.
ResultsMatch(q, S) ==
  \A i \in DOMAIN q : Open(q, i) =>
    \A k \in DOMAIN q[i].calls :
      IF Registered(S.pending, q[i].calls[k])
      THEN ResultsIn(q, i, q[i].calls[k]) = {}
      ELSE \E j \in DOMAIN q : ResultsIn(q, i, q[i].calls[k]) = {j}

Sound(q) ==
  /\ StepsMatch(Trace(q), OpenTail(q), LastTurn(q))
  /\ NumbersMatch(q, Trace(q), OpenTail(q), LastTurn(q))
  /\ PendingMatch(q, Trace(q), OpenTail(q))
  /\ ResultsMatch(q, OpenTail(q))

\* What the driver and the repair append: an event the companion accepts, one
\* message per step, and starts and results of pending calls only.
Follows(q, T, S, e) ==
  /\ Accepts(T, e)
  /\ e.type = "assistant/message" =>
       ~Asked(q) /\ \A k, l \in DOMAIN e.calls : e.calls[k] = e.calls[l] => k = l
  /\ e.type \in {"tool/call", "tool/result"} => Registered(S.pending, e.call)

-----------------------------------------------------------------------------
(* One more event *)

\* What the folds make of an event that follows, by type.
LEMMA BoundaryStep ==
  ASSUME NEW T \in Traces, NEW S \in Tails, NEW L \in 0..MaxTurns, NEW e \in Event,
         StepsMatch(T, S, L), Accepts(T, e),
         NEW T1, T1 = Record(T, e), NEW S1, S1 = Scan(S, e), NEW L1, L1 = TurnOf(L, e)
  PROVE  /\ e.type = "turn/start" =>
              /\ S.turn = 0 /\ S.step = 0 /\ e.turn = L + 1 /\ L1 = L + 1
              /\ T1.openTurn = L + 1 /\ T1.openStep = 0 /\ T1.nextTurn = L + 1
              /\ T1.nextStep = 1 /\ T1.calls = T.calls /\ T1.ok
              /\ S1.turn = L + 1 /\ S1.step = 0 /\ S1.pending = <<>>
         /\ e.type = "turn/end" =>
              /\ S.turn = e.turn /\ S.step = 0 /\ L1 = L /\ S.turn = L /\ S.turn # 0
              /\ T1.openTurn = 0 /\ T1.openStep = 0 /\ T1.nextTurn = L + 1
              /\ T1.nextStep = T.nextStep /\ T1.calls = T.calls /\ T1.ok
              /\ S1.turn = 0 /\ S1.step = 0 /\ S1.pending = <<>>
         /\ e.type = "step/start" =>
              /\ S.turn = e.turn /\ S.turn # 0 /\ S.step = 0 /\ e.step = T.nextStep /\ L1 = L
              /\ T1.openTurn = T.openTurn /\ T1.openStep = e.step /\ T1.nextTurn = T.nextTurn
              /\ T1.nextStep = T.nextStep /\ T1.calls = T.calls /\ T1.ok
              /\ S1.turn = S.turn /\ S1.step = e.step /\ S1.pending = S.pending
         /\ e.type = "step/end" =>
              /\ S.turn = e.turn /\ S.step = e.step /\ S.turn # 0 /\ S.step # 0 /\ L1 = L
              /\ S.step = T.nextStep
              /\ T1.openTurn = T.openTurn /\ T1.openStep = 0 /\ T1.nextTurn = T.nextTurn
              /\ T1.nextStep = T.nextStep + 1 /\ T1.calls = {} /\ T1.ok
              /\ S1.turn = S.turn /\ S1.step = 0 /\ S1.pending = <<>>
<1>1. /\ T.ok /\ T.openTurn = S.turn /\ T.openStep = S.step
      /\ T.nextTurn = IF S.turn = 0 THEN L + 1 ELSE L
      /\ S.turn # 0 => S.turn = L
      /\ S.turn = 0 => S.step = 0
      /\ S.step # 0 => S.step = T.nextStep
  BY DEF StepsMatch
<1>2. T1 = Advance(T, e)
  BY DEF Record
<1>3. L \in Nat
  BY BoundsAreNat
<1>4. ASSUME e.type = "turn/start"
      PROVE  /\ S.turn = 0 /\ S.step = 0 /\ e.turn = L + 1 /\ L1 = L + 1
             /\ T1.openTurn = L + 1 /\ T1.openStep = 0 /\ T1.nextTurn = L + 1
             /\ T1.nextStep = 1 /\ T1.calls = T.calls /\ T1.ok
             /\ S1.turn = L + 1 /\ S1.step = 0 /\ S1.pending = <<>>
  <2>1. T.openTurn = 0 /\ e.turn = T.nextTurn
    BY <1>4 DEF Accepts
  <2>2. T1 = [T EXCEPT !.openTurn = e.turn, !.nextStep = 1]
    BY <1>2, <1>4 DEF Advance
  <2>3. S1 = [NothingOpen EXCEPT !.turn = e.turn] /\ L1 = e.turn
    BY <1>4 DEF Scan, TurnOf
  <2> QED BY <1>1, <2>1, <2>2, <2>3 DEF Traces, NothingOpen
<1>5. ASSUME e.type = "turn/end"
      PROVE  /\ S.turn = e.turn /\ S.step = 0 /\ L1 = L /\ S.turn = L /\ S.turn # 0
             /\ T1.openTurn = 0 /\ T1.openStep = 0 /\ T1.nextTurn = L + 1
             /\ T1.nextStep = T.nextStep /\ T1.calls = T.calls /\ T1.ok
             /\ S1.turn = 0 /\ S1.step = 0 /\ S1.pending = <<>>
  <2>1. T.openTurn = e.turn /\ T.openStep = 0 /\ e.turn # 0
    BY <1>5, EventCases, BoundsAreNat DEF Accepts, Turns
  <2>2. T1 = [T EXCEPT !.openTurn = 0, !.nextTurn = T.nextTurn + 1]
    BY <1>2, <1>5 DEF Advance
  <2>3. S1 = NothingOpen /\ L1 = L
    BY <1>5 DEF Scan, TurnOf
  <2>4. S.turn = e.turn /\ S.step = 0 /\ S.turn = L /\ T.nextTurn = L
    BY <1>1, <2>1
  <2>5. /\ T1.openTurn = 0 /\ T1.openStep = T.openStep /\ T1.nextTurn = T.nextTurn + 1
        /\ T1.nextStep = T.nextStep /\ T1.calls = T.calls /\ T1.ok = T.ok
    BY <2>2 DEF Traces
  <2> QED BY <1>1, <2>1, <2>3, <2>4, <2>5 DEF NothingOpen
<1>6. ASSUME e.type = "step/start"
      PROVE  /\ S.turn = e.turn /\ S.turn # 0 /\ S.step = 0 /\ e.step = T.nextStep /\ L1 = L
             /\ T1.openTurn = T.openTurn /\ T1.openStep = e.step /\ T1.nextTurn = T.nextTurn
             /\ T1.nextStep = T.nextStep /\ T1.calls = T.calls /\ T1.ok
             /\ S1.turn = S.turn /\ S1.step = e.step /\ S1.pending = S.pending
  <2>1. T.openTurn = e.turn /\ T.openStep = 0 /\ e.step = T.nextStep /\ e.turn # 0
    BY <1>6, EventCases, BoundsAreNat DEF Accepts, Turns
  <2>2. T1 = [T EXCEPT !.openStep = e.step]
    BY <1>2, <1>6 DEF Advance
  <2>3. S1 = [S EXCEPT !.step = e.step] /\ L1 = L
    BY <1>6 DEF Scan, TurnOf
  <2> QED BY <1>1, <2>1, <2>2, <2>3 DEF Traces, Tails
<1>7. ASSUME e.type = "step/end"
      PROVE  /\ S.turn = e.turn /\ S.step = e.step /\ S.turn # 0 /\ S.step # 0 /\ L1 = L
             /\ S.step = T.nextStep
             /\ T1.openTurn = T.openTurn /\ T1.openStep = 0 /\ T1.nextTurn = T.nextTurn
             /\ T1.nextStep = T.nextStep + 1 /\ T1.calls = {} /\ T1.ok
             /\ S1.turn = S.turn /\ S1.step = 0 /\ S1.pending = <<>>
  <2>1. T.openTurn = e.turn /\ T.openStep = e.step /\ e.step # 0 /\ e.turn # 0
    BY <1>7, EventCases, BoundsAreNat DEF Accepts, NamesOpenStep, Turns, Steps
  <2>2. T1 = [T EXCEPT !.openStep = 0, !.nextStep = T.nextStep + 1, !.calls = {}]
    BY <1>2, <1>7 DEF Advance
  <2>3. S1 = [S EXCEPT !.step = 0, !.pending = <<>>] /\ L1 = L
    BY <1>7 DEF Scan, TurnOf
  <2> QED BY <1>1, <2>1, <2>2, <2>3 DEF Traces, Tails
<1> QED BY <1>4, <1>5, <1>6, <1>7

\* What they make of a message, a call or a result.
LEMMA CallStep ==
  ASSUME NEW T \in Traces, NEW S \in Tails, NEW L \in 0..MaxTurns, NEW e \in Event,
         StepsMatch(T, S, L), Accepts(T, e),
         e.type \in {"assistant/message", "tool/call", "tool/result"},
         NEW T1, T1 = Record(T, e), NEW S1, S1 = Scan(S, e), NEW L1, L1 = TurnOf(L, e)
  PROVE  /\ S.turn = e.turn /\ S.step = e.step /\ S.turn # 0 /\ S.step # 0 /\ L1 = L
         /\ T1.openTurn = T.openTurn /\ T1.openStep = T.openStep /\ T1.ok
         /\ T1.nextTurn = T.nextTurn /\ T1.nextStep = T.nextStep
         /\ S1.turn = S.turn /\ S1.step = S.step
         /\ e.type = "assistant/message" =>
              T1.calls = T.calls /\ S1.pending = Register(S.pending, e)
         /\ e.type = "tool/call" =>
              T1.calls = T.calls \cup {e.call} /\ S1.pending = MarkStarted(S.pending, e.call)
         /\ e.type = "tool/result" =>
              T1.calls = T.calls \ {e.call} /\ S1.pending = DropEntry(S.pending, e.call)
<1>1. T.ok /\ T.openTurn = S.turn /\ T.openStep = S.step
  BY DEF StepsMatch
<1>2. T1 = Advance(T, e) /\ L1 = L
  BY DEF Record, TurnOf
<1>3. T.openTurn = e.turn /\ T.openStep = e.step /\ e.step # 0 /\ e.turn # 0
  BY EventCases, BoundsAreNat DEF Accepts, NamesOpenStep, Turns, Steps
<1>4. CASE e.type = "assistant/message"
  <2>1. T1 = T /\ S1 = [S EXCEPT !.pending = Register(S.pending, e)]
    BY <1>2, <1>4 DEF Advance, Scan
  <2> QED BY <1>1, <1>2, <1>3, <1>4, <2>1 DEF Traces, Tails
<1>5. CASE e.type = "tool/call"
  <2>1. /\ T1 = [T EXCEPT !.calls = T.calls \cup {e.call}]
        /\ S1 = [S EXCEPT !.pending = MarkStarted(S.pending, e.call)]
    BY <1>2, <1>5 DEF Advance, Scan
  <2> QED BY <1>1, <1>2, <1>3, <1>5, <2>1 DEF Traces, Tails
<1>6. CASE e.type = "tool/result"
  <2>1. /\ T1 = [T EXCEPT !.calls = T.calls \ {e.call}]
        /\ S1 = [S EXCEPT !.pending = DropEntry(S.pending, e.call)]
    BY <1>2, <1>6 DEF Advance, Scan
  <2> QED BY <1>1, <1>2, <1>3, <1>6, <2>1 DEF Traces, Tails
<1> QED BY <1>4, <1>5, <1>6

\* An accepted event keeps record, scan and last turn in agreement.
LEMMA StepsKept ==
  ASSUME NEW T \in Traces, NEW S \in Tails, NEW L \in 0..MaxTurns, NEW e \in Event,
         StepsMatch(T, S, L), Accepts(T, e)
  PROVE  StepsMatch(Record(T, e), Scan(S, e), TurnOf(L, e))
<1> PICK T1, S1, L1 : T1 = Record(T, e) /\ S1 = Scan(S, e) /\ L1 = TurnOf(L, e)
  OBVIOUS
<1>1. /\ T.ok /\ T.openTurn = S.turn /\ T.openStep = S.step
      /\ T.nextTurn = IF S.turn = 0 THEN L + 1 ELSE L
      /\ S.turn # 0 => S.turn = L
      /\ S.turn = 0 => S.step = 0
      /\ S.step # 0 => S.step = T.nextStep
  BY DEF StepsMatch
<1>2. L \in Nat /\ e.turn # 0
  BY EventCases, BoundsAreNat DEF Turns
<1>3. CASE e.type \in {"turn/start", "turn/end", "step/start", "step/end"}
  BY <1>1, <1>2, <1>3, BoundaryStep DEF StepsMatch
<1>4. CASE e.type \in {"assistant/message", "tool/call", "tool/result"}
  BY <1>1, <1>4, CallStep DEF StepsMatch
<1> QED BY <1>3, <1>4, EventCases

\* An accepted event keeps the calls in the steps begun so far.
LEMMA NumbersKept ==
  ASSUME NEW T \in Traces, NEW S \in Tails, NEW L \in 0..MaxTurns, NEW e \in Event,
         NEW q \in Seq(Event), StepsMatch(T, S, L), Accepts(T, e), NumbersMatch(q, T, S, L)
  PROVE  NumbersMatch(Append(q, e), Record(T, e), Scan(S, e), TurnOf(L, e))
<1> PICK T1, S1, L1, w : /\ T1 = Record(T, e) /\ S1 = Scan(S, e) /\ L1 = TurnOf(L, e)
                         /\ w = Append(q, e)
  OBVIOUS
<1>1. /\ DOMAIN w = 1..Len(q) + 1 /\ DOMAIN q = 1..Len(q) /\ Len(q) \in Nat
      /\ \A i \in DOMAIN q : w[i] = q[i]
      /\ w[Len(q) + 1] = e
  BY AppendFacts
<1>2. SUFFICES ASSUME NEW j \in DOMAIN w, w[j].type = "tool/call"
               PROVE  /\ w[j].turn <= L1
                      /\ w[j].turn = S1.turn => (w[j].step < T1.nextStep \/ w[j].step = S1.step)
  BY DEF NumbersMatch
<1>3. L \in Nat /\ T.nextStep \in Nat /\ T.nextTurn \in Nat
  BY BoundsAreNat DEF Traces
<1>4. CASE j \in DOMAIN q
  <2>1. w[j] = q[j] /\ q[j] \in Event
    BY <1>1, <1>4
  <2>2. w[j].turn \in Nat \ {0} /\ w[j].step \in Nat \ {0}
    <3>1. w[j] \in Event
      BY <2>1
    <3>2. w[j].turn \in Turns /\ w[j].step \in Steps
      BY <1>2, <3>1, EventCases
    <3> QED BY <3>2, BoundsAreNat DEF Turns, Steps
  <2>3. /\ w[j].turn <= L
        /\ w[j].turn = S.turn => (w[j].step < T.nextStep \/ w[j].step = S.step)
    BY <1>2, <1>4, <2>1 DEF NumbersMatch
  <2>4. CASE e.type = "turn/start"
    BY <1>3, <2>2, <2>3, <2>4, BoundaryStep
  <2>5. CASE e.type = "turn/end"
    BY <1>3, <2>2, <2>3, <2>5, BoundaryStep
  <2>6. CASE e.type = "step/start"
    BY <1>3, <2>2, <2>3, <2>6, BoundaryStep
  <2>7. CASE e.type = "step/end"
    BY <1>3, <2>2, <2>3, <2>7, BoundaryStep
  <2>8. CASE e.type \in {"assistant/message", "tool/call", "tool/result"}
    BY <1>3, <2>2, <2>3, <2>8, CallStep
  <2> QED BY <2>4, <2>5, <2>6, <2>7, <2>8, EventCases
<1>5. CASE j = Len(q) + 1
  <2>1. w[j] = e
    BY <1>1, <1>5
  <2>2. L1 = L /\ S1.turn = S.turn /\ S1.step = S.step /\ S.turn = e.turn /\ S.step = e.step
        /\ S.turn # 0
    BY <1>2, <2>1, CallStep
  <2>3. S.turn = L
    BY <2>2 DEF StepsMatch
  <2> QED BY <1>3, <2>1, <2>2, <2>3
<1> QED BY <1>1, <1>4, <1>5

Extends(w, q, e) == q \in Seq(Event) /\ e \in Event /\ w = Append(q, e)

\* Which messages are of the open step.
LEMMA OpenFacts ==
  ASSUME NEW q, NEW e, NEW w, Extends(w, q, e)
  PROVE  /\ e.type = "step/end" => \A i \in DOMAIN w : ~Open(w, i)
         /\ e.type # "step/end" => \A i \in DOMAIN q : Open(w, i) <=> Open(q, i)
         /\ Open(w, Len(q) + 1) <=> e.type = "assistant/message"
<1>1. /\ DOMAIN w = 1..Len(q) + 1 /\ DOMAIN q = 1..Len(q) /\ Len(q) \in Nat
      /\ Len(w) = Len(q) + 1
      /\ \A i \in DOMAIN q : w[i] = q[i]
      /\ w[Len(q) + 1] = e
  BY AppendFacts DEF Extends
<1>2. ASSUME e.type = "step/end", NEW i \in DOMAIN w PROVE ~Open(w, i)
  <2>1. Len(w) \in i..Len(w) /\ w[Len(w)].type = "step/end"
    BY <1>1, <1>2
  <2> QED BY <2>1 DEF Open
<1>3. ASSUME e.type # "step/end", NEW i \in DOMAIN q PROVE Open(w, i) <=> Open(q, i)
  <2>1. w[i] = q[i] /\ i \in Nat /\ i >= 1
    BY <1>1, <1>3
  <2>2. ASSUME Open(w, i), NEW j \in i..Len(q) PROVE q[j].type # "step/end"
    <3>1. j \in i..Len(w) /\ w[j] = q[j]
      BY <1>1, <2>1, <2>2
    <3> QED BY <2>2, <3>1 DEF Open
  <2>3. ASSUME Open(q, i), NEW j \in i..Len(w) PROVE w[j].type # "step/end"
    <3>1. CASE j = Len(q) + 1
      BY <1>1, <1>3, <3>1
    <3>2. CASE j # Len(q) + 1
      <4>1. j \in i..Len(q) /\ w[j] = q[j]
        BY <1>1, <2>1, <2>3, <3>2
      <4> QED BY <2>3, <4>1 DEF Open
    <3> QED BY <3>1, <3>2
  <2> QED BY <2>1, <2>2, <2>3 DEF Open
<1>4. Open(w, Len(q) + 1) <=> e.type = "assistant/message"
  <2>1. \A j \in Len(q) + 1..Len(w) : j = Len(q) + 1
    BY <1>1
  <2> QED BY <1>1, <2>1 DEF Open
<1> QED BY <1>2, <1>3, <1>4

\* The open step has asked for calls: what one more event changes of it.
LEMMA AskedFacts ==
  ASSUME NEW q, NEW e, NEW w, Extends(w, q, e)
  PROVE  /\ e.type = "step/end" => ~Asked(w)
         /\ e.type = "assistant/message" => Asked(w)
         /\ e.type \notin {"step/end", "assistant/message"} => (Asked(w) <=> Asked(q))
<1>1. DOMAIN w = 1..Len(q) + 1 /\ DOMAIN q = 1..Len(q) /\ Len(q) \in Nat
  BY AppendFacts DEF Extends
<1>2. /\ e.type = "step/end" => \A i \in DOMAIN w : ~Open(w, i)
      /\ e.type # "step/end" => \A i \in DOMAIN q : Open(w, i) <=> Open(q, i)
      /\ Open(w, Len(q) + 1) <=> e.type = "assistant/message"
  BY OpenFacts
<1>3. DOMAIN q \subseteq DOMAIN w /\ Len(q) + 1 \in DOMAIN w
      /\ \A i \in DOMAIN w : i \in DOMAIN q \/ i = Len(q) + 1
  BY <1>1
<1> QED BY <1>2, <1>3 DEF Asked

\* A call was recorded as started: what one more event changes of it.
LEMMA CalledFacts ==
  ASSUME NEW q, NEW e, NEW w, Extends(w, q, e), NEW t, NEW s, NEW c
  PROVE  CalledIn(w, t, s, c) <=>
           \/ CalledIn(q, t, s, c)
           \/ e.type = "tool/call" /\ e.turn = t /\ e.step = s /\ e.call = c
<1>1. /\ DOMAIN w = 1..Len(q) + 1 /\ DOMAIN q = 1..Len(q) /\ Len(q) \in Nat
      /\ \A i \in DOMAIN q : w[i] = q[i]
      /\ w[Len(q) + 1] = e
  BY AppendFacts DEF Extends
<1>2. DOMAIN q \subseteq DOMAIN w /\ Len(q) + 1 \in DOMAIN w
      /\ \A i \in DOMAIN w : i \in DOMAIN q \/ i = Len(q) + 1
  BY <1>1
<1> QED BY <1>1, <1>2 DEF CalledIn

\* The results of a call: what one more event adds to them.
LEMMA ResultFacts ==
  ASSUME NEW q, NEW e, NEW w, Extends(w, q, e), NEW c
  PROVE  /\ \A i \in DOMAIN q :
              /\ e.type = "tool/result" /\ e.call = c =>
                   ResultsIn(w, i, c) = ResultsIn(q, i, c) \cup {Len(q) + 1}
              /\ e.type # "tool/result" \/ e.call # c =>
                   ResultsIn(w, i, c) = ResultsIn(q, i, c)
         /\ e.type # "tool/result" => ResultsIn(w, Len(q) + 1, c) = {}
<1>1. /\ DOMAIN w = 1..Len(q) + 1 /\ DOMAIN q = 1..Len(q) /\ Len(q) \in Nat
      /\ Len(w) = Len(q) + 1
      /\ \A i \in DOMAIN q : w[i] = q[i]
      /\ w[Len(q) + 1] = e
  BY AppendFacts DEF Extends
<1>2. ASSUME NEW i \in DOMAIN q, NEW j
      PROVE  j \in ResultsIn(w, i, c) <=>
               \/ j \in ResultsIn(q, i, c)
               \/ j = Len(q) + 1 /\ e.type = "tool/result" /\ e.call = c
  <2>1. i \in Nat /\ 1 <= i /\ i <= Len(q)
    BY <1>1
  <2>2. j \in i..Len(q) + 1 <=> j \in i..Len(q) \/ j = Len(q) + 1
    BY <1>1, <2>1
  <2>3. j \in i..Len(q) => w[j] = q[j]
    BY <1>1, <2>1
  <2>4. Len(q) + 1 \notin i..Len(q)
    BY <1>1, <2>1
  <2> QED BY <1>1, <2>2, <2>3, <2>4 DEF ResultsIn
<1>3. ASSUME e.type # "tool/result" PROVE ResultsIn(w, Len(q) + 1, c) = {}
  <2>1. \A j \in Len(q) + 1..Len(w) : j = Len(q) + 1
    BY <1>1
  <2> QED BY <1>1, <1>3, <2>1 DEF ResultsIn
<1> QED BY <1>2, <1>3

-----------------------------------------------------------------------------
(* A sound log stays sound *)

\* A map without entries matches what holds no call.
LEMMA NothingPending ==
  ASSUME NEW q, NEW T, NEW S, S.pending = <<>>, T.calls = {}, ~Asked(q),
         \A c \in Call : ~CalledIn(q, S.turn, S.step, c)
  PROVE  PendingMatch(q, T, S)
<1>1. DOMAIN S.pending = {}
  OBVIOUS
<1> QED BY <1>1 DEF PendingMatch, Distinct

\* Before a message nothing is pending.
LEMMA NothingAsked ==
  ASSUME NEW q, NEW T \in Traces, NEW S, PendingMatch(q, T, S), ~Asked(q)
  PROVE  /\ S.pending = <<>> /\ T.calls = {}
         /\ \A c \in Call : ~CalledIn(q, S.turn, S.step, c)
<1>1. S.pending = <<>> /\ \A c \in Call : ~CalledIn(q, S.turn, S.step, c)
  BY DEF PendingMatch
<1>2. \A c \in T.calls : Registered(<<>>, c)
  BY <1>1 DEF PendingMatch
<1>3. \A c : ~Registered(<<>>, c)
  BY DEF Registered
<1> QED BY <1>1, <1>2, <1>3

\* A recorded call names a step, and steps count from 1.
LEMMA CallsHaveSteps ==
  ASSUME NEW q \in Seq(Event), NEW t, NEW s, NEW c, CalledIn(q, t, s, c)
  PROVE  /\ s # 0
         /\ \E j \in DOMAIN q :
              q[j].type = "tool/call" /\ q[j].turn = t /\ q[j].step = s
<1>1. PICK j \in DOMAIN q : q[j].type = "tool/call" /\ q[j].turn = t /\ q[j].step = s
  BY DEF CalledIn
<1>2. q[j] \in Event
  OBVIOUS
<1>3. q[j].step \in Steps
  BY <1>1, <1>2, EventCases
<1>4. 0 \notin Steps
  BY BoundsAreNat DEF Steps
<1> QED BY <1>1, <1>3, <1>4

\* The next event keeps the pending map in step with the log.
LEMMA PendingKept ==
  ASSUME NEW T \in Traces, NEW S \in Tails, NEW L \in 0..MaxTurns, NEW e \in Event,
         NEW q \in Seq(Event), StepsMatch(T, S, L), NumbersMatch(q, T, S, L),
         PendingMatch(q, T, S), Follows(q, T, S, e)
  PROVE  PendingMatch(Append(q, e), Record(T, e), Scan(S, e))
<1> PICK T1, S1, w, p, p1 : /\ T1 = Record(T, e) /\ S1 = Scan(S, e) /\ w = Append(q, e)
                            /\ p = S.pending /\ p1 = S1.pending
  OBVIOUS
<1> SUFFICES PendingMatch(w, T1, S1)
  OBVIOUS
<1>0. Extends(w, q, e)
  BY DEF Extends
<1>1. Accepts(T, e)
  BY DEF Follows
<1>2. Asked(q) => S.step # 0
  BY DEF PendingMatch
<1>3. \A t, s, c : CalledIn(w, t, s, c) <=>
        CalledIn(q, t, s, c) \/ (e.type = "tool/call" /\ e.turn = t /\ e.step = s /\ e.call = c)
  BY <1>0, CalledFacts
<1>4. p \in Pendings
  BY DEF Tails, Pendings
<1>5. CASE e.type \in {"turn/start", "turn/end"}
  <2>1. S.step = 0 /\ S1.pending = <<>> /\ S1.step = 0 /\ T1.calls = T.calls
    BY <1>1, <1>5, BoundaryStep
  <2>2. ~Asked(q) /\ ~Asked(w)
    BY <1>0, <1>2, <1>5, <2>1, AskedFacts
  <2>3. T1.calls = {}
    BY <2>1, <2>2, NothingAsked
  <2>4. \A c : ~CalledIn(w, S1.turn, S1.step, c)
    BY <1>3, <1>5, <2>1, CallsHaveSteps
  <2> QED BY <2>1, <2>2, <2>3, <2>4, NothingPending
<1>6. CASE e.type = "step/start"
  <2>1. /\ S.step = 0 /\ S.turn # 0 /\ S1.pending = S.pending /\ T1.calls = T.calls
        /\ S1.turn = S.turn /\ S1.step = T.nextStep
    BY <1>1, <1>6, BoundaryStep
  <2>2. ~Asked(q) /\ ~Asked(w)
    BY <1>0, <1>2, <1>6, <2>1, AskedFacts
  <2>3. S1.pending = <<>> /\ T1.calls = {}
    BY <2>1, <2>2, NothingAsked
  <2>4. ASSUME NEW c, CalledIn(q, S1.turn, S1.step, c) PROVE FALSE
    <3>1. PICK j \in DOMAIN q : q[j].type = "tool/call" /\ q[j].turn = S1.turn /\ q[j].step = S1.step
      BY <2>4, CallsHaveSteps
    <3>2. q[j].step < T.nextStep \/ q[j].step = S.step
      BY <2>1, <3>1 DEF NumbersMatch
    <3>3. S1.step # 0
      BY <2>4, CallsHaveSteps
    <3>4. T.nextStep \in Nat
      BY DEF Traces
    <3> QED BY <2>1, <3>1, <3>2, <3>3, <3>4
  <2>5. \A c : ~CalledIn(w, S1.turn, S1.step, c)
    BY <1>3, <1>6, <2>4
  <2> QED BY <2>2, <2>3, <2>5, NothingPending
<1>7. CASE e.type = "step/end"
  <2>1. S1.pending = <<>> /\ S1.step = 0 /\ T1.calls = {}
    BY <1>1, <1>7, BoundaryStep
  <2>2. ~Asked(w)
    BY <1>0, <1>7, AskedFacts
  <2>3. \A c : ~CalledIn(w, S1.turn, S1.step, c)
    BY <1>3, <1>7, <2>1, CallsHaveSteps
  <2> QED BY <2>1, <2>2, <2>3, NothingPending
<1>8. CASE e.type = "assistant/message"
  <2>1. /\ S.step # 0 /\ S1.step = S.step /\ S1.turn = S.turn /\ e.step = S.step
        /\ T1.calls = T.calls /\ S1.pending = Register(S.pending, e)
    BY <1>1, <1>8, CallStep
  <2>2. ~Asked(q) /\ \A k, l \in DOMAIN e.calls : e.calls[k] = e.calls[l] => k = l
    BY <1>8 DEF Follows
  <2>3. S.pending = <<>> /\ T.calls = {} /\ \A c \in Call : ~CalledIn(q, S.turn, S.step, c)
    BY <2>2, NothingAsked
  <2>4. e.calls \in Seq(Call) /\ e.step \in 0..MaxSteps
    BY <1>8, EventCases, BoundsAreNat DEF Steps
  <2>5. S1.pending = Asks(e)
    BY <2>1, <2>2, <2>3, <2>4, RegisterFacts
  <2>6. /\ DOMAIN S1.pending = DOMAIN e.calls
        /\ \A k \in DOMAIN e.calls :
             /\ S1.pending[k].call = e.calls[k] /\ S1.pending[k].step = e.step
             /\ S1.pending[k].started = FALSE
             /\ e.calls[k] \in Call
    BY <2>4, <2>5 DEF Asks
  <2>7. Asked(w)
    BY <1>0, <1>8, AskedFacts
  <2>8. \A c \in Call : ~CalledIn(w, S1.turn, S1.step, c)
    BY <1>3, <1>8, <2>1, <2>3
  <2>9. Distinct(S1.pending)
    BY <2>2, <2>6 DEF Distinct
  <2> QED BY <2>1, <2>3, <2>6, <2>7, <2>8, <2>9 DEF PendingMatch
<1>9. CASE e.type = "tool/call"
  <2>1. /\ S.step # 0 /\ S1.step = S.step /\ S1.turn = S.turn /\ e.step = S.step /\ e.turn = S.turn
        /\ T1.calls = T.calls \cup {e.call} /\ S1.pending = MarkStarted(S.pending, e.call)
    BY <1>1, <1>9, CallStep
  <2>2. Registered(S.pending, e.call)
    BY <1>9 DEF Follows
  <2>3. e.call \in Call
    BY <1>9, EventCases
  <2>4. /\ DOMAIN p1 = DOMAIN p
        /\ \A k \in DOMAIN p :
             /\ p1[k].call = p[k].call /\ p1[k].step = p[k].step
             /\ p[k].call = e.call => p1[k].started
             /\ p[k].call # e.call => p1[k].started = p[k].started
    <3>1. p1 = MarkStarted(p, e.call)
      BY <2>1
    <3> QED BY <1>4, <2>3, <3>1, MarkFacts
  <2>5. Asked(q)
    <3>1. DOMAIN S.pending # {}
      BY <2>2 DEF Registered
    <3>2. S.pending # <<>>
      BY <3>1
    <3> QED BY <3>2 DEF PendingMatch
  <2>6. Asked(w)
    BY <1>0, <1>9, <2>5, AskedFacts
  <2>7. Distinct(p1)
    <3>1. Distinct(p)
      BY DEF PendingMatch
    <3> SUFFICES ASSUME NEW k \in DOMAIN p1, NEW l \in DOMAIN p1, p1[k].call = p1[l].call
                 PROVE  k = l
      BY DEF Distinct
    <3>2. k \in DOMAIN p /\ l \in DOMAIN p /\ p[k].call = p[l].call
      BY <2>4
    <3> QED BY <3>1, <3>2 DEF Distinct
  <2>8. \A c : Registered(p1, c) <=> Registered(p, c)
    BY <2>4 DEF Registered
  <2>9. ASSUME NEW k \in DOMAIN p1
        PROVE  /\ p1[k].step = S1.step
               /\ p1[k].started <=> p1[k].call \in T1.calls
               /\ p1[k].started <=> CalledIn(w, S1.turn, S1.step, p1[k].call)
    <3>1. k \in DOMAIN p
      BY <2>4
    <3>2. /\ p[k].step = S.step
          /\ p[k].started <=> p[k].call \in T.calls
          /\ p[k].started <=> CalledIn(q, S.turn, S.step, p[k].call)
      BY <3>1 DEF PendingMatch
    <3>3. p1[k].call = p[k].call /\ p1[k].step = p[k].step
      BY <2>4, <3>1
    <3>4. CASE p[k].call = e.call
      <4>1. p1[k].started
        BY <2>4, <3>1, <3>4
      <4> QED BY <1>3, <1>9, <2>1, <3>2, <3>3, <3>4, <4>1
    <3>5. CASE p[k].call # e.call
      <4>1. p1[k].started = p[k].started
        BY <2>4, <3>1, <3>5
      <4> QED BY <1>3, <1>9, <2>1, <3>2, <3>3, <3>5, <4>1
    <3> QED BY <3>4, <3>5
  <2>10. \A c \in T1.calls : Registered(p1, c)
    BY <2>1, <2>2, <2>8 DEF PendingMatch
  <2> QED BY <2>1, <2>6, <2>7, <2>9, <2>10 DEF PendingMatch
<1>10. CASE e.type = "tool/result"
  <2>1. /\ S.step # 0 /\ S1.step = S.step /\ S1.turn = S.turn
        /\ T1.calls = T.calls \ {e.call} /\ S1.pending = DropEntry(S.pending, e.call)
    BY <1>1, <1>10, CallStep
  <2>2. Registered(S.pending, e.call) /\ Distinct(S.pending)
    BY <1>10 DEF Follows, PendingMatch
  <2>3. /\ Distinct(p1)
        /\ \A a \in DOMAIN p1 : \E b \in DOMAIN p : p1[a] = p[b] /\ p[b].call # e.call
        /\ \A b \in DOMAIN p : p[b].call # e.call => \E a \in DOMAIN p1 : p1[a] = p[b]
    <3>1. PICK c : c = e.call
      OBVIOUS
    <3>2. Drops(p1, p, c) /\ Distinct(p)
      BY <1>4, <2>1, <2>2, <3>1 DEF Drops
    <3>3. /\ Distinct(p1)
          /\ \A a \in DOMAIN p1 : \E b \in DOMAIN p : p1[a] = p[b] /\ p[b].call # c
          /\ \A b \in DOMAIN p : p[b].call # c => \E a \in DOMAIN p1 : p1[a] = p[b]
      BY <3>2, DropFacts
    <3> QED BY <3>1, <3>3
  <2>4. Asked(q)
    <3>1. DOMAIN S.pending # {}
      BY <2>2 DEF Registered
    <3>2. S.pending # <<>>
      BY <3>1
    <3> QED BY <3>2 DEF PendingMatch
  <2>5. Asked(w)
    BY <1>0, <1>10, <2>4, AskedFacts
  <2>6. ASSUME NEW k \in DOMAIN S1.pending
        PROVE  /\ S1.pending[k].step = S1.step
               /\ S1.pending[k].started <=> S1.pending[k].call \in T1.calls
               /\ S1.pending[k].started <=> CalledIn(w, S1.turn, S1.step, S1.pending[k].call)
    <3>1. PICK b \in DOMAIN S.pending :
            S1.pending[k] = S.pending[b] /\ S.pending[b].call # e.call
      BY <2>3
    <3>2. /\ S.pending[b].step = S.step
          /\ S.pending[b].started <=> S.pending[b].call \in T.calls
          /\ S.pending[b].started <=> CalledIn(q, S.turn, S.step, S.pending[b].call)
      BY DEF PendingMatch
    <3> QED BY <1>3, <1>10, <2>1, <3>1, <3>2
  <2>7. ASSUME NEW c \in T1.calls PROVE Registered(S1.pending, c)
    <3>1. Registered(S.pending, c) /\ c # e.call
      BY <2>1, <2>7 DEF PendingMatch
    <3> QED BY <2>3, <3>1 DEF Registered
  <2> QED BY <2>1, <2>3, <2>5, <2>6, <2>7 DEF PendingMatch
<1> QED BY <1>5, <1>6, <1>7, <1>8, <1>9, <1>10, EventCases

\* The next event keeps one result per answered call of the open step.
LEMMA ResultsKept ==
  ASSUME NEW T \in Traces, NEW S \in Tails, NEW L \in 0..MaxTurns, NEW e \in Event,
         NEW q \in Seq(Event), StepsMatch(T, S, L), PendingMatch(q, T, S),
         ResultsMatch(q, S), Follows(q, T, S, e)
  PROVE  ResultsMatch(Append(q, e), Scan(S, e))
<1> PICK S1, w, p, p1 : S1 = Scan(S, e) /\ w = Append(q, e) /\ p = S.pending /\ p1 = S1.pending
  OBVIOUS
<1> SUFFICES ResultsMatch(w, S1)
  OBVIOUS
<1>0. Extends(w, q, e)
  BY DEF Extends
<1>1. Accepts(T, e)
  BY DEF Follows
<1>2. /\ DOMAIN w = 1..Len(q) + 1 /\ DOMAIN q = 1..Len(q) /\ Len(q) \in Nat
      /\ \A i \in DOMAIN q : w[i] = q[i]
      /\ w[Len(q) + 1] = e
  BY AppendFacts
<1>3. /\ e.type = "step/end" => \A i \in DOMAIN w : ~Open(w, i)
      /\ e.type # "step/end" => \A i \in DOMAIN q : Open(w, i) <=> Open(q, i)
      /\ Open(w, Len(q) + 1) <=> e.type = "assistant/message"
  BY <1>0, OpenFacts
<1>4. \A c :
        /\ \A i \in DOMAIN q :
             /\ e.type = "tool/result" /\ e.call = c =>
                  ResultsIn(w, i, c) = ResultsIn(q, i, c) \cup {Len(q) + 1}
             /\ e.type # "tool/result" \/ e.call # c =>
                  ResultsIn(w, i, c) = ResultsIn(q, i, c)
        /\ e.type # "tool/result" => ResultsIn(w, Len(q) + 1, c) = {}
  <2> SUFFICES ASSUME NEW c
               PROVE  /\ \A i \in DOMAIN q :
                           /\ e.type = "tool/result" /\ e.call = c =>
                                ResultsIn(w, i, c) = ResultsIn(q, i, c) \cup {Len(q) + 1}
                           /\ e.type # "tool/result" \/ e.call # c =>
                                ResultsIn(w, i, c) = ResultsIn(q, i, c)
                      /\ e.type # "tool/result" => ResultsIn(w, Len(q) + 1, c) = {}
    OBVIOUS
  <2>1. ASSUME NEW i \in DOMAIN q
        PROVE  /\ e.type = "tool/result" /\ e.call = c =>
                    ResultsIn(w, i, c) = ResultsIn(q, i, c) \cup {Len(q) + 1}
               /\ e.type # "tool/result" \/ e.call # c =>
                    ResultsIn(w, i, c) = ResultsIn(q, i, c)
    BY <1>0, ResultFacts
  <2>2. e.type # "tool/result" => ResultsIn(w, Len(q) + 1, c) = {}
    BY <1>0, ResultFacts
  <2> QED BY <2>1, <2>2
<1>5. p \in Pendings /\ Distinct(p)
  BY DEF Tails, Pendings, PendingMatch
<1> SUFFICES ASSUME NEW i \in DOMAIN w, Open(w, i), NEW k \in DOMAIN w[i].calls
             PROVE  IF Registered(S1.pending, w[i].calls[k])
                    THEN ResultsIn(w, i, w[i].calls[k]) = {}
                    ELSE \E j \in DOMAIN w : ResultsIn(w, i, w[i].calls[k]) = {j}
  BY DEF ResultsMatch
<1> PICK c : c = w[i].calls[k]
  OBVIOUS
<1> SUFFICES IF Registered(S1.pending, c) THEN ResultsIn(w, i, c) = {}
             ELSE \E j \in DOMAIN w : ResultsIn(w, i, c) = {j}
  OBVIOUS
<1>6. e.type # "step/end"
  BY <1>3
<1>7. CASE i \in DOMAIN q
  <2>1. Open(q, i) /\ c = q[i].calls[k] /\ k \in DOMAIN q[i].calls
    BY <1>2, <1>3, <1>6, <1>7
  <2>2. IF Registered(S.pending, c) THEN ResultsIn(q, i, c) = {}
        ELSE \E j \in DOMAIN q : ResultsIn(q, i, c) = {j}
    BY <1>7, <2>1 DEF ResultsMatch
  <2>3. Asked(q) /\ S.step # 0
    BY <1>7, <2>1 DEF Asked, PendingMatch
  <2>4. DOMAIN q \subseteq DOMAIN w /\ Len(q) + 1 \in DOMAIN w
    BY <1>2
  <2>5. CASE e.type \in {"turn/start", "turn/end", "step/start"}
    BY <1>1, <2>3, <2>5, BoundaryStep
  <2>6. CASE e.type = "assistant/message"
    BY <2>3, <2>6 DEF Follows
  <2>7. CASE e.type = "tool/call"
    <3>1. S1.pending = MarkStarted(S.pending, e.call) /\ e.call \in Call
      BY <1>1, <2>7, CallStep, EventCases
    <3>2. DOMAIN p1 = DOMAIN p /\ \A b \in DOMAIN p : p1[b].call = p[b].call
      <4>1. p1 = MarkStarted(p, e.call) /\ e.call \in Call
        BY <3>1
      <4> QED BY <1>5, <4>1, MarkFacts
    <3>3. Registered(S1.pending, c) <=> Registered(S.pending, c)
      BY <3>2 DEF Registered
    <3>4. ResultsIn(w, i, c) = ResultsIn(q, i, c)
      BY <1>4, <1>7, <2>7
    <3> QED BY <2>2, <2>4, <3>3, <3>4
  <2>8. CASE e.type = "tool/result"
    <3>1. S1.pending = DropEntry(S.pending, e.call)
      BY <1>1, <2>8, CallStep
    <3>2. /\ \A a \in DOMAIN p1 : \E b \in DOMAIN p : p1[a] = p[b] /\ p[b].call # e.call
          /\ \A b \in DOMAIN p : p[b].call # e.call => \E a \in DOMAIN p1 : p1[a] = p[b]
      <4>1. PICK d : d = e.call
        OBVIOUS
      <4>2. Drops(p1, p, d)
        BY <1>5, <3>1, <4>1 DEF Drops
      <4>3. /\ \A a \in DOMAIN p1 : \E b \in DOMAIN p : p1[a] = p[b] /\ p[b].call # d
            /\ \A b \in DOMAIN p : p[b].call # d => \E a \in DOMAIN p1 : p1[a] = p[b]
        BY <1>5, <4>2, DropFacts
      <4> QED BY <4>1, <4>3
    <3>3. Registered(S1.pending, c) <=> Registered(S.pending, c) /\ c # e.call
      BY <3>2 DEF Registered
    <3>4. CASE c = e.call
      <4>1. ResultsIn(q, i, c) = {}
        BY <2>2, <2>8, <3>4 DEF Follows
      <4>2. ResultsIn(w, i, c) = {Len(q) + 1}
        BY <1>4, <1>7, <2>8, <3>4, <4>1
      <4> QED BY <2>4, <3>3, <3>4, <4>2
    <3>5. CASE c # e.call
      <4>1. ResultsIn(w, i, c) = ResultsIn(q, i, c)
        BY <1>4, <1>7, <3>5
      <4> QED BY <2>2, <2>4, <3>3, <3>5, <4>1
    <3> QED BY <3>4, <3>5
  <2> QED BY <1>6, <2>5, <2>6, <2>7, <2>8, EventCases
<1>8. CASE i = Len(q) + 1
  <2>1. e.type = "assistant/message" /\ w[i] = e
    BY <1>2, <1>3, <1>8
  <2>2. S1.pending = Register(S.pending, e)
    BY <1>1, <2>1, CallStep
  <2>3. ~Asked(q) /\ \A a, b \in DOMAIN e.calls : e.calls[a] = e.calls[b] => a = b
    BY <2>1 DEF Follows
  <2>4. S.pending = <<>>
    BY <2>3, NothingAsked
  <2>5. e.calls \in Seq(Call) /\ e.step \in 0..MaxSteps
    BY <2>1, EventCases, BoundsAreNat DEF Steps
  <2>6. S1.pending = Asks(e)
    BY <2>2, <2>3, <2>4, <2>5, RegisterFacts
  <2>7. Registered(S1.pending, c)
    <3>1. k \in DOMAIN S1.pending /\ S1.pending[k].call = e.calls[k]
      BY <2>1, <2>6 DEF Asks
    <3> QED BY <2>1, <3>1 DEF Registered
  <2>8. ResultsIn(w, i, c) = {}
    BY <1>4, <1>8, <2>1
  <2> QED BY <2>7, <2>8
<1>9. i \in DOMAIN q \/ i = Len(q) + 1
  BY <1>2
<1> QED BY <1>7, <1>8, <1>9

\* A sound log stays sound under every event that follows.
LEMMA SoundKept ==
  ASSUME NEW q \in Seq(Event), NEW e \in Event, Sound(q), Follows(q, Trace(q), OpenTail(q), e)
  PROVE  Sound(Append(q, e))
<1> PICK T, S, L : T = Trace(q) /\ S = OpenTail(q) /\ L = LastTurn(q)
  OBVIOUS
<1>1. T \in Traces /\ S \in Tails /\ L \in 0..MaxTurns
  BY TraceFacts, TailFacts, LastTurnFacts
<1>2. StepsMatch(T, S, L) /\ NumbersMatch(q, T, S, L) /\ PendingMatch(q, T, S) /\ ResultsMatch(q, S)
  BY DEF Sound
<1>3. Follows(q, T, S, e) /\ Accepts(T, e)
  BY DEF Follows
<1>4. /\ Trace(Append(q, e)) = Record(T, e) /\ OpenTail(Append(q, e)) = Scan(S, e)
      /\ LastTurn(Append(q, e)) = TurnOf(L, e)
  BY TraceFacts, TailFacts, LastTurnFacts
<1>5. StepsMatch(Record(T, e), Scan(S, e), TurnOf(L, e))
  BY <1>1, <1>2, <1>3, StepsKept
<1>6. NumbersMatch(Append(q, e), Record(T, e), Scan(S, e), TurnOf(L, e))
  BY <1>1, <1>2, <1>3, NumbersKept
<1>7. PendingMatch(Append(q, e), Record(T, e), Scan(S, e))
  BY <1>1, <1>2, <1>3, PendingKept
<1>8. ResultsMatch(Append(q, e), Scan(S, e))
  BY <1>1, <1>2, <1>3, ResultsKept
<1> QED BY <1>4, <1>5, <1>6, <1>7, <1>8 DEF Sound

\* The empty log is sound.
LEMMA SoundStart == Sound(<<>>)
<1>1. DOMAIN <<>> = {} /\ <<>> \in Seq(Event)
  OBVIOUS
<1>2. ~Asked(<<>>) /\ \A t, s, c : ~CalledIn(<<>>, t, s, c)
  BY <1>1 DEF Asked, CalledIn
<1>3. Trace(<<>>) = FreshTrace /\ OpenTail(<<>>) = NothingOpen /\ LastTurn(<<>>) = 0
  BY TraceFacts, TailFacts, LastTurnFacts
<1>4. StepsMatch(FreshTrace, NothingOpen, 0)
  BY DEF StepsMatch, FreshTrace, NothingOpen
<1>5. PendingMatch(<<>>, FreshTrace, NothingOpen)
  BY <1>2, NothingPending DEF FreshTrace, NothingOpen
<1>6. NumbersMatch(<<>>, FreshTrace, NothingOpen, 0) /\ ResultsMatch(<<>>, NothingOpen)
  BY <1>1 DEF NumbersMatch, ResultsMatch
<1> QED BY <1>3, <1>4, <1>5, <1>6 DEF Sound

-----------------------------------------------------------------------------
(* The closers *)

SyntheticResults(S) == [i \in DOMAIN S.pending |-> SyntheticResult(S.turn, S.pending[i])]

\* A closer is an event, and the events of an open turn are closed in turn.
LEMMA SyntheticFacts ==
  ASSUME NEW q \in Seq(Event), NEW T, NEW S \in Tails, PendingMatch(q, T, S), S.turn # 0,
         NEW r, r = SyntheticResults(S)
  PROVE  /\ r \in Seq(Event) /\ DOMAIN r = DOMAIN S.pending /\ Len(r) = Len(S.pending)
         /\ \A i \in DOMAIN S.pending :
              /\ r[i] = SyntheticResult(S.turn, S.pending[i])
              /\ r[i].type = "tool/result" /\ r[i].turn = S.turn /\ r[i].step = S.step
              /\ r[i].call = S.pending[i].call
              /\ r[i].code = IF S.pending[i].started THEN OutcomeUnknown ELSE NotStarted
<1>1. /\ S.pending \in Seq(Pending) /\ S.turn \in 0..MaxTurns /\ S.step \in 0..MaxSteps
      /\ MaxTurns \in Nat /\ MaxSteps \in Nat
  BY BoundsAreNat DEF Tails
<1>2. PICK p : p = S.pending
  OBVIOUS
<1>3. p \in Seq(Pending) /\ DOMAIN p = 1..Len(p) /\ Len(p) \in Nat
  BY <1>1, <1>2
<1>4. DOMAIN r = DOMAIN p /\ \A i \in DOMAIN p : r[i] = SyntheticResult(S.turn, p[i])
  BY <1>2 DEF SyntheticResults
<1>5. ASSUME NEW i \in DOMAIN p
      PROVE  /\ r[i] \in Event
             /\ r[i].type = "tool/result" /\ r[i].turn = S.turn /\ r[i].step = S.step
             /\ r[i].call = p[i].call
             /\ r[i].code = IF p[i].started THEN OutcomeUnknown ELSE NotStarted
  <2>1. p[i] \in Pending
    BY <1>3
  <2>2. p[i].step = S.step /\ Asked(q)
    <3>1. DOMAIN S.pending # {} /\ i \in DOMAIN S.pending
      BY <1>2, <1>5
    <3>2. S.pending # <<>>
      BY <3>1
    <3> QED BY <1>2, <3>1, <3>2 DEF PendingMatch
  <2>3. S.step # 0
    BY <2>2 DEF PendingMatch
  <2>4. S.turn \in Turns /\ S.step \in Steps
    BY <1>1, <2>3 DEF Turns, Steps
  <2>5. p[i].call \in Call
    BY <2>1 DEF Pending
  <2>6. r[i] = [type |-> "tool/result", turn |-> S.turn, step |-> S.step, call |-> p[i].call,
                code |-> IF p[i].started THEN OutcomeUnknown ELSE NotStarted]
    BY <1>4, <2>2 DEF SyntheticResult, ToolResult
  <2>7. r[i] \in [type : {"tool/result"}, turn : Turns, step : Steps, call : Call,
                  code : {"none", NotStarted, OutcomeUnknown}]
    BY <2>4, <2>5, <2>6
  <2> QED BY <2>6, <2>7 DEF Event
<1>6. r \in Seq(Event) /\ Len(r) = Len(p)
  <2>1. r = [i \in 1..Len(p) |-> r[i]]
    BY <1>3, <1>2 DEF SyntheticResults
  <2>2. \A i \in 1..Len(p) : r[i] \in Event
    BY <1>3, <1>5
  <2>3. r \in [1..Len(p) -> Event]
    BY <2>1, <2>2
  <2> QED BY <1>3, <2>3
<1> QED BY <1>2, <1>4, <1>5, <1>6

\* The boundary closers: the open step, if there is one, then the turn.
LEMMA BoundaryFacts ==
  ASSUME NEW S \in Tails, S.turn # 0, NEW b, b = BoundaryClosers(S)
  PROVE  /\ b \in Seq(Event)
         /\ TurnEnd(S.turn, "interrupted") \in Event
         /\ S.step = 0 => b = <<TurnEnd(S.turn, "interrupted")>>
         /\ S.step # 0 => /\ b = <<StepEnd(S.turn, S.step), TurnEnd(S.turn, "interrupted")>>
                          /\ StepEnd(S.turn, S.step) \in Event
<1>1. /\ S.turn \in 0..MaxTurns /\ S.step \in 0..MaxSteps /\ MaxTurns \in Nat /\ MaxSteps \in Nat
  BY BoundsAreNat DEF Tails
<1>2. S.turn \in Turns /\ (S.step # 0 => S.step \in Steps)
  BY <1>1 DEF Turns, Steps
<1>3. TurnEnd(S.turn, "interrupted") \in Event
  BY <1>2 DEF TurnEnd, Event
<1>4. S.step # 0 => StepEnd(S.turn, S.step) \in Event
  BY <1>2 DEF StepEnd, Event
<1>5. CASE S.step = 0
  <2>1. b = <<TurnEnd(S.turn, "interrupted")>>
    BY <1>3, <1>5 DEF BoundaryClosers
  <2> QED BY <1>3, <1>5, <2>1
<1>6. CASE S.step # 0
  <2>1. b = <<StepEnd(S.turn, S.step), TurnEnd(S.turn, "interrupted")>>
    <3>1. PICK a, z : a = StepEnd(S.turn, S.step) /\ z = TurnEnd(S.turn, "interrupted")
      OBVIOUS
    <3>2. a \in Event /\ z \in Event
      BY <1>3, <1>4, <1>6, <3>1
    <3>3. <<a>> \o <<z>> = <<a, z>>
      <4>1. PICK s, t, u, v : s = <<a>> /\ t = <<z>> /\ u = s \o t /\ v = <<a, z>>
        OBVIOUS
      <4>2. /\ s \in Seq(Event) /\ t \in Seq(Event) /\ Len(s) = 1 /\ Len(t) = 1
            /\ s[1] = a /\ t[1] = z
            /\ v \in Seq(Event) /\ Len(v) = 2 /\ v[1] = a /\ v[2] = z
        BY <3>2, <4>1
      <4>3. /\ s \o t \in Seq(Event) /\ Len(s \o t) = Len(s) + Len(t)
            /\ \A i \in 1..Len(s) + Len(t) :
                 (s \o t)[i] = IF i <= Len(s) THEN s[i] ELSE t[i - Len(s)]
        BY <4>2, ConcatProperties
      <4>4. u \in Seq(Event) /\ Len(u) = 2 /\ u[1] = a /\ u[2] = z
        BY <4>1, <4>2, <4>3
      <4>5. Len(u) = Len(v) /\ \A i \in 1..Len(u) : u[i] = v[i]
        BY <4>2, <4>4
      <4>6. u = v
        BY <4>2, <4>4, <4>5, SeqEqual
      <4> QED BY <4>1, <4>6
    <3>4. b = <<a>> \o <<z>>
      BY <1>6, <3>1 DEF BoundaryClosers
    <3> QED BY <3>1, <3>3, <3>4
  <2> QED BY <1>3, <1>4, <1>6, <2>1
<1> QED BY <1>3, <1>5, <1>6

\* The closers of a log are events: synthetic results, then the boundaries.
LEMMA ClosersFacts ==
  ASSUME NEW q \in Seq(Event), Sound(q), NEW S, S = OpenTail(q)
  PROVE  /\ Closers(q) \in Seq(Event)
         /\ S.turn = 0 => Closers(q) = <<>>
         /\ S.turn # 0 => Closers(q) = SyntheticResults(S) \o BoundaryClosers(S)
<1>1. S \in Tails /\ PendingMatch(q, Trace(q), S)
  BY TailFacts DEF Sound
<1>2. CASE S.turn = 0
  BY <1>2 DEF Closers
<1>3. CASE S.turn # 0
  <2>1. Closers(q) = SyntheticResults(S) \o BoundaryClosers(S)
    BY <1>3 DEF Closers, SyntheticResults
  <2>2. SyntheticResults(S) \in Seq(Event) /\ BoundaryClosers(S) \in Seq(Event)
    BY <1>1, <1>3, SyntheticFacts, BoundaryFacts
  <2>3. SyntheticResults(S) \o BoundaryClosers(S) \in Seq(Event)
    BY <2>2
  <2> QED BY <1>3, <2>1, <2>3
<1> QED BY <1>2, <1>3

\* Appending the first of some events, then the others.
LEMMA OneByOne ==
  ASSUME NEW S, NEW q \in Seq(S), NEW c \in Seq(S), c # <<>>
  PROVE  /\ Head(c) \in S /\ Tail(c) \in Seq(S)
         /\ Len(c) \in Nat \ {0} /\ Len(Tail(c)) = Len(c) - 1
         /\ Append(q, Head(c)) \in Seq(S)
         /\ q \o c = Append(q, Head(c)) \o Tail(c)
<1>1. /\ Head(c) \in S /\ Tail(c) \in Seq(S)
      /\ Len(c) \in Nat \ {0} /\ Len(Tail(c)) = Len(c) - 1
      /\ Append(q, Head(c)) \in Seq(S)
  OBVIOUS
<1>2. PICK u, v : u = q \o c /\ v = Append(q, Head(c)) \o Tail(c)
  OBVIOUS
<1>3. PICK n, m : n = Len(q) /\ m = Len(c)
  OBVIOUS
<1>4. n \in Nat /\ m \in Nat \ {0}
  BY <1>1, <1>3
<1>5. /\ u \in Seq(S) /\ Len(u) = n + m
      /\ \A i \in 1..n + m : u[i] = IF i <= n THEN q[i] ELSE c[i - n]
  BY <1>2, <1>3, ConcatProperties
<1>6. PICK a, t : a = Append(q, Head(c)) /\ t = Tail(c)
  OBVIOUS
<1>7. /\ a \in Seq(S) /\ Len(a) = n + 1 /\ a[n + 1] = c[1] /\ \A i \in 1..n : a[i] = q[i]
      /\ t \in Seq(S) /\ Len(t) = m - 1 /\ \A i \in 1..m - 1 : t[i] = c[i + 1]
  BY <1>1, <1>3, <1>6
<1>8. /\ v \in Seq(S) /\ Len(v) = (n + 1) + (m - 1)
      /\ \A i \in 1..(n + 1) + (m - 1) : v[i] = IF i <= n + 1 THEN a[i] ELSE t[i - (n + 1)]
  <2>1. v = a \o t
    BY <1>2, <1>6
  <2>2. a \in Seq(S) /\ t \in Seq(S)
    BY <1>7
  <2>3. /\ a \o t \in Seq(S) /\ Len(a \o t) = Len(a) + Len(t)
        /\ \A i \in 1..Len(a) + Len(t) :
             (a \o t)[i] = IF i <= Len(a) THEN a[i] ELSE t[i - Len(a)]
    BY <2>2, ConcatProperties
  <2> QED BY <1>7, <2>1, <2>3
<1>9. Len(u) = Len(v)
  BY <1>4, <1>5, <1>8
<1>10. ASSUME NEW i \in 1..Len(u) PROVE u[i] = v[i]
  <2>1. i \in 1..n + m /\ i \in 1..(n + 1) + (m - 1)
    BY <1>4, <1>5
  <2>2. CASE i <= n
    <3>1. u[i] = q[i]
      BY <1>4, <1>5, <2>1, <2>2
    <3>2. v[i] = a[i] /\ i \in 1..n
      BY <1>4, <1>8, <2>1, <2>2
    <3> QED BY <1>7, <3>1, <3>2
  <2>3. CASE i = n + 1
    <3>1. u[i] = c[1]
      BY <1>4, <1>5, <2>1, <2>3
    <3>2. v[i] = a[n + 1]
      BY <1>4, <1>8, <2>1, <2>3
    <3> QED BY <1>7, <3>1, <3>2
  <2>4. CASE i > n + 1
    <3>1. u[i] = c[i - n]
      BY <1>4, <1>5, <2>1, <2>4
    <3>2. v[i] = t[i - (n + 1)]
      BY <1>4, <1>8, <2>1, <2>4
    <3>3. i - (n + 1) \in 1..m - 1 /\ (i - (n + 1)) + 1 = i - n
      BY <1>4, <2>1, <2>4
    <3> QED BY <1>7, <3>1, <3>2, <3>3
  <2> QED BY <1>4, <2>1, <2>2, <2>3, <2>4
<1>11. u = v
  BY <1>5, <1>8, <1>9, <1>10, SeqEqual
<1> QED BY <1>1, <1>2, <1>11

\* The head and the tail of a concatenation are those of its first part.
LEMMA HeadOfConcat ==
  ASSUME NEW S, NEW r \in Seq(S), NEW b \in Seq(S), r # <<>>
  PROVE  Head(r \o b) = r[1] /\ Tail(r \o b) = Tail(r) \o b
<1> PICK n, m, c, d, t : n = Len(r) /\ m = Len(b) /\ c = r \o b /\ d = Tail(c) /\ t = Tail(r)
  OBVIOUS
<1>1. n \in Nat \ {0} /\ m \in Nat
  OBVIOUS
<1>2. /\ c \in Seq(S) /\ Len(c) = n + m
      /\ \A i \in 1..n + m : c[i] = IF i <= n THEN r[i] ELSE b[i - n]
  <2>1. /\ r \o b \in Seq(S) /\ Len(r \o b) = Len(r) + Len(b)
        /\ \A i \in 1..Len(r) + Len(b) :
             (r \o b)[i] = IF i <= Len(r) THEN r[i] ELSE b[i - Len(r)]
    BY ConcatProperties
  <2> QED BY <2>1
<1>3. c # <<>> /\ Head(c) = c[1] /\ c[1] = r[1]
  BY <1>1, <1>2
<1>4. d \in Seq(S) /\ Len(d) = (n + m) - 1 /\ \A i \in 1..(n + m) - 1 : d[i] = c[i + 1]
  BY <1>1, <1>2, <1>3
<1>5. t \in Seq(S) /\ Len(t) = n - 1 /\ \A i \in 1..n - 1 : t[i] = r[i + 1]
  BY <1>1
<1>6. PICK v : v = t \o b
  OBVIOUS
<1>7. /\ v \in Seq(S) /\ Len(v) = (n - 1) + m
      /\ \A i \in 1..(n - 1) + m : v[i] = IF i <= n - 1 THEN t[i] ELSE b[i - (n - 1)]
  <2>1. /\ t \o b \in Seq(S) /\ Len(t \o b) = Len(t) + Len(b)
        /\ \A i \in 1..Len(t) + Len(b) :
             (t \o b)[i] = IF i <= Len(t) THEN t[i] ELSE b[i - Len(t)]
    BY <1>5, ConcatProperties
  <2> QED BY <1>5, <1>6, <2>1
<1>8. Len(d) = Len(v)
  BY <1>1, <1>4, <1>7
<1>9. ASSUME NEW i \in 1..Len(d) PROVE d[i] = v[i]
  <2>1. i \in 1..(n + m) - 1 /\ i \in 1..(n - 1) + m /\ i + 1 \in 1..n + m /\ i \in Nat
    BY <1>1, <1>4
  <2>2. d[i] = c[i + 1]
    BY <1>4, <2>1
  <2>3. CASE i <= n - 1
    <3>1. c[i + 1] = r[i + 1] /\ i \in 1..n - 1
      BY <1>1, <1>2, <2>1, <2>3
    <3>2. v[i] = t[i]
      BY <1>1, <1>7, <2>1, <2>3
    <3> QED BY <1>5, <2>2, <3>1, <3>2
  <2>4. CASE ~(i <= n - 1)
    <3>1. c[i + 1] = b[(i + 1) - n]
      BY <1>1, <1>2, <2>1, <2>4
    <3>2. v[i] = b[i - (n - 1)]
      BY <1>7, <2>1, <2>4
    <3>3. (i + 1) - n = i - (n - 1)
      BY <1>1, <2>1
    <3> QED BY <2>2, <3>1, <3>2, <3>3
  <2> QED BY <2>3, <2>4
<1>10. d = v
  BY <1>4, <1>7, <1>8, <1>9, SeqEqual
<1> QED BY <1>3, <1>6, <1>10

\* The heads and the tails of one and of two elements.
LEMMA HeadAndTail ==
  ASSUME NEW a, NEW z
  PROVE  /\ Head(<<a>>) = a /\ Tail(<<a>>) = <<>>
         /\ Head(<<a, z>>) = a /\ Tail(<<a, z>>) = <<z>>
<1>1. Head(<<a>>) = a /\ Head(<<a, z>>) = a
  OBVIOUS
<1>2. Tail(<<a>>) = <<>>
  OBVIOUS
<1>3. Tail(<<a, z>>) = <<z>>
  OBVIOUS
<1> QED BY <1>1, <1>2, <1>3

\* The first closer follows, and after it the others are left.
LEMMA CloseOne ==
  ASSUME NEW q \in Seq(Event), Sound(q), Closers(q) # <<>>, NEW e, e = Head(Closers(q)),
         NEW w, w = Append(q, e)
  PROVE  /\ e \in Event /\ Sound(w) /\ Closers(w) = Tail(Closers(q))
         /\ OpenTail(q).pending # <<>> => e.type = "tool/result"
         /\ OpenTail(q).pending = <<>> =>
              e.type # "tool/result" /\ OpenTail(w).pending = <<>>
<1> PICK T, S, L, p, r, b : /\ T = Trace(q) /\ S = OpenTail(q) /\ L = LastTurn(q)
                            /\ p = S.pending /\ r = SyntheticResults(S) /\ b = BoundaryClosers(S)
  OBVIOUS
<1>1. T \in Traces /\ S \in Tails /\ L \in 0..MaxTurns
  BY TraceFacts, TailFacts, LastTurnFacts
<1>2. StepsMatch(T, S, L) /\ PendingMatch(q, T, S)
  BY DEF Sound
<1>3. S.turn # 0 /\ Closers(q) = r \o b
  BY ClosersFacts
<1>4. /\ r \in Seq(Event) /\ DOMAIN r = DOMAIN p /\ Len(r) = Len(p)
      /\ \A i \in DOMAIN p :
           /\ r[i] = SyntheticResult(S.turn, p[i])
           /\ r[i].type = "tool/result" /\ r[i].turn = S.turn /\ r[i].step = S.step
           /\ r[i].call = p[i].call
           /\ r[i].code = IF p[i].started THEN OutcomeUnknown ELSE NotStarted
  BY <1>1, <1>2, <1>3, SyntheticFacts
<1>5. /\ b \in Seq(Event)
      /\ TurnEnd(S.turn, "interrupted") \in Event
      /\ S.step = 0 => b = <<TurnEnd(S.turn, "interrupted")>>
      /\ S.step # 0 => /\ b = <<StepEnd(S.turn, S.step), TurnEnd(S.turn, "interrupted")>>
                       /\ StepEnd(S.turn, S.step) \in Event
  BY <1>1, <1>3, BoundaryFacts
<1>6. p \in Seq(Pending) /\ Distinct(p) /\ Len(p) \in Nat /\ DOMAIN p = 1..Len(p)
  BY <1>1, <1>2 DEF Tails, PendingMatch
<1>7. T.ok /\ T.openTurn = S.turn /\ T.openStep = S.step
  BY <1>2 DEF StepsMatch
<1>8. ASSUME e \in Event, Follows(q, T, S, e), NEW S1, S1 = Scan(S, e)
      PROVE  /\ Sound(w) /\ w \in Seq(Event) /\ OpenTail(w) = S1
             /\ S1.turn = 0 => Closers(w) = <<>>
             /\ S1.turn # 0 => Closers(w) = SyntheticResults(S1) \o BoundaryClosers(S1)
  <2>1. Sound(w) /\ w \in Seq(Event)
    BY <1>8, SoundKept
  <2>2. OpenTail(w) = S1
    BY <1>8, TailFacts
  <2> QED BY <2>1, <2>2, ClosersFacts
<1>9. CASE p # <<>>
  <2>1. 1 \in DOMAIN p /\ r # <<>>
    BY <1>4, <1>6, <1>9
  <2>2. e = r[1] /\ Tail(Closers(q)) = Tail(r) \o b
    BY <1>3, <1>4, <1>5, <2>1, HeadOfConcat
  <2>3. /\ e.type = "tool/result" /\ e.turn = S.turn /\ e.step = S.step /\ e.call = p[1].call
        /\ e.code = IF p[1].started THEN OutcomeUnknown ELSE NotStarted
        /\ e \in Event
    BY <1>4, <2>1, <2>2
  <2>4. p[1].started <=> p[1].call \in T.calls
    BY <1>2, <2>1 DEF PendingMatch
  <2>5. Accepts(T, e)
    <3>1. e.call \in T.calls \/ e.code = NotStarted
      BY <2>3, <2>4
    <3> QED BY <1>7, <2>3, <3>1 DEF Accepts, NamesOpenStep
  <2>6. Follows(q, T, S, e)
    BY <2>1, <2>3, <2>5 DEF Follows, Registered
  <2>7. PICK S1 : S1 = Scan(S, e)
    OBVIOUS
  <2>8. S1.turn = S.turn /\ S1.step = S.step /\ S1.pending = Tail(p)
    <3>1. S1.turn = S.turn /\ S1.step = S.step /\ S1.pending = DropEntry(p, p[1].call)
      BY <1>1, <1>2, <2>3, <2>5, <2>7, CallStep
    <3> QED BY <1>6, <1>9, <3>1, DropFirst
  <2>9. /\ Sound(w) /\ Closers(w) = SyntheticResults(S1) \o BoundaryClosers(S1)
    BY <1>3, <1>8, <2>3, <2>6, <2>7, <2>8
  <2>10. BoundaryClosers(S1) = b
    BY <2>8 DEF BoundaryClosers
  <2>11. SyntheticResults(S1) = Tail(r)
    <3>1. PICK t, u, v : t = Tail(p) /\ u = SyntheticResults(S1) /\ v = Tail(r)
      OBVIOUS
    <3>2. /\ t \in Seq(Pending) /\ Len(t) = Len(p) - 1 /\ DOMAIN t = 1..Len(p) - 1
          /\ \A i \in 1..Len(p) - 1 : t[i] = p[i + 1] /\ i + 1 \in DOMAIN p
      BY <1>6, <1>9, <3>1
    <3>3. /\ v \in Seq(Event) /\ Len(v) = Len(p) - 1 /\ DOMAIN v = 1..Len(p) - 1
          /\ \A i \in 1..Len(p) - 1 : v[i] = r[i + 1]
      BY <1>4, <1>6, <2>1, <3>1
    <3>4. u = [i \in 1..Len(p) - 1 |-> SyntheticResult(S.turn, t[i])]
      BY <2>8, <3>1, <3>2 DEF SyntheticResults
    <3>5. \A i \in 1..Len(p) - 1 : v[i] = SyntheticResult(S.turn, t[i])
      BY <1>4, <3>2, <3>3
    <3>6. v = [i \in 1..Len(p) - 1 |-> v[i]]
      BY <3>3
    <3>7. u = v
      BY <3>4, <3>5, <3>6
    <3> QED BY <3>1, <3>7
  <2> QED BY <1>9, <2>2, <2>3, <2>9, <2>10, <2>11
<1>10. CASE p = <<>>
  <2>1. r = <<>> /\ Closers(q) = b
    <3>1. r = <<>>
      BY <1>4, <1>10
    <3> QED BY <1>3, <1>5, <3>1
  <2>2. SyntheticResults(S) = <<>>
    BY <2>1
  <2>3. CASE S.step # 0
    <3>1. e = StepEnd(S.turn, S.step) /\ Tail(Closers(q)) = <<TurnEnd(S.turn, "interrupted")>>
      <4>1. PICK a, z : a = StepEnd(S.turn, S.step) /\ z = TurnEnd(S.turn, "interrupted")
        OBVIOUS
      <4>2. Closers(q) = <<a, z>>
        BY <1>5, <2>1, <2>3, <4>1
      <4>3. e = a /\ Tail(Closers(q)) = <<z>>
        BY <4>2, HeadAndTail
      <4> QED BY <4>1, <4>3
    <3>2. e \in Event /\ e.type = "step/end" /\ e.turn = S.turn /\ e.step = S.step
      BY <1>5, <2>3, <3>1 DEF StepEnd
    <3>3. Accepts(T, e)
      BY <1>7, <3>2 DEF Accepts, NamesOpenStep
    <3>4. Follows(q, T, S, e)
      BY <3>2, <3>3 DEF Follows
    <3>5. PICK S1 : S1 = Scan(S, e)
      OBVIOUS
    <3>6. S1.turn = S.turn /\ S1.step = 0 /\ S1.pending = <<>>
      BY <1>1, <1>2, <3>2, <3>3, <3>5, BoundaryStep
    <3>7. /\ Sound(w) /\ Closers(w) = SyntheticResults(S1) \o BoundaryClosers(S1)
          /\ OpenTail(w).pending = <<>>
      BY <1>3, <1>8, <3>2, <3>4, <3>5, <3>6
    <3>8. SyntheticResults(S1) = <<>>
      BY <3>6 DEF SyntheticResults
    <3>9. PICK z : z = TurnEnd(S.turn, "interrupted")
      OBVIOUS
    <3>10. BoundaryClosers(S1) = <<z>>
      BY <1>5, <3>6, <3>9 DEF BoundaryClosers
    <3>11. <<>> \o <<z>> = <<z>>
      BY <1>5, <3>9
    <3> QED BY <1>10, <3>1, <3>2, <3>7, <3>8, <3>9, <3>10, <3>11
  <2>4. CASE S.step = 0
    <3>1. e = TurnEnd(S.turn, "interrupted") /\ Tail(Closers(q)) = <<>>
      BY <1>5, <2>1, <2>4, HeadAndTail
    <3>2. e \in Event /\ e.type = "turn/end" /\ e.turn = S.turn
      BY <1>5, <3>1 DEF TurnEnd
    <3>3. Accepts(T, e)
      BY <1>7, <2>4, <3>2 DEF Accepts
    <3>4. Follows(q, T, S, e)
      BY <3>2, <3>3 DEF Follows
    <3>5. PICK S1 : S1 = Scan(S, e)
      OBVIOUS
    <3>6. S1.turn = 0
      BY <1>1, <1>2, <3>2, <3>3, <3>5, BoundaryStep
    <3>7. Sound(w) /\ Closers(w) = <<>> /\ OpenTail(w).pending = <<>>
      <4>1. S1.pending = <<>>
        BY <1>1, <1>2, <3>2, <3>3, <3>5, BoundaryStep
      <4> QED BY <1>8, <3>2, <3>4, <3>5, <3>6, <4>1
    <3> QED BY <1>10, <3>1, <3>2, <3>7
  <2> QED BY <2>3, <2>4
<1> QED BY <1>9, <1>10

-----------------------------------------------------------------------------
(* Closing a log, one closer at a time *)

\* Every prefix of the log is sound: the log a crash leaves is.
AllSound(q) == \A n \in 0..Len(q) : Sound(SubSeq(q, 1, n))

\* A log with sound prefixes is sound, and so are its prefixes.
LEMMA AllSoundParts ==
  ASSUME NEW q \in Seq(Event), AllSound(q)
  PROVE  /\ Sound(q)
         /\ \A n \in 0..Len(q) : SubSeq(q, 1, n) \in Seq(Event) /\ AllSound(SubSeq(q, 1, n))
<1>1. Len(q) \in Nat /\ Len(q) \in 0..Len(q) /\ SubSeq(q, 1, Len(q)) = q
  OBVIOUS
<1>2. Sound(q)
  BY <1>1 DEF AllSound
<1>3. ASSUME NEW n \in 0..Len(q)
      PROVE  SubSeq(q, 1, n) \in Seq(Event) /\ AllSound(SubSeq(q, 1, n))
  <2> PICK w : w = SubSeq(q, 1, n)
    OBVIOUS
  <2>1. w \in Seq(Event) /\ Len(w) = n /\ n \in Nat /\ n <= Len(q)
    BY <1>1
  <2>2. ASSUME NEW m \in 0..n PROVE Sound(SubSeq(w, 1, m))
    <3>1. m \in 0..Len(q)
      BY <1>1, <2>1
    <3>2. SubSeq(w, 1, m) = SubSeq(q, 1, m)
      BY <1>1, <2>1, <3>1
    <3> QED BY <3>1, <3>2 DEF AllSound
  <2> QED BY <2>1, <2>2 DEF AllSound
<1> QED BY <1>2, <1>3

\* A sound log over sound prefixes has sound prefixes.
LEMMA AllSoundGrows ==
  ASSUME NEW q \in Seq(Event), NEW e \in Event, AllSound(q), Sound(Append(q, e))
  PROVE  AllSound(Append(q, e))
<1> PICK w : w = Append(q, e)
  OBVIOUS
<1>1. w \in Seq(Event) /\ Len(w) = Len(q) + 1 /\ Len(q) \in Nat
  BY AppendFacts
<1>2. SUFFICES ASSUME NEW n \in 0..Len(w) PROVE Sound(SubSeq(w, 1, n))
  BY DEF AllSound
<1>3. CASE n = Len(q) + 1
  <2>1. SubSeq(w, 1, n) = w
    BY <1>1, <1>3
  <2> QED BY <2>1
<1>4. CASE n # Len(q) + 1
  <2>1. n \in 0..Len(q)
    BY <1>1, <1>4
  <2>2. SubSeq(w, 1, n) = SubSeq(q, 1, n)
    BY <1>1, <2>1
  <2> QED BY <2>1, <2>2 DEF AllSound
<1> QED BY <1>3, <1>4

\* Log l has one result of every call the open step of q asked for.
CallsDone(q, l) ==
  \A i \in DOMAIN q : Open(q, i) =>
    \A k \in DOMAIN q[i].calls : \E j : ResultsIn(l, i, q[i].calls[k]) = {j}

\* What the repair of q achieves.
RepairDone(q) ==
  /\ Repaired(q) \in Seq(Event) /\ AllSound(Repaired(q)) /\ OpenTail(Repaired(q)).turn = 0
  /\ OpenTail(q).pending = <<>> =>
       \A i \in DOMAIN q, c \in Call : ResultsIn(Repaired(q), i, c) = ResultsIn(q, i, c)
  /\ CallsDone(q, Repaired(q))

\* A log that has no closers is done as it is.
LEMMA NothingToClose ==
  ASSUME NEW q \in Seq(Event), AllSound(q), Closers(q) = <<>>
  PROVE  RepairDone(q)
<1> PICK S : S = OpenTail(q)
  OBVIOUS
<1>1. Sound(q) /\ S \in Tails
  BY AllSoundParts, TailFacts
<1>2. S.turn = 0
  <2>1. SUFFICES ASSUME S.turn # 0 PROVE FALSE
    OBVIOUS
  <2> PICK r, b : r = SyntheticResults(S) /\ b = BoundaryClosers(S)
    OBVIOUS
  <2>2. Closers(q) = r \o b
    BY <1>1, <2>1, ClosersFacts
  <2>3. r \in Seq(Event) /\ b \in Seq(Event)
    BY <1>1, <2>1, SyntheticFacts, BoundaryFacts DEF Sound
  <2>4. Len(b) \in Nat \ {0}
    <3>1. S.step = 0 => b = <<TurnEnd(S.turn, "interrupted")>>
      BY <1>1, <2>1, BoundaryFacts
    <3>2. S.step # 0 => b = <<StepEnd(S.turn, S.step), TurnEnd(S.turn, "interrupted")>>
      BY <1>1, <2>1, BoundaryFacts
    <3>3. CASE S.step = 0
      <4>1. PICK z : z = TurnEnd(S.turn, "interrupted")
        OBVIOUS
      <4>2. b = <<z>>
        BY <3>1, <3>3, <4>1
      <4> QED BY <4>2
    <3>4. CASE S.step # 0
      <4>1. PICK a, z : a = StepEnd(S.turn, S.step) /\ z = TurnEnd(S.turn, "interrupted")
        OBVIOUS
      <4>2. b = <<a, z>>
        BY <3>2, <3>4, <4>1
      <4> QED BY <4>2
    <3> QED BY <3>3, <3>4
  <2>5. Len(r \o b) = Len(r) + Len(b) /\ Len(r) \in Nat
    BY <2>3, ConcatProperties
  <2>6. Len(r \o b) = 0
    <3>1. Len(Closers(q)) = 0
      OBVIOUS
    <3> QED BY <2>2, <3>1
  <2> QED BY <2>4, <2>5, <2>6
<1>3. Repaired(q) = q
  BY DEF Repaired
<1>4. ~Asked(q)
  BY <1>1, <1>2 DEF Sound, StepsMatch, PendingMatch
<1> QED BY <1>1, <1>2, <1>3, <1>4 DEF RepairDone, CallsDone, Asked

\* A log is done when it is done after the first of its closers.
LEMMA CloseAll ==
  ASSUME NEW q \in Seq(Event), AllSound(q), Closers(q) # <<>>,
         NEW w, w = Append(q, Head(Closers(q))), RepairDone(w)
  PROVE  RepairDone(q)
<1> PICK S, e, R : S = OpenTail(q) /\ e = Head(Closers(q)) /\ R = Repaired(q)
  OBVIOUS
<1>1. Sound(q) /\ Closers(q) \in Seq(Event)
  BY AllSoundParts, ClosersFacts
<1>2. /\ e \in Event /\ Closers(w) = Tail(Closers(q))
      /\ S.pending # <<>> => e.type = "tool/result"
      /\ S.pending = <<>> => e.type # "tool/result" /\ OpenTail(w).pending = <<>>
  BY <1>1, CloseOne
<1>3. R = Repaired(w)
  <2>1. q \o Closers(q) = Append(q, Head(Closers(q))) \o Tail(Closers(q))
    BY <1>1, OneByOne
  <2> QED BY <1>2, <2>1 DEF Repaired
<1>4. Extends(w, q, e)
  BY <1>2 DEF Extends
<1>5. /\ DOMAIN w = 1..Len(q) + 1 /\ DOMAIN q = 1..Len(q) /\ Len(q) \in Nat
      /\ \A i \in DOMAIN q : w[i] = q[i]
  BY <1>2, AppendFacts
<1>6. DOMAIN q \subseteq DOMAIN w
  BY <1>5
<1>7. R \in Seq(Event) /\ AllSound(R) /\ OpenTail(R).turn = 0
  BY <1>3 DEF RepairDone
<1>8. ASSUME S.pending = <<>>, NEW i \in DOMAIN q, NEW c \in Call
      PROVE  ResultsIn(R, i, c) = ResultsIn(q, i, c)
  <2>1. ResultsIn(R, i, c) = ResultsIn(w, i, c)
    BY <1>2, <1>3, <1>6, <1>8 DEF RepairDone
  <2>2. ResultsIn(w, i, c) = ResultsIn(q, i, c)
    <3>1. e.type # "tool/result"
      BY <1>2, <1>8
    <3>2. /\ e.type = "tool/result" /\ e.call = c =>
               ResultsIn(w, i, c) = ResultsIn(q, i, c) \cup {Len(q) + 1}
          /\ e.type # "tool/result" \/ e.call # c =>
               ResultsIn(w, i, c) = ResultsIn(q, i, c)
      BY <1>4, ResultFacts
    <3> QED BY <3>1, <3>2
  <2> QED BY <2>1, <2>2
<1>9. ASSUME NEW i \in DOMAIN q, Open(q, i), NEW k \in DOMAIN q[i].calls
      PROVE  \E j : ResultsIn(R, i, q[i].calls[k]) = {j}
  <2>1. CASE S.pending = <<>>
    <3> PICK c : c = q[i].calls[k]
      OBVIOUS
    <3>1. ~Registered(S.pending, c)
      BY <2>1 DEF Registered
    <3>2. \E j \in DOMAIN q : ResultsIn(q, i, c) = {j}
      BY <1>1, <1>9, <3>1 DEF Sound, ResultsMatch
    <3>3. c \in Call
      <4>1. q[i] \in Event /\ q[i].type = "assistant/message"
        BY <1>9 DEF Open
      <4>2. q[i].calls \in Seq(Call)
        BY <4>1, EventCases
      <4> QED BY <1>9, <4>2
    <3>4. ResultsIn(R, i, c) = ResultsIn(q, i, c)
      BY <1>8, <2>1, <3>3
    <3> QED BY <3>2, <3>4
  <2>2. CASE S.pending # <<>>
    <3>1. Open(w, i)
      BY <1>2, <1>4, <1>9, <2>2, OpenFacts
    <3>2. w[i] = q[i] /\ i \in DOMAIN w
      BY <1>5, <1>6, <1>9
    <3>3. CallsDone(w, R)
      BY <1>3 DEF RepairDone
    <3>4. \A m \in DOMAIN w[i].calls : \E j : ResultsIn(R, i, w[i].calls[m]) = {j}
      BY <3>1, <3>2, <3>3 DEF CallsDone
    <3> QED BY <1>9, <3>2, <3>4
  <2> QED BY <2>1, <2>2
<1>10. CallsDone(q, R)
  BY <1>9 DEF CallsDone
<1> QED BY <1>7, <1>8, <1>10 DEF RepairDone

\* The repair of a log with sound prefixes, by induction on its closers.
LEMMA RepairWorks ==
  ASSUME NEW q \in Seq(Event), AllSound(q)
  PROVE  RepairDone(q)
<1> DEFINE P == { n \in Nat : \A l \in Seq(Event) :
                    AllSound(l) /\ Len(Closers(l)) = n => RepairDone(l) }
<1>1. ASSUME NEW l \in Seq(Event), AllSound(l)
      PROVE  /\ Sound(l) /\ Closers(l) \in Seq(Event) /\ Len(Closers(l)) \in Nat
             /\ Len(Closers(l)) = 0 => Closers(l) = <<>>
  <2>1. Sound(l) /\ Closers(l) \in Seq(Event)
    BY <1>1, AllSoundParts, ClosersFacts
  <2> QED BY <2>1
<1>2. 0 \in P
  BY <1>1, NothingToClose
<1>3. ASSUME NEW n \in Nat, n \in P PROVE n + 1 \in P
  <2>1. SUFFICES ASSUME NEW l \in Seq(Event), AllSound(l), Len(Closers(l)) = n + 1
                 PROVE  RepairDone(l)
    OBVIOUS
  <2> PICK w : w = Append(l, Head(Closers(l)))
    OBVIOUS
  <2>2. Sound(l) /\ Closers(l) \in Seq(Event) /\ Closers(l) # <<>>
    BY <1>1, <2>1
  <2>3. /\ Head(Closers(l)) \in Event /\ w \in Seq(Event)
        /\ Len(Tail(Closers(l))) = Len(Closers(l)) - 1
    BY <2>2, OneByOne
  <2>4. Sound(w) /\ Closers(w) = Tail(Closers(l))
    BY <2>2, CloseOne
  <2>5. AllSound(w)
    BY <2>1, <2>3, <2>4, AllSoundGrows
  <2>6. Len(Closers(w)) = n
    BY <2>1, <2>3, <2>4
  <2>7. RepairDone(w)
    BY <1>3, <2>3, <2>5, <2>6
  <2> QED BY <2>1, <2>2, <2>7, CloseAll
<1>4. Len(Closers(q)) \in P
  <2>1. Len(Closers(q)) \in Nat
    BY <1>1
  <2> HIDE DEF P
  <2> QED BY <1>2, <1>3, <2>1, Inductive
<1> QED BY <1>4

-----------------------------------------------------------------------------
(* The driver *)

\* The driver's variables agree with what its log leaves open.
DriverMatch ==
  /\ OpenTail(events).turn = turn /\ OpenTail(events).step = step
  /\ LastTurn(events) = lastTurn
  /\ turn # 0 => Trace(events).nextStep = IF step = 0 THEN lastStep + 1 ELSE lastStep
  /\ step # 0 /\ ~answered => ~Asked(events)
  /\ \A k \in DOMAIN calls :
       Registered(OpenTail(events).pending, calls[k]) /\ calls[k] \notin underway
  /\ \A k, l \in DOMAIN calls : calls[k] = calls[l] => k = l
  /\ underway \subseteq Trace(events).calls

\* The inductive invariant of the driver, its crashes and the repair.
RepairInv == RepairTypeOK /\ DriverMatch /\ AllSound(events)

\* What the invariant says of the folds over the log.
LEMMA DriverFacts ==
  ASSUME RepairInv, NEW T, T = Trace(events), NEW S, S = OpenTail(events)
  PROVE  /\ events \in Seq(Event) /\ T \in Traces /\ S \in Tails
         /\ lastTurn \in 0..MaxTurns /\ lastTurn = LastTurn(events)
         /\ T.openTurn = turn /\ T.openStep = step /\ S.turn = turn /\ S.step = step
         /\ T.nextTurn = IF turn = 0 THEN lastTurn + 1 ELSE lastTurn
         /\ turn = 0 => step = 0
         /\ turn # 0 => turn = lastTurn
         /\ turn # 0 => T.nextStep = IF step = 0 THEN lastStep + 1 ELSE lastStep
         /\ step # 0 /\ ~answered => ~Asked(events)
         /\ Asked(events) => step # 0
         /\ ~Asked(events) => S.pending = <<>> /\ T.calls = {} /\ calls = <<>> /\ underway = {}
         /\ \A k \in DOMAIN calls : Registered(S.pending, calls[k]) /\ calls[k] \notin underway
         /\ \A k, l \in DOMAIN calls : calls[k] = calls[l] => k = l
         /\ underway \subseteq T.calls
         /\ \A c \in T.calls : Registered(S.pending, c)
         /\ \A c : Registered(S.pending, c) => Asked(events)
         /\ StepsMatch(T, S, lastTurn) /\ PendingMatch(events, T, S)
<1>1. events \in Seq(Event) /\ lastTurn \in 0..MaxTurns /\ calls \in Seq(Call)
  BY DEF RepairInv, RepairTypeOK
<1>2. T \in Traces /\ S \in Tails
  BY <1>1, TraceFacts, TailFacts
<1>3. Sound(events)
  BY <1>1, AllSoundParts DEF RepairInv
<1>4. /\ S.turn = turn /\ S.step = step /\ lastTurn = LastTurn(events)
      /\ turn # 0 => T.nextStep = IF step = 0 THEN lastStep + 1 ELSE lastStep
      /\ step # 0 /\ ~answered => ~Asked(events)
      /\ \A k \in DOMAIN calls : Registered(S.pending, calls[k]) /\ calls[k] \notin underway
      /\ \A k, l \in DOMAIN calls : calls[k] = calls[l] => k = l
      /\ underway \subseteq T.calls
  BY DEF RepairInv, DriverMatch
<1>5. StepsMatch(T, S, lastTurn) /\ PendingMatch(events, T, S)
  BY <1>3, <1>4 DEF Sound
<1>6. /\ T.openTurn = turn /\ T.openStep = step
      /\ T.nextTurn = IF turn = 0 THEN lastTurn + 1 ELSE lastTurn
      /\ turn = 0 => step = 0
      /\ turn # 0 => turn = lastTurn
  BY <1>4, <1>5 DEF StepsMatch
<1>7. (Asked(events) => step # 0) /\ \A c \in T.calls : Registered(S.pending, c)
  BY <1>4, <1>5 DEF PendingMatch
<1>8. ASSUME ~Asked(events)
      PROVE  S.pending = <<>> /\ T.calls = {} /\ calls = <<>> /\ underway = {}
  <2>1. S.pending = <<>> /\ T.calls = {}
    BY <1>2, <1>5, <1>8, NothingAsked
  <2>2. \A c : ~Registered(S.pending, c)
    BY <2>1 DEF Registered
  <2>3. DOMAIN calls = {}
    BY <1>4, <2>2
  <2>4. calls = <<>>
    BY <1>1, <2>3
  <2> QED BY <1>4, <2>1, <2>4
<1>9. \A c : Registered(S.pending, c) => Asked(events)
  <2>1. \A c : ~Registered(<<>>, c)
    BY DEF Registered
  <2> QED BY <1>8, <2>1
<1> QED BY <1>1, <1>2, <1>4, <1>5, <1>6, <1>7, <1>8, <1>9

\* One more event of the driver.
LEMMA LogFacts ==
  ASSUME NEW q \in Seq(Event), AllSound(q), NEW e \in Event,
         Follows(q, Trace(q), OpenTail(q), e), NEW w, w = Append(q, e)
  PROVE  /\ w \in Seq(Event) /\ AllSound(w)
         /\ Trace(w) = Record(Trace(q), e) /\ OpenTail(w) = Scan(OpenTail(q), e)
         /\ LastTurn(w) = TurnOf(LastTurn(q), e)
<1>1. Sound(q)
  BY AllSoundParts
<1>2. Sound(w)
  BY <1>1, SoundKept
<1>3. AllSound(w)
  BY <1>2, AllSoundGrows
<1>4. w \in Seq(Event)
  BY AppendFacts
<1>5. Trace(w) = Record(Trace(q), e)
  BY TraceFacts
<1>6. OpenTail(w) = Scan(OpenTail(q), e)
  BY TailFacts
<1>7. LastTurn(w) = TurnOf(LastTurn(q), e)
  BY LastTurnFacts
<1> QED BY <1>3, <1>4, <1>5, <1>6, <1>7

\* The empty log of a new session satisfies the invariant.
LEMMA RepairStart == RepairInit => RepairInv
<1> SUFFICES ASSUME RepairInit PROVE RepairInv
  OBVIOUS
<1>1. events = <<>> /\ calls = <<>> /\ underway = {} /\ turn = 0 /\ step = 0 /\ lastTurn = 0
  BY DEF RepairInit
<1>2. RepairTypeOK
  <2>1. <<>> \in Seq(Event) /\ <<>> \in Seq(Call)
    OBVIOUS
  <2>2. 0 \in 0..MaxTurns /\ 0 \in 0..MaxSteps /\ 0 \in 0..MaxCrashes
    BY BoundsAreNat
  <2> QED BY <2>1, <2>2 DEF RepairInit, RepairTypeOK
<1>3. AllSound(<<>>)
  <2>1. 0..Len(<<>>) = {0} /\ SubSeq(<<>>, 1, 0) = <<>>
    OBVIOUS
  <2> QED BY <2>1, SoundStart DEF AllSound
<1>4. DriverMatch
  <2>1. DOMAIN <<>> = {}
    OBVIOUS
  <2> QED BY <1>1, <2>1, TailFacts, LastTurnFacts DEF DriverMatch, NothingOpen
<1> QED BY <1>1, <1>2, <1>3, <1>4 DEF RepairInv

-----------------------------------------------------------------------------
(* Each step preserves the invariant, one lemma per action. *)

\* A turn starts, numbered behind the last one of the log.
LEMMA TurnStarts == RepairInv /\ StartTurn => RepairInv'
<1> SUFFICES ASSUME RepairInv, StartTurn PROVE RepairInv'
  OBVIOUS
<1> PICK T, S, e, w : /\ T = Trace(events) /\ S = OpenTail(events)
                      /\ e = TurnStart(lastTurn + 1) /\ w = Append(events, e)
  OBVIOUS
<1>1. /\ turn = 0 /\ lastTurn < MaxTurns
      /\ turn' = lastTurn + 1 /\ lastTurn' = turn' /\ lastStep' = 0 /\ events' = w
      /\ UNCHANGED <<step, calls, underway, answered, crashes>>
  BY DEF StartTurn, Logs
<1>2. /\ events \in Seq(Event) /\ T \in Traces /\ S \in Tails /\ lastTurn \in 0..MaxTurns
      /\ lastTurn = LastTurn(events) /\ T.openTurn = 0 /\ T.nextTurn = lastTurn + 1
      /\ step = 0 /\ calls = <<>> /\ underway = {} /\ ~Asked(events)
      /\ StepsMatch(T, S, lastTurn)
  BY <1>1, DriverFacts
<1>3. lastTurn + 1 \in Turns /\ lastTurn + 1 \in 0..MaxTurns
  BY <1>1, <1>2, BoundsAreNat DEF Turns
<1>4. e \in Event /\ e.type = "turn/start" /\ e.turn = lastTurn + 1
  BY <1>3 DEF TurnStart, Event
<1>5. Accepts(T, e) /\ Follows(events, T, S, e)
  BY <1>2, <1>4 DEF Accepts, Follows
<1>6. /\ w \in Seq(Event) /\ AllSound(w)
      /\ Trace(w) = Record(T, e) /\ OpenTail(w) = Scan(S, e)
      /\ LastTurn(w) = TurnOf(lastTurn, e)
  BY <1>2, <1>4, <1>5, LogFacts DEF RepairInv
<1>7. /\ OpenTail(w).turn = lastTurn + 1 /\ OpenTail(w).step = 0
      /\ LastTurn(w) = lastTurn + 1 /\ Trace(w).nextStep = 1
  BY <1>2, <1>4, <1>5, <1>6, BoundaryStep
<1>8. RepairTypeOK'
  BY <1>1, <1>2, <1>3, <1>6, BoundsAreNat DEF RepairInv, RepairTypeOK
<1>9. DriverMatch'
  <2>1. DOMAIN calls = {}
    BY <1>2
  <2> QED BY <1>1, <1>2, <1>7, <2>1 DEF DriverMatch
<1> QED BY <1>1, <1>6, <1>8, <1>9 DEF RepairInv

\* A step starts; no message of it is in the log.
LEMMA StepStarts == RepairInv /\ StartStep => RepairInv'
<1> SUFFICES ASSUME RepairInv, StartStep PROVE RepairInv'
  OBVIOUS
<1> PICK T, S, e, w : /\ T = Trace(events) /\ S = OpenTail(events)
                      /\ e = StepStart(turn, lastStep + 1) /\ w = Append(events, e)
  OBVIOUS
<1>1. /\ turn # 0 /\ step = 0 /\ lastStep < MaxSteps
      /\ step' = lastStep + 1 /\ lastStep' = step' /\ answered' = FALSE /\ events' = w
      /\ UNCHANGED <<turn, lastTurn, calls, underway, crashes>>
  BY DEF StartStep, Logs
<1>2. /\ events \in Seq(Event) /\ T \in Traces /\ S \in Tails /\ lastTurn \in 0..MaxTurns
      /\ lastTurn = LastTurn(events) /\ T.openTurn = turn /\ T.openStep = 0
      /\ T.nextStep = lastStep + 1 /\ turn = lastTurn /\ S.turn = turn
      /\ calls = <<>> /\ underway = {} /\ ~Asked(events)
      /\ StepsMatch(T, S, lastTurn)
  BY <1>1, DriverFacts
<1>3. lastStep \in 0..MaxSteps
  BY DEF RepairInv, RepairTypeOK
<1>4. turn \in Turns /\ lastStep + 1 \in Steps /\ lastStep + 1 \in 0..MaxSteps
  BY <1>1, <1>2, <1>3, BoundsAreNat DEF Turns, Steps
<1>5. e \in Event /\ e.type = "step/start" /\ e.turn = turn /\ e.step = lastStep + 1
  BY <1>4 DEF StepStart, Event
<1>6. Accepts(T, e) /\ Follows(events, T, S, e)
  BY <1>2, <1>5 DEF Accepts, Follows
<1>7. /\ w \in Seq(Event) /\ AllSound(w)
      /\ Trace(w) = Record(T, e) /\ OpenTail(w) = Scan(S, e)
      /\ LastTurn(w) = TurnOf(lastTurn, e)
  BY <1>2, <1>5, <1>6, LogFacts DEF RepairInv
<1>8. /\ OpenTail(w).turn = turn /\ OpenTail(w).step = lastStep + 1
      /\ LastTurn(w) = lastTurn /\ Trace(w).nextStep = lastStep + 1
  BY <1>2, <1>5, <1>6, <1>7, BoundaryStep
<1>9. ~Asked(w)
  <2>1. Extends(w, events, e)
    BY <1>2, <1>5 DEF Extends
  <2> QED BY <1>2, <1>5, <2>1, AskedFacts
<1>10. RepairTypeOK'
  BY <1>1, <1>2, <1>4, <1>7 DEF RepairInv, RepairTypeOK
<1>11. DriverMatch'
  <2>1. DOMAIN calls = {} /\ lastStep + 1 # 0
    BY <1>2, <1>3, BoundsAreNat
  <2> QED BY <1>1, <1>2, <1>8, <1>9, <2>1 DEF DriverMatch
<1> QED BY <1>1, <1>7, <1>10, <1>11 DEF RepairInv

\* The model answers: its calls are pending and none has started.
LEMMA ModelAnswers == RepairInv /\ Answer => RepairInv'
<1> SUFFICES ASSUME RepairInv, Answer PROVE RepairInv'
  OBVIOUS
<1>1. PICK asked \in UNION {[1..n -> Call] : n \in 0..Cardinality(Call)} :
        /\ \A i, j \in DOMAIN asked : i # j => asked[i] # asked[j]
        /\ calls' = asked
        /\ Logs(AssistantMessage(turn, step, asked))
  BY DEF Answer
<1> PICK T, S, e, w : /\ T = Trace(events) /\ S = OpenTail(events)
                      /\ e = AssistantMessage(turn, step, asked) /\ w = Append(events, e)
  OBVIOUS
<1>2. /\ step # 0 /\ ~answered /\ answered' = TRUE /\ events' = w
      /\ UNCHANGED <<turn, step, lastTurn, lastStep, underway, crashes>>
  BY <1>1 DEF Answer, Logs
<1>3. asked \in Seq(Call)
  <2>1. PICK n \in 0..Cardinality(Call) : asked \in [1..n -> Call]
    OBVIOUS
  <2>2. n \in Nat
    BY <2>1
  <2> QED BY <2>1, <2>2
<1>4. /\ events \in Seq(Event) /\ T \in Traces /\ S \in Tails /\ lastTurn \in 0..MaxTurns
      /\ lastTurn = LastTurn(events) /\ T.openTurn = turn /\ T.openStep = step
      /\ S.turn = turn /\ S.step = step /\ turn # 0 /\ turn = lastTurn
      /\ T.nextStep = lastStep
      /\ S.pending = <<>> /\ underway = {} /\ ~Asked(events)
      /\ StepsMatch(T, S, lastTurn)
  BY <1>2, DriverFacts
<1>5. step \in 0..MaxSteps
  BY DEF RepairInv, RepairTypeOK
<1>6. turn \in Turns /\ step \in Steps
  BY <1>2, <1>4, <1>5, BoundsAreNat DEF Turns, Steps
<1>7. /\ e \in Event /\ e.type = "assistant/message" /\ e.turn = turn /\ e.step = step
      /\ e.calls = asked
  BY <1>3, <1>6 DEF AssistantMessage, Event
<1>8. Accepts(T, e) /\ Follows(events, T, S, e)
  BY <1>1, <1>4, <1>7 DEF Accepts, NamesOpenStep, Follows
<1>9. /\ w \in Seq(Event) /\ AllSound(w)
      /\ Trace(w) = Record(T, e) /\ OpenTail(w) = Scan(S, e)
      /\ LastTurn(w) = TurnOf(lastTurn, e)
  BY <1>4, <1>7, <1>8, LogFacts DEF RepairInv
<1>10. /\ OpenTail(w).turn = turn /\ OpenTail(w).step = step
       /\ LastTurn(w) = lastTurn /\ Trace(w).nextStep = T.nextStep
       /\ OpenTail(w).pending = Register(<<>>, e)
  BY <1>4, <1>7, <1>8, <1>9, CallStep
<1>11. \A k \in DOMAIN asked : Registered(OpenTail(w).pending, asked[k])
  <2>1. e.calls \in Seq(Call) /\ e.step \in 0..MaxSteps
    BY <1>3, <1>5, <1>7
  <2>2. OpenTail(w).pending = Asks(e)
    BY <1>1, <1>7, <1>10, <2>1, RegisterFacts
  <2>3. DOMAIN Asks(e) = DOMAIN asked /\ \A k \in DOMAIN asked : Asks(e)[k].call = asked[k]
    BY <1>7 DEF Asks
  <2> QED BY <2>2, <2>3 DEF Registered
<1>12. RepairTypeOK'
  BY <1>1, <1>2, <1>3, <1>4, <1>9 DEF RepairInv, RepairTypeOK
<1>13. DriverMatch'
  BY <1>1, <1>2, <1>4, <1>10, <1>11 DEF DriverMatch
<1> QED BY <1>2, <1>9, <1>12, <1>13 DEF RepairInv

\* The next call starts; the others stay pending.
LEMMA CallBegins == RepairInv /\ BeginCall => RepairInv'
<1> SUFFICES ASSUME RepairInv, BeginCall PROVE RepairInv'
  OBVIOUS
<1> PICK T, S, c, e, w : /\ T = Trace(events) /\ S = OpenTail(events) /\ c = Head(calls)
                         /\ e = ToolCall(turn, step, c) /\ w = Append(events, e)
  OBVIOUS
<1>1. /\ calls # <<>> /\ calls' = Tail(calls) /\ underway' = underway \cup {c} /\ events' = w
      /\ UNCHANGED <<turn, step, lastTurn, lastStep, answered, crashes>>
  BY DEF BeginCall, Logs
<1>2. calls \in Seq(Call) /\ step \in 0..MaxSteps /\ underway \subseteq Call
  BY DEF RepairInv, RepairTypeOK
<1>3. /\ c \in Call /\ 1 \in DOMAIN calls /\ c = calls[1] /\ Tail(calls) \in Seq(Call)
      /\ \A k \in DOMAIN Tail(calls) :
           k + 1 \in DOMAIN calls /\ k + 1 # 1 /\ Tail(calls)[k] = calls[k + 1] /\ k \in Nat
  BY <1>1, <1>2
<1>4. /\ events \in Seq(Event) /\ T \in Traces /\ S \in Tails /\ lastTurn \in 0..MaxTurns
      /\ lastTurn = LastTurn(events) /\ T.openTurn = turn /\ T.openStep = step
      /\ S.turn = turn /\ S.step = step
      /\ turn = 0 => step = 0
      /\ turn # 0 => turn = lastTurn
      /\ turn # 0 => T.nextStep = IF step = 0 THEN lastStep + 1 ELSE lastStep
      /\ Asked(events) => step # 0
      /\ \A k \in DOMAIN calls : Registered(S.pending, calls[k]) /\ calls[k] \notin underway
      /\ \A k, l \in DOMAIN calls : calls[k] = calls[l] => k = l
      /\ underway \subseteq T.calls
      /\ \A d : Registered(S.pending, d) => Asked(events)
      /\ StepsMatch(T, S, lastTurn)
      /\ step # 0 /\ ~answered => ~Asked(events)
  BY DriverFacts
<1>5. Registered(S.pending, c) /\ Asked(events) /\ step # 0 /\ turn # 0 /\ answered
  BY <1>3, <1>4
<1>6. turn \in Turns /\ step \in Steps
  BY <1>2, <1>4, <1>5, BoundsAreNat DEF Turns, Steps
<1>7. e \in Event /\ e.type = "tool/call" /\ e.turn = turn /\ e.step = step /\ e.call = c
  BY <1>3, <1>6 DEF ToolCall, Event
<1>8. Accepts(T, e) /\ Follows(events, T, S, e)
  BY <1>4, <1>5, <1>7 DEF Accepts, NamesOpenStep, Follows
<1>9. /\ w \in Seq(Event) /\ AllSound(w)
      /\ Trace(w) = Record(T, e) /\ OpenTail(w) = Scan(S, e)
      /\ LastTurn(w) = TurnOf(lastTurn, e)
  BY <1>4, <1>7, <1>8, LogFacts DEF RepairInv
<1>10. /\ OpenTail(w).turn = turn /\ OpenTail(w).step = step
       /\ LastTurn(w) = lastTurn /\ Trace(w).nextStep = T.nextStep
       /\ Trace(w).calls = T.calls \cup {c}
       /\ OpenTail(w).pending = MarkStarted(S.pending, c)
  BY <1>4, <1>7, <1>8, <1>9, CallStep
<1>11. \A d : Registered(OpenTail(w).pending, d) <=> Registered(S.pending, d)
  <2> PICK p, p1 : p = S.pending /\ p1 = MarkStarted(p, c)
    OBVIOUS
  <2>1. p \in Pendings
    BY <1>4 DEF Tails, Pendings
  <2>2. DOMAIN p1 = DOMAIN p /\ \A k \in DOMAIN p : p1[k].call = p[k].call
    BY <1>3, <2>1, MarkFacts
  <2> QED BY <1>10, <2>2 DEF Registered
<1>12. RepairTypeOK'
  BY <1>1, <1>2, <1>3, <1>9 DEF RepairInv, RepairTypeOK
<1>13. DriverMatch'
  <2>1. \A k \in DOMAIN calls' :
          Registered(OpenTail(w).pending, calls'[k]) /\ calls'[k] \notin underway'
    BY <1>1, <1>3, <1>4, <1>11
  <2>2. \A k, l \in DOMAIN calls' : calls'[k] = calls'[l] => k = l
    BY <1>1, <1>3, <1>4
  <2> QED BY <1>1, <1>4, <1>5, <1>10, <2>1, <2>2 DEF DriverMatch
<1> QED BY <1>1, <1>9, <1>12, <1>13 DEF RepairInv

\* A result is recorded for a call under way; the calls not yet started stay.
LEMMA CallFinishes ==
  ASSUME RepairInv, NEW c \in Call, FinishCall(c)
  PROVE  RepairInv'
<1> PICK T, S, e, w : /\ T = Trace(events) /\ S = OpenTail(events)
                      /\ e = ToolResult(turn, step, c, "none") /\ w = Append(events, e)
  OBVIOUS
<1>1. /\ c \in underway /\ underway' = underway \ {c} /\ events' = w
      /\ UNCHANGED <<turn, step, lastTurn, lastStep, calls, answered, crashes>>
  BY DEF FinishCall, Logs
<1>2. calls \in Seq(Call) /\ step \in 0..MaxSteps /\ underway \subseteq Call
  BY DEF RepairInv, RepairTypeOK
<1>3. /\ events \in Seq(Event) /\ T \in Traces /\ S \in Tails /\ lastTurn \in 0..MaxTurns
      /\ lastTurn = LastTurn(events) /\ T.openTurn = turn /\ T.openStep = step
      /\ S.turn = turn /\ S.step = step
      /\ turn = 0 => step = 0
      /\ turn # 0 => turn = lastTurn
      /\ turn # 0 => T.nextStep = IF step = 0 THEN lastStep + 1 ELSE lastStep
      /\ Asked(events) => step # 0
      /\ step # 0 /\ ~answered => ~Asked(events)
      /\ \A k \in DOMAIN calls : Registered(S.pending, calls[k]) /\ calls[k] \notin underway
      /\ \A k, l \in DOMAIN calls : calls[k] = calls[l] => k = l
      /\ underway \subseteq T.calls
      /\ \A d \in T.calls : Registered(S.pending, d)
      /\ \A d : Registered(S.pending, d) => Asked(events)
      /\ StepsMatch(T, S, lastTurn) /\ PendingMatch(events, T, S)
  BY DriverFacts
<1>4. /\ c \in T.calls /\ Registered(S.pending, c) /\ Asked(events)
      /\ step # 0 /\ turn # 0 /\ answered
  BY <1>1, <1>3
<1>5. turn \in Turns /\ step \in Steps
  BY <1>2, <1>3, <1>4, BoundsAreNat DEF Turns, Steps
<1>6. /\ e \in Event /\ e.type = "tool/result" /\ e.turn = turn /\ e.step = step
      /\ e.call = c
  BY <1>5 DEF ToolResult, Event
<1>7. Accepts(T, e) /\ Follows(events, T, S, e)
  BY <1>3, <1>4, <1>6 DEF Accepts, NamesOpenStep, Follows
<1>8. /\ w \in Seq(Event) /\ AllSound(w)
      /\ Trace(w) = Record(T, e) /\ OpenTail(w) = Scan(S, e)
      /\ LastTurn(w) = TurnOf(lastTurn, e)
  BY <1>3, <1>6, <1>7, LogFacts DEF RepairInv
<1>9. /\ OpenTail(w).turn = turn /\ OpenTail(w).step = step
      /\ LastTurn(w) = lastTurn /\ Trace(w).nextStep = T.nextStep
      /\ Trace(w).calls = T.calls \ {c}
      /\ OpenTail(w).pending = DropEntry(S.pending, c)
  BY <1>3, <1>6, <1>7, <1>8, CallStep
<1>10. \A d : Registered(S.pending, d) /\ d # c => Registered(OpenTail(w).pending, d)
  <2> PICK p, p1 : p = S.pending /\ p1 = DropEntry(p, c)
    OBVIOUS
  <2>1. Drops(p1, p, c) /\ Distinct(p)
    BY <1>3 DEF Drops, Pendings, Tails, PendingMatch
  <2>2. \A b \in DOMAIN p : p[b].call # c => \E a \in DOMAIN p1 : p1[a] = p[b]
    BY <2>1, DropFacts
  <2> QED BY <1>9, <2>2 DEF Registered
<1>11. RepairTypeOK'
  BY <1>1, <1>2, <1>8 DEF RepairInv, RepairTypeOK
<1>12. DriverMatch'
  <2>1. \A k \in DOMAIN calls :
          Registered(OpenTail(w).pending, calls[k]) /\ calls[k] \notin underway'
    BY <1>1, <1>3, <1>10
  <2> QED BY <1>1, <1>3, <1>4, <1>9, <2>1 DEF DriverMatch
<1> QED BY <1>1, <1>8, <1>11, <1>12 DEF RepairInv

\* A step ends, with whatever calls it has left.
LEMMA StepEnds == RepairInv /\ EndStep => RepairInv'
<1> SUFFICES ASSUME RepairInv, EndStep PROVE RepairInv'
  OBVIOUS
<1> PICK T, S, e, w : /\ T = Trace(events) /\ S = OpenTail(events)
                      /\ e = StepEnd(turn, step) /\ w = Append(events, e)
  OBVIOUS
<1>1. /\ step # 0 /\ step' = 0 /\ calls' = <<>> /\ underway' = {} /\ events' = w
      /\ UNCHANGED <<turn, lastTurn, lastStep, answered, crashes>>
  BY DEF EndStep, Logs
<1>2. step \in 0..MaxSteps
  BY DEF RepairInv, RepairTypeOK
<1>3. /\ events \in Seq(Event) /\ T \in Traces /\ S \in Tails /\ lastTurn \in 0..MaxTurns
      /\ lastTurn = LastTurn(events) /\ T.openTurn = turn /\ T.openStep = step
      /\ S.turn = turn /\ S.step = step /\ turn # 0 /\ turn = lastTurn
      /\ T.nextStep = lastStep
      /\ StepsMatch(T, S, lastTurn)
  BY <1>1, DriverFacts
<1>4. turn \in Turns /\ step \in Steps /\ 0 \in 0..MaxSteps
  BY <1>1, <1>2, <1>3, BoundsAreNat DEF Turns, Steps
<1>5. e \in Event /\ e.type = "step/end" /\ e.turn = turn /\ e.step = step
  BY <1>4 DEF StepEnd, Event
<1>6. Accepts(T, e) /\ Follows(events, T, S, e)
  BY <1>3, <1>5 DEF Accepts, NamesOpenStep, Follows
<1>7. /\ w \in Seq(Event) /\ AllSound(w)
      /\ Trace(w) = Record(T, e) /\ OpenTail(w) = Scan(S, e)
      /\ LastTurn(w) = TurnOf(lastTurn, e)
  BY <1>3, <1>5, <1>6, LogFacts DEF RepairInv
<1>8. /\ OpenTail(w).turn = turn /\ OpenTail(w).step = 0
      /\ LastTurn(w) = lastTurn /\ Trace(w).nextStep = lastStep + 1
  BY <1>3, <1>5, <1>6, <1>7, BoundaryStep
<1>9. DOMAIN calls' = {} /\ calls' \in Seq(Call)
  BY <1>1
<1>10. RepairTypeOK'
  BY <1>1, <1>4, <1>7, <1>9 DEF RepairInv, RepairTypeOK
<1>11. DriverMatch'
  BY <1>1, <1>8, <1>9 DEF DriverMatch
<1> QED BY <1>1, <1>7, <1>10, <1>11 DEF RepairInv

\* A turn ends between its steps.
LEMMA TurnEnds == RepairInv /\ EndTurn => RepairInv'
<1> SUFFICES ASSUME RepairInv, EndTurn PROVE RepairInv'
  OBVIOUS
<1> PICK T, S, e, w : /\ T = Trace(events) /\ S = OpenTail(events)
                      /\ e = TurnEnd(turn, "completed") /\ w = Append(events, e)
  OBVIOUS
<1>1. /\ turn # 0 /\ step = 0 /\ turn' = 0 /\ events' = w
      /\ UNCHANGED <<step, lastTurn, lastStep, calls, underway, answered, crashes>>
  BY DEF EndTurn, Logs
<1>2. /\ events \in Seq(Event) /\ T \in Traces /\ S \in Tails /\ lastTurn \in 0..MaxTurns
      /\ lastTurn = LastTurn(events) /\ T.openTurn = turn /\ T.openStep = 0
      /\ turn = lastTurn /\ calls = <<>> /\ underway = {} /\ ~Asked(events)
      /\ StepsMatch(T, S, lastTurn)
  BY <1>1, DriverFacts
<1>3. turn \in Turns /\ 0 \in 0..MaxTurns
  BY <1>1, <1>2, BoundsAreNat DEF Turns
<1>4. e \in Event /\ e.type = "turn/end" /\ e.turn = turn
  BY <1>3 DEF TurnEnd, Event
<1>5. Accepts(T, e) /\ Follows(events, T, S, e)
  BY <1>2, <1>4 DEF Accepts, Follows
<1>6. /\ w \in Seq(Event) /\ AllSound(w)
      /\ Trace(w) = Record(T, e) /\ OpenTail(w) = Scan(S, e)
      /\ LastTurn(w) = TurnOf(lastTurn, e)
  BY <1>2, <1>4, <1>5, LogFacts DEF RepairInv
<1>7. /\ OpenTail(w).turn = 0 /\ OpenTail(w).step = 0 /\ LastTurn(w) = lastTurn
  BY <1>2, <1>4, <1>5, <1>6, BoundaryStep
<1>8. RepairTypeOK'
  BY <1>1, <1>3, <1>6 DEF RepairInv, RepairTypeOK
<1>9. DriverMatch'
  <2>1. DOMAIN calls = {}
    BY <1>2
  <2> QED BY <1>1, <1>2, <1>7, <2>1 DEF DriverMatch
<1> QED BY <1>1, <1>6, <1>8, <1>9 DEF RepairInv

\* A crash keeps a prefix, which is sound; its repair leaves nothing open.
LEMMA CrashRepaired == RepairInv /\ CrashAndResume => RepairInv'
<1> SUFFICES ASSUME RepairInv, CrashAndResume PROVE RepairInv'
  OBVIOUS
<1>1. PICK n \in 0..Len(events) : events' = Repaired(SubSeq(events, 1, n))
  BY DEF CrashAndResume
<1> PICK q, w : q = SubSeq(events, 1, n) /\ w = Repaired(q)
  OBVIOUS
<1>2. /\ crashes < MaxCrashes /\ crashes' = crashes + 1 /\ lastTurn' = LastTurn(w)
      /\ turn' = 0 /\ step' = 0 /\ calls' = <<>> /\ underway' = {} /\ events' = w
      /\ UNCHANGED <<lastStep, answered>>
  BY <1>1 DEF CrashAndResume
<1>3. events \in Seq(Event) /\ AllSound(events) /\ crashes \in 0..MaxCrashes
  BY DEF RepairInv, RepairTypeOK
<1>4. q \in Seq(Event) /\ AllSound(q)
  BY <1>3, AllSoundParts
<1>5. w \in Seq(Event) /\ AllSound(w) /\ OpenTail(w).turn = 0
  BY <1>4, RepairWorks DEF RepairDone
<1>6. OpenTail(w).step = 0
  <2>1. Sound(w)
    BY <1>5, AllSoundParts
  <2> QED BY <1>5, <2>1 DEF Sound, StepsMatch
<1>7. LastTurn(w) \in 0..MaxTurns
  BY <1>5, LastTurnFacts
<1>8. crashes' \in 0..MaxCrashes /\ 0 \in 0..MaxTurns /\ 0 \in 0..MaxSteps
  BY <1>2, <1>3, BoundsAreNat
<1>9. DOMAIN calls' = {} /\ calls' \in Seq(Call)
  BY <1>2
<1>10. RepairTypeOK'
  BY <1>2, <1>5, <1>7, <1>8, <1>9 DEF RepairInv, RepairTypeOK
<1>11. DriverMatch'
  BY <1>2, <1>5, <1>6, <1>9 DEF DriverMatch
<1> QED BY <1>2, <1>5, <1>10, <1>11 DEF RepairInv

-----------------------------------------------------------------------------
(* The invariant, and the properties of the repair *)

\* The invariant of the driver, its crashes and the repair is inductive.
THEOREM RepairInvariance == RepairSpec => []RepairInv
<1>1. RepairInit => RepairInv
  BY RepairStart
<1>2. RepairInv /\ [RepairNext]_repairVars => RepairInv'
  <2> SUFFICES ASSUME RepairInv, [RepairNext]_repairVars PROVE RepairInv'
    OBVIOUS
  <2>1. CASE StartTurn
    BY <2>1, TurnStarts
  <2>2. CASE StartStep
    BY <2>2, StepStarts
  <2>3. CASE Answer
    BY <2>3, ModelAnswers
  <2>4. CASE BeginCall
    BY <2>4, CallBegins
  <2>5. CASE EndStep
    BY <2>5, StepEnds
  <2>6. CASE EndTurn
    BY <2>6, TurnEnds
  <2>7. ASSUME NEW c \in Call, FinishCall(c) PROVE RepairInv'
    BY <2>7, CallFinishes
  <2>8. CASE CrashAndResume
    BY <2>8, CrashRepaired
  <2>9. CASE UNCHANGED repairVars
    BY <2>9 DEF repairVars, driverVars, RepairInv, RepairTypeOK, DriverMatch
  <2> QED BY <2>1, <2>2, <2>3, <2>4, <2>5, <2>6, <2>7, <2>8, <2>9 DEF RepairNext
<1> QED BY <1>1, <1>2, PTL DEF RepairSpec

\* RepairCompletes: whatever the log and whichever prefix of it a crash leaves,
\* interruptedTurnClosers completes it to a log that the companion accepts, with
\* nothing open, and the resumed driver numbers its next turn as expected there.
THEOREM RepairAlways == RepairSpec => []RepairCompletes
<1>1. RepairInv => RepairCompletes
  <2> SUFFICES ASSUME RepairInv PROVE RepairCompletes
    OBVIOUS
  <2> PICK R, T, S : R = Repaired(events) /\ T = Trace(R) /\ S = OpenTail(R)
    OBVIOUS
  <2>1. events \in Seq(Event) /\ AllSound(events) /\ RepairTypeOK
    BY DEF RepairInv, RepairTypeOK
  <2>2. R \in Seq(Event) /\ AllSound(R) /\ S.turn = 0
    BY <2>1, RepairWorks DEF RepairDone
  <2>3. StepsMatch(T, S, LastTurn(R))
    BY <2>2, AllSoundParts DEF Sound
  <2>4. T.ok /\ T.openTurn = 0 /\ T.openStep = 0 /\ T.nextTurn = LastTurn(R) + 1
    BY <2>2, <2>3 DEF StepsMatch
  <2> QED BY <2>1, <2>4 DEF RepairCompletes, Balanced
<1> QED BY <1>1, RepairInvariance, PTL

\* Each call of the open step has one result in the repaired log.
LEMMA OneResult == RepairInv => EveryCallAnswered
<1> SUFFICES ASSUME RepairInv, NEW i \in DOMAIN events, Open(events, i),
                    NEW k \in DOMAIN events[i].calls
             PROVE  Cardinality(ResultsIn(Repaired(events), i, events[i].calls[k])) = 1
  BY DEF EveryCallAnswered, Open
<1>1. events \in Seq(Event) /\ AllSound(events)
  BY DEF RepairInv, RepairTypeOK
<1>2. CallsDone(events, Repaired(events))
  BY <1>1, RepairWorks DEF RepairDone
<1>3. PICK j : ResultsIn(Repaired(events), i, events[i].calls[k]) = {j}
  BY <1>2 DEF CallsDone
<1>4. Cardinality({j}) = 1
  BY FS_Singleton
<1> QED BY <1>3, <1>4

\* The code of a synthetic result is the mark of its pending call.
LEMMA HonestCodes == RepairInv => CodesAreHonest
<1> SUFFICES ASSUME RepairInv, NEW i \in DOMAIN Closers(events),
                    NEW e, e = Closers(events)[i], e.type = "tool/result"
             PROVE  e.code = OutcomeUnknown <=> CalledIn(events, e.turn, e.step, e.call)
  BY DEF CodesAreHonest, CalledIn
<1> PICK T, S : T = Trace(events) /\ S = OpenTail(events)
  OBVIOUS
<1> PICK r, b : r = SyntheticResults(S) /\ b = BoundaryClosers(S)
  OBVIOUS
<1>1. events \in Seq(Event) /\ S \in Tails /\ Sound(events) /\ PendingMatch(events, T, S)
  BY DriverFacts, AllSoundParts DEF RepairInv
<1>2. S.turn # 0
  <2>1. S.turn = 0 => Closers(events) = <<>>
    BY <1>1, ClosersFacts
  <2>2. Closers(events) # <<>>
    OBVIOUS
  <2> QED BY <2>1, <2>2
<1>3. Closers(events) = r \o b
  BY <1>1, <1>2, ClosersFacts
<1>4. /\ r \in Seq(Event) /\ DOMAIN r = DOMAIN S.pending
      /\ \A k \in DOMAIN S.pending :
           /\ r[k].type = "tool/result" /\ r[k].turn = S.turn /\ r[k].step = S.step
           /\ r[k].call = S.pending[k].call
           /\ r[k].code = IF S.pending[k].started THEN OutcomeUnknown ELSE NotStarted
  BY <1>1, <1>2, SyntheticFacts
<1>5. b \in Seq(Event) /\ \A k \in DOMAIN b : b[k].type # "tool/result"
  <2> PICK y, z : y = StepEnd(S.turn, S.step) /\ z = TurnEnd(S.turn, "interrupted")
    OBVIOUS
  <2>1. /\ b \in Seq(Event)
        /\ S.step = 0 => b = <<z>>
        /\ S.step # 0 => b = <<y, z>>
    BY <1>1, <1>2, BoundaryFacts
  <2>2. y.type # "tool/result" /\ z.type # "tool/result"
    BY DEF StepEnd, TurnEnd
  <2> QED BY <2>1, <2>2
<1>6. i \in DOMAIN r /\ e = r[i]
  <2>1. Len(r) \in Nat /\ Len(b) \in Nat /\ DOMAIN b = 1..Len(b) /\ DOMAIN r = 1..Len(r)
    BY <1>4, <1>5
  <2>2. /\ Len(r \o b) = Len(r) + Len(b) /\ r \o b \in Seq(Event)
        /\ \A k \in 1..Len(r) + Len(b) :
             (r \o b)[k] = IF k <= Len(r) THEN r[k] ELSE b[k - Len(r)]
    BY <1>4, <1>5, ConcatProperties
  <2>3. i \in 1..Len(r) + Len(b)
    BY <1>3, <2>1, <2>2
  <2>4. CASE i <= Len(r)
    BY <1>3, <2>1, <2>2, <2>3, <2>4
  <2>5. CASE i > Len(r)
    <3>1. i - Len(r) \in DOMAIN b
      BY <2>1, <2>3, <2>5
    <3>2. e = b[i - Len(r)]
      BY <1>3, <2>1, <2>2, <2>3, <2>5
    <3> QED BY <1>5, <3>1, <3>2
  <2> QED BY <2>1, <2>3, <2>4, <2>5
<1>7. e.code = OutcomeUnknown <=> S.pending[i].started
  BY <1>4, <1>6 DEF OutcomeUnknown, NotStarted
<1>8. S.pending[i].started <=> CalledIn(events, S.turn, S.step, S.pending[i].call)
  BY <1>1, <1>4, <1>6 DEF PendingMatch
<1> QED BY <1>4, <1>6, <1>7, <1>8

\* CallsAreAnswered: after the repair every call of the interrupted step has
\* exactly one result, and a synthetic code says truly whether the call started.
THEOREM AnswersAlways == RepairSpec => []CallsAreAnswered
<1>1. RepairInv => CallsAreAnswered
  BY OneResult, HonestCodes DEF CallsAreAnswered
<1> QED BY <1>1, RepairInvariance, PTL
=============================================================================
