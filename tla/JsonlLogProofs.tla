--------------------------- MODULE JsonlLogProofs ---------------------------
(***************************************************************************)
(* Proofs about JsonlLog for any bounds, both encodings, any crashes and   *)
(* any failing operations, as long as the truncation that rolls a failed   *)
(* append back succeeds (RollbackHolds; the run jsonl_rollback shows what  *)
(* happens when it does not).                                              *)
(***************************************************************************)
EXTENDS JsonlLog, SequenceTheorems, TLAPS

RollbackHolds == RollbackFates \subseteq {"undone"}

\* The decodable part of the file, all of it but a record that was cut short.
Torn == rows # <<>> /\ rows[Len(rows)].kind = "cut"
Body == IF Torn THEN Len(rows) - 1 ELSE Len(rows)

\* What was acknowledged is a prefix of the decodable part, and a cut record
\* starts (TruncateTo) behind it.
ShownInv ==
  /\ Body <= MaxEvents /\ Len(shown) <= Body
  /\ \A i \in 1..Len(shown) : shown[i] = rows[i]
  /\ Torn => rows[Len(rows)].seq \in Len(shown)..Body

\* Before the log is linked it holds nothing; nothing is acknowledged before
\* its directory entry is durable.
FileInv ==
  /\ file = "absent" => rows = <<>> /\ synced = 0
  /\ file = "linked" => /\ pc \in {"idle", "linking"} /\ ~Torn
                        /\ materialized = "no" /\ synced = Len(rows)
  /\ file # "durable" => shown = <<>>
  /\ synced = Len(rows) \/ (pc \in {"syncing", "rolling"} /\ synced = before)

\* The queue continues the cursor, and the cursor stands at the end of what
\* was acknowledged to this process.
QueueInv ==
  /\ cursor + Len(queue) <= MaxEvents
  /\ \A k \in 1..Len(queue) : queue[k].seq = cursor + k - 1
  /\ materialized = "no" => cursor = 0
  /\ materialized = "yes" => /\ file = "durable" /\ cursor = Len(shown)
                             /\ task # "repair"
  /\ materialized = "no" /\ task # "repair" /\ pc # "down" => file # "durable"
  /\ pc = "down" \/ task = "repair" => queue = <<>> /\ materialized = "no"
  /\ pc = "idle" /\ materialized = "yes" => Len(rows) = Len(shown) /\ ~Torn

\* Who is at work, on what, and where the file ends meanwhile.
TaskInv ==
  /\ task = "none" <=> pc \in {"down", "idle"}
  /\ task = "none" <=> batch = <<>> /\ pc # "truncating"
  /\ pc = "publishing" => /\ task = "append" /\ file = "absent"
                          /\ materialized = "no"
  /\ pc = "linking" => task = "append" /\ file = "linked" /\ rows = batch
  /\ pc = "truncating" => /\ task = "repair" /\ before <= Body
                          /\ batch = <<>> => before = Body
  /\ task = "append" /\ pc \in {"writing", "syncing", "rolling"} =>
       materialized = "yes" /\ before = cursor
  /\ task = "append" => /\ Len(batch) <= Len(queue)
                        /\ \A k \in 1..Len(batch) : batch[k] = queue[k]
  /\ task = "repair" => /\ file = "durable" /\ before >= Len(shown)
                        /\ before + Len(batch) <= MaxEvents
                        /\ \A k \in 1..Len(batch) : batch[k].seq = before + k - 1
  /\ pc = "writing" => before = Len(rows) /\ ~Torn
  /\ pc \in {"syncing", "rolling"} => before <= Body /\ synced = before
  /\ pc = "rolling" /\ Torn => rows[Len(rows)].seq = before
  /\ pc = "syncing" => /\ Len(rows) = before + Len(batch) /\ ~Torn
                       /\ \A k \in 1..Len(batch) : rows[before + k] = batch[k]

IInv == TypeOK /\ DamageIsLast /\ ShownInv /\ FileInv /\ QueueInv /\ TaskInv
-----------------------------------------------------------------------------
(* What the operators compute *)

\* Records and cuts are told apart by their kind.
LEMMA RowKinds ==
  ASSUME NEW r \in Record \cup Cut
  PROVE  /\ r.kind # "cut" <=> r \in Record
         /\ r.seq \in 0..MaxEvents
  BY DEF Record, Cut

\* At most the last row is not part of it.
LEMMA BodyInFile == rows \in Seq(Record \cup Cut) => Body \in 0..Len(rows)
  BY DEF Body, Torn

\* The scan stops at the only record that can be damaged.
LEMMA GoodIsBody ==
  ASSUME TypeOK, DamageIsLast
  PROVE  Good = Body /\ Body \in 0..Len(rows)
<1> DEFINE Stops(n) == /\ \A i \in 1..n : InOrder(i)
                       /\ n < Len(rows) => ~InOrder(n + 1)
<1>1. Body \in 0..Len(rows) /\ Stops(Body)
  <2>1. rows \in Seq(Record \cup Cut) /\ Len(rows) \in Nat
    BY DEF TypeOK
  <2>2. CASE Torn
    <3>1. /\ Len(rows) > 0 /\ rows[Len(rows)].kind = "cut" /\ Body = Len(rows) - 1
          /\ Body \in 0..Len(rows)
      BY <2>1, <2>2 DEF Torn, Body
    <3>2. \A i \in 1..Body : InOrder(i)
      BY <2>1, <3>1 DEF DamageIsLast
    <3>3. Body + 1 = Len(rows) /\ ~InOrder(Len(rows))
      BY <2>1, <3>1 DEF InOrder
    <3> QED BY <3>1, <3>2, <3>3
  <2>3. CASE ~Torn
    <3>1. Body = Len(rows) /\ \A i \in 1..Len(rows) : i = Len(rows) => rows[i].kind # "cut"
      BY <2>1, <2>3 DEF Torn, Body
    <3>2. \A i \in 1..Body : InOrder(i)
      BY <3>1 DEF DamageIsLast
    <3> QED BY <2>1, <3>1, <3>2
  <2> QED BY <2>2, <2>3
<1>2. ASSUME NEW n \in 0..Len(rows), Stops(n) PROVE n = Body
  BY <1>1, <1>2 DEF TypeOK
<1> QED BY <1>1, <1>2 DEF Good

\* A write that is cut short leaves some of its records, and perhaps a cut.
LEMMA RemainsIsCut ==
  ASSUME NEW w \in Seq(Record \cup Cut), NEW part \in Remains(w),
         before \in 0..MaxEvents, life \in 0..MaxCrashes
  PROVE  /\ part \in Seq(Record \cup Cut)
         /\ \E n \in 0..Len(w) :
              /\ \A i \in 1..n : part[i] = w[i]
              /\ \/ Len(part) = n
                 \/ /\ Len(part) = n + 1 /\ w # <<>>
                    /\ part[n + 1].kind = "cut" /\ part[n + 1].seq = before
                    /\ n < Len(w) \/ w[Len(w)].kind # "cut"
<1> DEFINE cut == [kind |-> "cut", seq |-> before, life |-> life]
           Goal == /\ part \in Seq(Record \cup Cut)
                   /\ \E n \in 0..Len(w) :
                        /\ \A i \in 1..n : part[i] = w[i]
                        /\ \/ Len(part) = n
                           \/ /\ Len(part) = n + 1 /\ w # <<>>
                              /\ part[n + 1].kind = "cut" /\ part[n + 1].seq = before
                              /\ n < Len(w) \/ w[Len(w)].kind # "cut"
<1>1. cut \in Record \cup Cut /\ cut.kind = "cut" /\ cut.seq = before
  BY DEF Cut
<1> HIDE DEF cut
<1>2. CASE part = <<>>
  BY <1>2
<1>3. CASE part = w
  BY <1>3
<1>4. ASSUME NEW n \in 0..Len(w), part = SubSeq(w, 1, n) PROVE Goal
  BY <1>4
<1>5. ASSUME NEW n \in 1..Len(w), part = Append(SubSeq(w, 1, n - 1), cut) PROVE Goal
  BY <1>1, <1>5
<1>6. CASE w # <<>> /\ w[Len(w)].kind # "cut" /\ part = Append(w, cut)
  BY <1>1, <1>6
<1> QED BY <1>2, <1>3, <1>4, <1>5, <1>6 DEF Remains, cut
-----------------------------------------------------------------------------
(* The invariant *)

\* A session that was just created.
LEMMA InitIInv == Init => IInv
  BY BoundsAssumption
  DEF Init, IInv, TypeOK, DamageIsLast, InOrder, ShownInv, Torn, Body, FileInv,
      QueueInv, TaskInv, Record

\* Nothing that the rows decide changes with the rest of the state.
LEMMA RowsKept ==
  ASSUME IInv, UNCHANGED <<rows, shown>>
  PROVE  DamageIsLast' /\ ShownInv'
  BY DEF IInv, DamageIsLast, InOrder, ShownInv, Body, Torn

\* Behind the first m rows, part holds n records that continue them, and
\* perhaps one that was cut short.
Continues(m, part, n) ==
  /\ part \in Seq(Record \cup Cut)
  /\ n \in Nat /\ n <= Len(part) /\ m + n <= MaxEvents
  /\ \A i \in 1..n : part[i].kind # "cut" /\ part[i].seq = m + i - 1
  /\ \/ Len(part) = n
     \/ Len(part) = n + 1 /\ part[n + 1].kind = "cut" /\ part[n + 1].seq = m

\* The file is cut off behind what was acknowledged and then continued:
\* nothing gets lost in it.
LEMMA RowsWritten ==
  ASSUME IInv, NEW m \in Len(shown)..Body, NEW part, NEW n,
         Continues(m, part, n), rows' = SubSeq(rows, 1, m) \o part,
         shown' = shown \/ (shown' = rows' /\ Len(part) = n)
  PROVE  /\ DamageIsLast' /\ ShownInv' /\ Body' = m + n
         /\ Torn' <=> Len(part) = n + 1
         /\ Torn' => rows'[Len(rows')].seq = m
         /\ rows' \in Seq(Record \cup Cut) /\ Len(rows') = m + Len(part)
         /\ \A i \in 1..m : rows'[i] = rows[i]
         /\ \A i \in 1..Len(part) : rows'[m + i] = part[i]
<1>0. /\ part \in Seq(Record \cup Cut)
      /\ n \in Nat /\ n <= Len(part) /\ m + n <= MaxEvents
      /\ \A i \in 1..n : part[i].kind # "cut" /\ part[i].seq = m + i - 1
      /\ \/ Len(part) = n
         \/ Len(part) = n + 1 /\ part[n + 1].kind = "cut" /\ part[n + 1].seq = m
  BY DEF Continues
<1>1. rows \in Seq(Record \cup Cut) /\ m \in 0..Len(rows)
  BY DEF IInv, TypeOK, Body
<1>2. /\ rows' \in Seq(Record \cup Cut) /\ Len(rows') = m + Len(part)
      /\ \A i \in 1..m : rows'[i] = rows[i]
      /\ \A i \in 1..Len(part) : rows'[m + i] = part[i]
  <2> DEFINE head == SubSeq(rows, 1, m)
  <2>1. /\ head \in Seq(Record \cup Cut) /\ Len(head) = m
        /\ \A i \in 1..m : head[i] = rows[i]
    BY <1>0, <1>1
  <2>2. rows' = head \o part
    OBVIOUS
  <2> HIDE DEF head
  <2>3. Len(rows') = m + Len(part)
    BY <1>0, <1>1, <2>1, <2>2
  <2>4. \A i \in 1..m : rows'[i] = rows[i]
    BY <1>0, <1>1, <2>1, <2>2
  <2>5. \A i \in 1..Len(part) : rows'[m + i] = part[i]
    <3> TAKE i \in 1..Len(part)
    <3>1. i \in Nat /\ m \in Nat /\ Len(head) = m /\ Len(part) \in Nat
      BY <1>0, <1>1, <2>1
    <3>2. m + i \in 1..m + Len(part) /\ ~(m + i <= m) /\ (m + i) - m = i
      BY <3>1
    <3>3. (head \o part)[m + i] = part[(m + i) - m]
      BY <1>0, <2>1, <3>1, <3>2, ConcatProperties
    <3> QED BY <2>2, <3>2, <3>3
  <2>6. rows' \in Seq(Record \cup Cut)
    BY <1>0, <1>1, <2>1, <2>2
  <2> QED BY <2>3, <2>4, <2>5, <2>6
<1>3. ASSUME NEW i \in m + 1..m + n PROVE InOrder(i)'
  <2>1. i - m \in 1..n /\ rows'[i] = part[i - m]
    BY <1>0, <1>1, <1>2
  <2> QED BY <1>0, <1>1, <2>1 DEF InOrder
<1>4. ASSUME NEW i \in 1..m PROVE InOrder(i)'
  BY <1>0, <1>1, <1>2 DEF IInv, DamageIsLast, Body, Torn, InOrder
<1>5. ASSUME Len(part) = n PROVE ~Torn'
  <2> SUFFICES ASSUME rows' # <<>> PROVE rows'[Len(rows')].kind # "cut"
    BY DEF Torn
  <2>1. Len(rows') \in 1..m + n
    BY <1>0, <1>2, <1>5
  <2> QED BY <1>0, <1>2, <1>3, <1>4, <2>1 DEF InOrder
<1>6. ASSUME Len(part) = n + 1 PROVE Torn' /\ rows'[Len(rows')].seq = m
  BY <1>0, <1>1, <1>2, <1>6 DEF Torn
<1>7. Body' = m + n /\ (Torn' <=> Len(part) = n + 1)
  <2>1. Len(part) \in Nat /\ m \in Nat /\ Len(rows') = m + Len(part)
    BY <1>0, <1>1, <1>2
  <2>2. CASE Len(part) = n
    BY <1>0, <1>5, <2>1, <2>2 DEF Body
  <2>3. CASE Len(part) = n + 1
    <3>1. Body' = Len(rows') - 1 /\ Torn'
      BY <1>0, <1>6, <2>3 DEF Body
    <3> HIDE DEF Body, Torn
    <3> QED BY <1>0, <2>1, <2>3, <3>1
  <2> QED BY <1>0, <2>2, <2>3
<1>8. DamageIsLast'
  <2> SUFFICES ASSUME NEW i \in 1..Len(rows'), i \notin 1..m, i \notin m + 1..m + n
               PROVE  i = Len(rows') /\ rows'[i].kind = "cut"
    BY <1>3, <1>4 DEF DamageIsLast
  <2>1. i = m + n + 1 /\ Len(part) = n + 1
    BY <1>0, <1>1, <1>2
  <2> QED BY <1>0, <1>2, <1>6, <2>1 DEF Torn
<1>9. ShownInv'
  <2>1. /\ Len(shown) \in 0..m /\ MaxEvents \in Nat
        /\ \A i \in 1..Len(shown) : shown[i] = rows[i]
    BY BoundsAssumption DEF ShownInv, IInv, TypeOK
  <2>2. CASE shown' = shown
    <3>1. Body' <= MaxEvents /\ Len(shown') <= Body'
      BY <1>0, <1>1, <1>7, <2>1, <2>2
    <3>2. \A i \in 1..Len(shown') : shown'[i] = rows'[i]
      BY <1>0, <1>1, <1>2, <2>1, <2>2
    <3>3. Torn' => rows'[Len(rows')].seq \in Len(shown')..Body'
      BY <1>0, <1>1, <1>6, <1>7, <2>1, <2>2
    <3> QED BY <3>1, <3>2, <3>3 DEF ShownInv
  <2>3. CASE shown' = rows' /\ Len(part) = n
    BY <1>0, <1>1, <1>2, <1>7, <2>1, <2>3 DEF ShownInv
  <2> QED BY <1>0, <2>2, <2>3
<1> QED BY <1>0, <1>2, <1>5, <1>6, <1>7, <1>8, <1>9

\* Cutting it off there loses nothing either.
LEMMA RowsCutOff ==
  ASSUME IInv, NEW m \in Len(shown)..Body, rows' = SubSeq(rows, 1, m),
         shown' = shown \/ shown' = rows'
  PROVE  /\ DamageIsLast' /\ ShownInv' /\ Body' = m /\ ~Torn'
         /\ rows' \in Seq(Record \cup Cut) /\ Len(rows') = m
         /\ \A i \in 1..m : rows'[i] = rows[i]
<1>1. rows \in Seq(Record \cup Cut) /\ m \in 0..Len(rows) /\ m <= MaxEvents
  BY BoundsAssumption DEF IInv, TypeOK, ShownInv, Body
<1>2. /\ <<>> \in Seq(Record \cup Cut) /\ Len(<<>>) = 0
      /\ rows' = SubSeq(rows, 1, m) \o <<>>
  BY <1>1
<1> DEFINE none == <<>>
<1>3. none \in Seq(Record \cup Cut) /\ Len(none) = 0 /\ rows' = SubSeq(rows, 1, m) \o none
  BY <1>2
<1> HIDE DEF none
<1>4. PICK n \in Nat : n = 0
  OBVIOUS
<1>5. Continues(m, none, n) /\ Len(none) = n /\ m + n = m
  BY <1>1, <1>3, <1>4 DEF Continues
<1>6. shown' = shown \/ (shown' = rows' /\ Len(none) = n)
  BY <1>5
<1>7. /\ DamageIsLast' /\ ShownInv' /\ Body' = m + n
      /\ Torn' <=> Len(none) = n + 1
      /\ rows' \in Seq(Record \cup Cut) /\ Len(rows') = m + Len(none)
      /\ \A i \in 1..m : rows'[i] = rows[i]
  BY <1>3, <1>5, <1>6, RowsWritten
<1> QED BY <1>1, <1>3, <1>4, <1>5, <1>7

\* Rows without a cut one are records.
LEMMA AllRecords ==
  ASSUME NEW s \in Seq(Record \cup Cut), \A i \in 1..Len(s) : s[i].kind # "cut"
  PROVE  s \in Seq(Record)
<1>1. \A i \in 1..Len(s) : s[i] \in Record
  BY RowKinds
<1> QED BY <1>1

\* What a load writes again behind the point it truncates to.
LEMMA RepairShape ==
  ASSUME IInv
  PROVE  /\ TruncateTo \in Len(shown)..Body
         /\ TruncateTo < Len(rows) <=> Torn
         /\ Repaired \in Seq(Record) /\ TruncateTo + Len(Repaired) <= MaxEvents
         /\ \A k \in 1..Len(Repaired) : Repaired[k].seq = TruncateTo + k - 1
         /\ Repaired = <<>> => TruncateTo = Body
<1> DEFINE T == TruncateTo
<1>1. Good = Body /\ Body \in 0..Len(rows) /\ rows \in Seq(Record \cup Cut)
      /\ Body <= MaxEvents /\ MaxEvents \in Nat /\ life \in 0..MaxCrashes
  BY GoodIsBody, BoundsAssumption DEF IInv, TypeOK, ShownInv
<1>2. T \in Len(shown)..Body /\ (T < Len(rows) <=> Torn)
  <2>1. /\ Len(rows) \in Nat /\ Len(shown) \in Nat /\ Len(shown) <= Body
        /\ Torn => rows[Len(rows)].seq \in Len(shown)..Body
    BY <1>1 DEF IInv, TypeOK, ShownInv
  <2>2. (Torn => Body = Len(rows) - 1) /\ (~Torn => Body = Len(rows))
    BY DEF Body
  <2>3. Torn => Len(rows) > 0
    BY <2>1 DEF Torn
  <2> QED BY <1>1, <2>1, <2>2, <2>3 DEF TruncateTo, Torn
<1>3. T \in Nat
  BY <1>2 DEF IInv, TypeOK
<1> HIDE DEF T
<1>4. /\ Recovered \in Seq(Record) /\ Len(Recovered) = Body - T
      /\ \A k \in 1..Len(Recovered) : Recovered[k].seq = T + k - 1
  <2>1. Recovered = SubSeq(rows, T + 1, Body)
    BY <1>1 DEF Recovered, T
  <2>2. /\ Len(Recovered) = Body - T /\ Recovered \in Seq(Record \cup Cut)
        /\ \A k \in 1..Body - T : Recovered[k] = rows[T + k]
    BY <1>1, <1>2, <1>3, <2>1
  <2>3. \A k \in 1..Body - T : rows[T + k].kind # "cut" /\ rows[T + k].seq = T + k - 1
    BY <1>1, <1>2, <1>3 DEF IInv, DamageIsLast, InOrder, Body, Torn
  <2> QED BY <2>2, <2>3, AllRecords
<1>5. \/ Closers = <<>>
      \/ Body < MaxEvents /\ \E r \in Record : Closers = <<r>> /\ r.seq = Body
  <2> DEFINE r == [kind |-> "end", seq |-> Good, life |-> life]
  <2>1. Body < MaxEvents => r \in Record
    BY <1>1 DEF Record
  <2>2. r.seq = Body
    BY <1>1
  <2>3. Closers = <<>> \/ (Body < MaxEvents /\ Closers = <<r>>)
    BY <1>1 DEF Closers
  <2> QED BY <2>1, <2>2, <2>3
<1> DEFINE Shape ==
             /\ Repaired \in Seq(Record) /\ T + Len(Repaired) <= MaxEvents
             /\ \A k \in 1..Len(Repaired) : Repaired[k].seq = T + k - 1
             /\ Repaired = <<>> => T = Body
<1>6. Shape
  <2>1. CASE Closers = <<>>
    <3>1. Repaired = Recovered
      BY <1>4, <2>1 DEF Repaired
    <3> QED BY <1>1, <1>2, <1>3, <1>4, <3>1
  <2>2. ASSUME NEW r \in Record, Closers = <<r>>, r.seq = Body, Body < MaxEvents
        PROVE  Shape
    <3>1. /\ Repaired \in Seq(Record) /\ Len(Repaired) = Len(Recovered) + 1
          /\ \A k \in 1..Len(Recovered) : Repaired[k] = Recovered[k]
          /\ Repaired[Len(Recovered) + 1] = r
      BY <1>4, <2>2 DEF Repaired
    <3>2. /\ Len(Recovered) = Body - T /\ Body \in Nat /\ T \in Nat /\ T <= Body
          /\ Len(Repaired) = Body - T + 1
      BY <1>1, <1>2, <1>3, <1>4, <3>1
    <3>3. ASSUME NEW k \in 1..Len(Repaired) PROVE Repaired[k].seq = T + k - 1
      <4>1. CASE k <= Body - T
        <5>1. k \in 1..Len(Recovered)
          BY <3>2, <4>1
        <5> QED BY <1>4, <3>1, <5>1
      <4>2. CASE k = Body - T + 1
        BY <2>2, <3>1, <3>2, <4>2
      <4> QED BY <3>2, <4>1, <4>2
    <3>4. T + Len(Repaired) <= MaxEvents
      BY <1>1, <2>2, <3>2
    <3> QED BY <3>1, <3>2, <3>3, <3>4
  <2> QED BY <1>5, <2>1, <2>2
<1> QED BY <1>2, <1>6 DEF T

\* The batch, or the repaired log, is durable: cursor, queue and history agree.
LEMMA Acknowledged ==
  ASSUME IInv, Acknowledge, pc \in {"linking", "syncing", "truncating"},
         file' = "durable", ~Torn', synced' = Len(rows'),
         rows' \in Seq(Record \cup Cut), DamageIsLast', Len(rows') <= MaxEvents,
         task = "append" => Len(rows') = cursor + Len(batch)
  PROVE  /\ FileInv' /\ QueueInv' /\ TaskInv'
         /\ queue' \in Seq(Record) /\ shown' \in Seq(Record) /\ batch' = <<>>
         /\ cursor' = Len(rows') /\ materialized' = "yes" /\ pc' = "idle"
         /\ task' = "none"
<1>1. shown' = rows' /\ rows' \in Seq(Record)
  <2>1. \A i \in 1..Len(rows') : rows'[i].kind # "cut"
    BY DEF DamageIsLast, InOrder, Torn
  <2> QED BY <2>1, AllRecords DEF Acknowledge
<1>2. /\ task' = "none" /\ batch' = <<>> /\ pc' = "idle" /\ materialized' = "yes"
      /\ cursor' = Len(rows') /\ task \in {"append", "repair"}
  BY DEF Acknowledge, EndTask, IInv, TypeOK, TaskInv
<1>3. /\ queue' \in Seq(Record) /\ cursor' + Len(queue') <= MaxEvents
      /\ \A k \in 1..Len(queue') : queue'[k].seq = cursor' + k - 1
  <2>1. CASE task = "append"
    <3>1. queue \in Seq(Record) /\ batch \in Seq(Record) /\ cursor \in Nat
          /\ Len(batch) <= Len(queue) /\ cursor + Len(queue) <= MaxEvents
          /\ \A k \in 1..Len(queue) : queue[k].seq = cursor + k - 1
      BY <2>1 DEF IInv, TypeOK, TaskInv, QueueInv
    <3>2. queue' = SubSeq(queue, Len(batch) + 1, Len(queue))
      BY <2>1 DEF Acknowledge
    <3>3. /\ queue' \in Seq(Record) /\ Len(queue') = Len(queue) - Len(batch)
          /\ \A k \in 1..Len(queue') : queue'[k] = queue[Len(batch) + k]
      BY <3>1, <3>2
    <3>4. ASSUME NEW k \in 1..Len(queue') PROVE queue'[k].seq = cursor' + k - 1
      <4>1. queue'[k] = queue[Len(batch) + k] /\ Len(batch) + k \in 1..Len(queue)
        BY <3>1, <3>3
      <4>2. queue'[k].seq = cursor + (Len(batch) + k) - 1
        BY <3>1, <4>1
      <4>3. cursor' = cursor + Len(batch) /\ Len(batch) \in Nat
        BY <1>2, <2>1, <3>1
      <4> QED BY <3>1, <4>2, <4>3
    <3>5. cursor' + Len(queue') = cursor + Len(queue)
      <4>1. cursor' = cursor + Len(batch) /\ Len(batch) \in Nat /\ Len(queue) \in Nat
        BY <1>2, <2>1, <3>1
      <4> QED BY <3>1, <3>3, <4>1
    <3> QED BY <3>1, <3>3, <3>4, <3>5
  <2>2. CASE task = "repair"
    BY <1>1, <1>2, <2>2, BoundsAssumption DEF Acknowledge
  <2> QED BY <1>2, <2>1, <2>2
<1>4. FileInv' /\ QueueInv' /\ TaskInv'
  BY <1>1, <1>2, <1>3 DEF FileInv, QueueInv, TaskInv
<1> QED BY <1>1, <1>2, <1>3, <1>4

\* A batch that is about to be written continues the file.
LEMMA BatchFits ==
  ASSUME IInv, pc = "writing"
  PROVE  /\ ~Torn /\ before = Len(rows) /\ Body = Len(rows) /\ batch \in Seq(Record)
         /\ batch \in Seq(Record \cup Cut) /\ batch # <<>> /\ before \in Nat
         /\ rows \in Seq(Record \cup Cut) /\ Len(shown) <= Len(rows)
         /\ task \in {"append", "repair"} /\ file = "durable" /\ synced = before
         /\ \A i \in 1..Len(batch) :
              batch[i].kind # "cut" /\ batch[i].seq = before + i - 1
         /\ before + Len(batch) <= MaxEvents
         /\ before \in Len(shown)..Body /\ rows = SubSeq(rows, 1, before)
<1>1. /\ ~Torn /\ before = Len(rows) /\ Body = Len(rows) /\ batch \in Seq(Record)
      /\ rows \in Seq(Record \cup Cut) /\ Len(shown) <= Len(rows)
      /\ task \in {"append", "repair"} /\ file = "durable" /\ synced = before
      /\ batch # <<>>
  BY DEF IInv, TypeOK, TaskInv, ShownInv, Body, QueueInv, FileInv
<1>2. \A i \in 1..Len(batch) : batch[i].kind # "cut"
  BY <1>1, RowKinds
<1>3. before \in Len(shown)..Body /\ rows = SubSeq(rows, 1, before) /\ before \in Nat
  BY <1>1 DEF IInv, TypeOK
<1> DEFINE Fits == /\ \A i \in 1..Len(batch) : batch[i].seq = before + i - 1
                   /\ before + Len(batch) <= MaxEvents
<1>4. ASSUME task = "append" PROVE Fits
  <2>1. /\ before = cursor /\ Len(batch) <= Len(queue) /\ queue \in Seq(Record)
        /\ cursor + Len(queue) <= MaxEvents /\ cursor \in Nat /\ MaxEvents \in Nat
        /\ \A k \in 1..Len(batch) : batch[k] = queue[k]
        /\ \A k \in 1..Len(queue) : queue[k].seq = cursor + k - 1
    BY <1>4, BoundsAssumption DEF IInv, TypeOK, TaskInv, QueueInv
  <2>2. ASSUME NEW i \in 1..Len(batch) PROVE batch[i].seq = before + i - 1
    <3>1. i \in 1..Len(queue) /\ batch[i] = queue[i]
      BY <1>1, <2>1
    <3> QED BY <2>1, <3>1
  <2>3. before + Len(batch) <= MaxEvents /\ before \in Nat
    BY <1>1, <2>1
  <2> QED BY <2>2, <2>3
<1>5. ASSUME task = "repair" PROVE Fits
  <2>1. /\ before + Len(batch) <= MaxEvents
        /\ \A k \in 1..Len(batch) : batch[k].seq = before + k - 1
    BY <1>5 DEF IInv, TaskInv
  <2> QED BY <2>1
<1>6. Fits
  BY <1>1, <1>4, <1>5
<1> QED BY <1>1, <1>2, <1>3, <1>6

\* Every step keeps the invariant.
LEMMA NextIInv == RollbackHolds /\ IInv /\ [Next]_vars => IInv'
<1> SUFFICES ASSUME RollbackHolds, IInv, [Next]_vars PROVE IInv'
  OBVIOUS
<1> USE BoundsAssumption DEF fileVars, memoryVars, Forget, EndTask, GiveUp, Fails
<1> DEFINE OthersInv == FileInv /\ QueueInv /\ TaskInv
<1>0. ASSUME TypeOK', DamageIsLast', ShownInv', OthersInv' PROVE IInv'
  BY <1>0 DEF IInv
<1>1. ASSUME NEW kind \in {"step", "end"}, Emit(kind) PROVE IInv'
  <2> DEFINE r == [kind |-> kind, seq |-> cursor + Len(queue), life |-> life]
  <2>1. r \in Record /\ r.seq = cursor + Len(queue)
    BY <1>1 DEF Emit, IInv, TypeOK, Record
  <2>2. queue \in Seq(Record) /\ queue' = Append(queue, r)
    BY <1>1 DEF Emit, IInv, TypeOK
  <2> HIDE DEF r
  <2>3. /\ queue' \in Seq(Record) /\ Len(queue') = Len(queue) + 1
        /\ \A k \in 1..Len(queue) : queue'[k] = queue[k]
        /\ queue'[Len(queue) + 1].seq = cursor + Len(queue)
    BY <2>1, <2>2
  <2>4. TypeOK'
    BY <1>1, <2>3 DEF Emit, IInv, TypeOK
  <2>5. QueueInv'
    <3>1. /\ cursor' = cursor /\ cursor \in Nat /\ Len(queue) \in Nat
          /\ cursor + Len(queue) < MaxEvents
          /\ \A k \in 1..Len(queue) : queue[k].seq = cursor + k - 1
      BY <1>1, <2>2 DEF Emit, IInv, TypeOK, QueueInv
    <3>2. \A k \in 1..Len(queue') : queue'[k].seq = cursor' + k - 1
      BY <2>3, <3>1
    <3>3. cursor' + Len(queue') <= MaxEvents
      BY <2>3, <3>1
    <3> QED BY <1>1, <3>2, <3>3 DEF Emit, IInv, QueueInv, Torn
  <2>6. FileInv'
    BY <1>1 DEF Emit, IInv, FileInv, Torn
  <2>7. TaskInv'
    BY <1>1, <2>2, <2>3 DEF Emit, IInv, TypeOK, TaskInv, Torn, Body
  <2> QED BY <1>0, <1>1, <2>4, <2>5, <2>6, <2>7, RowsKept DEF Emit
<1>2. CASE Create
  <2>1. TypeOK' /\ OthersInv'
    BY <1>2 DEF Create, IInv, TypeOK, FileInv, QueueInv, TaskInv, Torn, Body
  <2> QED BY <1>0, <1>2, <2>1, RowsKept DEF Create
<1>3. CASE BeginAppend
  <2>1. TypeOK' /\ OthersInv'
    BY <1>3 DEF BeginAppend, IInv, TypeOK, FileInv, QueueInv, TaskInv, Torn, Body
  <2> QED BY <1>0, <1>3, <2>1, RowsKept DEF BeginAppend
<1>4. CASE Publish
  <2>1. /\ rows = <<>> /\ shown = <<>> /\ cursor = 0 /\ task = "append"
        /\ batch \in Seq(Record) /\ \A k \in 1..Len(batch) : batch[k].seq = k - 1
        /\ Len(batch) <= Len(queue) /\ Len(queue) <= MaxEvents
    <3>1. pc = "publishing" /\ TypeOK /\ FileInv /\ QueueInv /\ TaskInv
      BY <1>4 DEF Publish, IInv
    <3>2. /\ batch \in Seq(Record) /\ queue \in Seq(Record) /\ Len(queue) <= MaxEvents
          /\ rows = <<>> /\ shown = <<>> /\ cursor = 0 /\ task = "append"
      BY <3>1 DEF TypeOK, FileInv, QueueInv, TaskInv
    <3>3. \A k \in 1..Len(batch) : batch[k].seq = k - 1
      BY <3>1, <3>2 DEF TypeOK, FileInv, QueueInv, TaskInv
    <3>4. Len(batch) <= Len(queue)
      BY <3>1, <3>2 DEF TypeOK, QueueInv, TaskInv
    <3> QED BY <3>2, <3>3, <3>4
  <2>2. rows' = batch /\ rows' \in Seq(Record \cup Cut) /\ UNCHANGED shown
    BY <1>4, <2>1 DEF Publish
  <2>3. \A k \in 1..Len(rows') : rows'[k].kind # "cut" /\ rows'[k].seq = k - 1
    BY <2>1, <2>2, RowKinds
  <2>4. ~Torn' /\ Body' = Len(batch)
    BY <2>2, <2>3 DEF Torn, Body
  <2>5. DamageIsLast' /\ ShownInv'
    BY <2>1, <2>2, <2>3, <2>4 DEF DamageIsLast, InOrder, ShownInv
  <2>6. TypeOK' /\ OthersInv'
    BY <1>4, <2>1, <2>2, <2>4
    DEF Publish, IInv, TypeOK, FileInv, QueueInv, TaskInv
  <2> QED BY <1>0, <2>5, <2>6
<1>5. CASE \/ PublishFails \/ SyncDirFails \/ SyncFails \/ OpenFails
           \/ TruncateFails /\ UNCHANGED <<rows, synced>>
  <2>1. TypeOK'
    <3>1. failures' \in 0..MaxFailures
      BY <1>5 DEF PublishFails, SyncDirFails, SyncFails, OpenFails, TruncateFails, IInv, TypeOK
    <3>2. CASE UNCHANGED <<task, batch, memoryVars>>
      BY <1>5, <3>1, <3>2
      DEF PublishFails, SyncDirFails, SyncFails, OpenFails, TruncateFails, IInv, TypeOK
    <3>3. CASE EndTask /\ UNCHANGED memoryVars
      <4>1. /\ pc' \in {"down", "idle", "rolling"} /\ task' = "none" /\ batch' = <<>>
            /\ UNCHANGED <<fileVars, memoryVars, before, life, shown>>
        BY <1>5, <3>3 DEF PublishFails, SyncDirFails, SyncFails, OpenFails, TruncateFails, Fails
      <4> QED BY <3>1, <4>1 DEF IInv, TypeOK
    <3>4. CASE EndTask /\ Forget
      <4>1. /\ pc' \in {"down", "idle", "rolling"} /\ task' = "none" /\ batch' = <<>>
            /\ queue' = <<>> /\ cursor' = 0 /\ materialized' = "no"
            /\ UNCHANGED <<fileVars, before, life, shown>>
        BY <1>5, <3>4 DEF PublishFails, SyncDirFails, SyncFails, OpenFails, TruncateFails, Fails
      <4> QED BY <3>1, <4>1 DEF IInv, TypeOK
    <3> QED BY <1>5, <3>2, <3>3, <3>4
            DEF PublishFails, SyncDirFails, SyncFails, OpenFails, TruncateFails
  <2>2. OthersInv'
    BY <1>5 DEF PublishFails, SyncDirFails, SyncFails, OpenFails, TruncateFails, IInv, TypeOK,
                FileInv, QueueInv, TaskInv, Torn, Body
  <2> QED BY <1>0, <1>5, <2>1, <2>2, RowsKept
          DEF PublishFails, SyncDirFails, SyncFails, OpenFails, TruncateFails
<1>6. CASE SyncDir
  <2>1. /\ task = "append" /\ rows = batch /\ cursor = 0 /\ ~Torn
        /\ Len(rows) <= MaxEvents /\ synced = Len(rows) /\ batch # <<>>
    BY <1>6 DEF SyncDir, IInv, TypeOK, FileInv, QueueInv, TaskInv, ShownInv, Body
  <2>2. Len(shown) <= Len(rows) /\ rows = SubSeq(rows, 1, Len(rows)) /\ Body = Len(rows)
    BY <2>1 DEF IInv, TypeOK, ShownInv, Body
  <2>3. DamageIsLast' /\ ShownInv' /\ ~Torn'
    <3>1. rows' = SubSeq(rows, 1, Len(rows)) /\ shown' = rows'
      BY <1>6, <2>1, <2>2 DEF SyncDir, Acknowledge
    <3>2. Len(rows) \in Len(shown)..Body
      BY <2>2 DEF IInv, TypeOK
    <3> QED BY <3>1, <3>2, RowsCutOff
  <2>4. /\ Acknowledge /\ pc = "linking" /\ file' = "durable" /\ synced' = Len(rows')
        /\ rows' = rows /\ rows \in Seq(Record \cup Cut) /\ Len(rows') <= MaxEvents
        /\ Len(rows') = cursor + Len(batch)
        /\ UNCHANGED <<encoding, before, life, failures>>
    BY <1>6, <2>1 DEF SyncDir, IInv, TypeOK
  <2>5. /\ OthersInv' /\ queue' \in Seq(Record) /\ shown' \in Seq(Record)
        /\ batch' = <<>> /\ cursor' = Len(rows') /\ materialized' = "yes"
        /\ pc' = "idle" /\ task' = "none"
    BY <2>3, <2>4, Acknowledged
  <2>6. TypeOK'
    BY <2>4, <2>5 DEF IInv, TypeOK
  <2> QED BY <1>0, <2>3, <2>5, <2>6
<1>7. CASE Write
  <2>1. pc = "writing" /\ rows' = rows \o batch /\ shown' = shown
    BY <1>7 DEF Write
  <2>2. before \in Len(shown)..Body /\ rows' = SubSeq(rows, 1, before) \o batch
    BY <2>1, BatchFits DEF IInv, TypeOK
  <2>3. /\ DamageIsLast' /\ ShownInv' /\ ~Torn' /\ Body' = before + Len(batch)
        /\ rows' \in Seq(Record \cup Cut) /\ Len(rows') = before + Len(batch)
        /\ \A k \in 1..Len(batch) : rows'[before + k] = batch[k]
    <3>1. PICK n \in Nat : n = Len(batch)
      BY <2>1, BatchFits
    <3>2. Continues(before, batch, n)
      BY <2>1, <3>1, BatchFits DEF Continues
    <3>3. /\ DamageIsLast' /\ ShownInv' /\ Body' = before + n
          /\ Torn' <=> Len(batch) = n + 1
          /\ rows' \in Seq(Record \cup Cut) /\ Len(rows') = before + Len(batch)
          /\ \A i \in 1..Len(batch) : rows'[before + i] = batch[i]
      <4>1. /\ before \in Len(shown)..Body /\ shown' = shown
            /\ rows' = SubSeq(rows, 1, before) \o batch
        BY <2>1, <2>2
      <4>2. /\ IInv /\ Continues(before, batch, n)
            /\ shown' = shown \/ (shown' = rows' /\ Len(batch) = n)
        BY <3>2, <4>1
      <4>3. /\ DamageIsLast' /\ ShownInv' /\ Body' = before + n
            /\ Torn' <=> Len(batch) = n + 1
            /\ Torn' => rows'[Len(rows')].seq = before
            /\ rows' \in Seq(Record \cup Cut) /\ Len(rows') = before + Len(batch)
            /\ \A i \in 1..before : rows'[i] = rows[i]
            /\ \A i \in 1..Len(batch) : rows'[before + i] = batch[i]
        BY <4>1, <4>2, RowsWritten, Zenon
      <4> QED BY <4>3
    <3> QED BY <3>1, <3>3
  <2>6. TypeOK'
    BY <1>7, <2>3, BatchFits DEF Write, IInv, TypeOK
  <2>7. FileInv'
    BY <1>7, <2>1, <2>3, BatchFits DEF Write, IInv, FileInv
  <2>8. QueueInv'
    BY <1>7, <2>1, BatchFits DEF Write, IInv, QueueInv
  <2>9. TaskInv'
    <3>1. /\ pc' = "syncing" /\ task' \in {"append", "repair"} /\ batch' # <<>>
          /\ UNCHANGED <<task, batch, queue, cursor, materialized, file, before, shown, synced>>
      BY <1>7, <2>1, BatchFits DEF Write
    <3>2. before' <= Body' /\ synced' = before' /\ Len(rows') = before' + Len(batch')
      BY <2>1, <2>3, <3>1, BatchFits
    <3>3. \A k \in 1..Len(batch') : rows'[before' + k] = batch'[k]
      BY <2>3, <3>1
    <3> QED BY <2>1, <2>3, <3>1, <3>2, <3>3 DEF IInv, TaskInv
  <2> QED BY <1>0, <2>3, <2>6, <2>7, <2>8, <2>9
<1>8. CASE WriteFails
  <2>1. /\ pc = "writing" /\ shown' = shown /\ pc' = "rolling"
        /\ failures' \in 0..MaxFailures
        /\ UNCHANGED <<encoding, file, synced, memoryVars, task, batch, before, life>>
    BY <1>8 DEF WriteFails, IInv, TypeOK
  <2>2. PICK part \in Remains(batch) : rows' = rows \o part
    BY <1>8 DEF WriteFails
  <2>3. /\ before \in Len(shown)..Body /\ rows' = SubSeq(rows, 1, before) \o part
        /\ before \in 0..MaxEvents /\ life \in 0..MaxCrashes
        /\ batch \in Seq(Record \cup Cut) /\ before + Len(batch) <= MaxEvents
    <3>1. before \in Nat /\ Len(batch) \in Nat /\ before + Len(batch) <= MaxEvents
          /\ MaxEvents \in Nat
      BY <2>1, BatchFits, BoundsAssumption
    <3>2. before \in 0..MaxEvents
      BY <3>1
    <3> QED BY <2>1, <2>2, <3>2, BatchFits DEF IInv, TypeOK
  <2>4. part \in Seq(Record \cup Cut)
    BY <2>3, RemainsIsCut
  <2>5. PICK n \in 0..Len(batch) :
              /\ \A i \in 1..n : part[i] = batch[i]
              /\ \/ Len(part) = n
                 \/ /\ Len(part) = n + 1 /\ batch # <<>>
                    /\ part[n + 1].kind = "cut" /\ part[n + 1].seq = before
                    /\ n < Len(batch) \/ batch[Len(batch)].kind # "cut"
    BY <2>3, RemainsIsCut
  <2>6. Continues(before, part, n)
    <3>1. n \in Nat /\ n <= Len(part) /\ n <= Len(batch) /\ Len(batch) \in Nat
      BY <2>3, <2>5
    <3>2. \A i \in 1..n : part[i].kind # "cut" /\ part[i].seq = before + i - 1
      <4> TAKE i \in 1..n
      <4>1. i \in 1..Len(batch) /\ part[i] = batch[i]
        BY <2>5, <3>1
      <4> QED BY <2>1, <4>1, BatchFits
    <3>3. before + n <= MaxEvents
      BY <2>3, <3>1, BoundsAssumption
    <3> QED BY <2>4, <2>5, <3>1, <3>2, <3>3 DEF Continues
  <2>7. /\ DamageIsLast' /\ ShownInv' /\ Body' = before + n
        /\ Torn' => rows'[Len(rows')].seq = before
        /\ rows' \in Seq(Record \cup Cut) /\ Len(rows') = before + Len(part)
    BY <2>1, <2>3, <2>6, RowsWritten
  <2>8. TypeOK'
    BY <2>1, <2>4, <2>7, BatchFits DEF IInv, TypeOK
  <2>9. FileInv'
    BY <2>1, BatchFits DEF IInv, FileInv
  <2>10. QueueInv'
    BY <2>1, BatchFits DEF IInv, QueueInv
  <2>11. TaskInv'
    BY <2>1, <2>6, <2>7, BatchFits DEF IInv, TaskInv
  <2> QED BY <1>0, <2>7, <2>8, <2>9, <2>10, <2>11
<1>9. CASE Sync
  <2>1. /\ ~Torn /\ Body = Len(rows) /\ Len(rows) <= MaxEvents
        /\ task \in {"append", "repair"} /\ file = "durable"
        /\ Len(shown) <= Len(rows) /\ rows = SubSeq(rows, 1, Len(rows))
        /\ Len(rows) = before + Len(batch)
    <3>1. ~Torn /\ task \in {"append", "repair"} /\ Len(rows) = before + Len(batch)
      BY <1>9 DEF Sync, IInv, TypeOK, TaskInv
    <3>2. file = "durable"
      BY <1>9, <3>1 DEF Sync, IInv, TypeOK, TaskInv, QueueInv
    <3>3. Body = Len(rows) /\ Len(rows) <= MaxEvents /\ Len(shown) <= Len(rows)
      BY <3>1 DEF IInv, ShownInv, Body
    <3> QED BY <3>1, <3>2, <3>3 DEF IInv, TypeOK
  <2>2. DamageIsLast' /\ ShownInv' /\ ~Torn'
    BY <1>9, <2>1, RowsCutOff DEF Sync, Acknowledge, IInv, TypeOK
  <2>3. task = "append" => before = cursor
    BY <1>9 DEF Sync, IInv, TaskInv
  <2>4. /\ Acknowledge /\ pc = "syncing" /\ file' = "durable" /\ synced' = Len(rows')
        /\ rows' = rows /\ rows \in Seq(Record \cup Cut) /\ Len(rows') <= MaxEvents
        /\ UNCHANGED <<encoding, before, life, failures>>
    BY <1>9, <2>1 DEF Sync, IInv, TypeOK
  <2>5. /\ OthersInv' /\ queue' \in Seq(Record) /\ shown' \in Seq(Record)
        /\ batch' = <<>> /\ cursor' = Len(rows') /\ materialized' = "yes"
        /\ pc' = "idle" /\ task' = "none"
    BY <2>1, <2>2, <2>3, <2>4, Acknowledged
  <2>6. TypeOK'
    BY <2>4, <2>5 DEF IInv, TypeOK
  <2> QED BY <1>0, <2>2, <2>5, <2>6
<1>10. ASSUME NEW fate \in RollbackFates, Rollback(fate) PROVE IInv'
  <2>1. fate = "undone"
    BY DEF RollbackHolds
  <2>2. before \in Len(shown)..Body /\ before <= Len(rows)
    BY <1>10 DEF Rollback, IInv, TypeOK, TaskInv, ShownInv, QueueInv, Body
  <2>3. /\ DamageIsLast' /\ ShownInv' /\ ~Torn'
        /\ rows' \in Seq(Record \cup Cut) /\ Len(rows') = before
    BY <1>10, <2>1, <2>2, RowsCutOff DEF Rollback
  <2>4. TypeOK'
    <3>1. /\ batch' = <<>> /\ pc' \in {"idle", "down"} /\ task' = "none"
          /\ synced' = before /\ UNCHANGED <<encoding, file, before, life, failures, shown>>
          /\ UNCHANGED memoryVars \/ Forget
      BY <1>10, <2>1 DEF Rollback
    <3>2. /\ batch' \in Seq(Record) /\ queue' \in Seq(Record)
          /\ cursor' \in 0..MaxEvents /\ materialized' \in {"no", "yes"}
      <4>1. /\ queue \in Seq(Record) /\ cursor \in 0..MaxEvents
            /\ materialized \in {"no", "yes"} /\ MaxEvents \in Nat
        BY BoundsAssumption DEF IInv, TypeOK
      <4>2. batch' \in Seq(Record)
        BY <3>1
      <4>3. CASE UNCHANGED memoryVars
        BY <4>1, <4>2, <4>3
      <4>4. CASE Forget
        BY <4>1, <4>2, <4>4
      <4> QED BY <3>1, <4>3, <4>4
    <3> QED BY <2>2, <2>3, <3>1, <3>2 DEF IInv, TypeOK
  <2>5. OthersInv'
    BY <1>10, <2>1, <2>2, <2>3
    DEF Rollback, IInv, TypeOK, FileInv, QueueInv, TaskInv
  <2> QED BY <1>0, <2>3, <2>4, <2>5
<1>11. CASE Load
  <2>1. /\ file = "durable" /\ task = "none" /\ queue = <<>> /\ batch = <<>>
        /\ materialized = "no" /\ cursor = 0 /\ synced = Len(rows)
        /\ UNCHANGED <<rows, queue, file, synced, life, failures, encoding>>
    BY <1>11 DEF Load, IInv, TypeOK, FileInv, QueueInv, TaskInv
  <2>2. CASE TruncateTo < Len(rows) \/ Repaired # <<>>
    <3>1. /\ task' = "repair" /\ batch' = Repaired /\ before' = TruncateTo
          /\ pc' = IF TruncateTo < Len(rows) THEN "truncating" ELSE "writing"
          /\ UNCHANGED <<cursor, materialized, shown>>
      BY <1>11, <2>2 DEF Load
    <3>2. UNCHANGED <<Torn, Body>>
      BY <2>1 DEF Torn, Body
    <3>3. TypeOK'
      BY <2>1, <3>1, RepairShape DEF IInv, TypeOK, Body
    <3>4. OthersInv'
      BY <2>1, <2>2, <3>1, <3>2, RepairShape
      DEF IInv, TypeOK, FileInv, QueueInv, TaskInv, Body
    <3> QED BY <1>0, <2>1, <3>1, <3>3, <3>4, RowsKept
  <2>3. CASE ~(TruncateTo < Len(rows) \/ Repaired # <<>>)
    <3>1. /\ cursor' = Len(rows) /\ materialized' = "yes" /\ shown' = rows
          /\ pc' = "idle" /\ UNCHANGED <<task, batch, before>>
      BY <1>11, <2>3 DEF Load
    <3>2. ~Torn /\ Body = Len(rows) /\ Len(rows) <= MaxEvents /\ Len(shown) <= Len(rows)
      BY <2>3, RepairShape DEF IInv, TypeOK, ShownInv, Body
    <3>3. rows = SubSeq(rows, 1, Len(rows)) /\ Len(rows) \in Len(shown)..Body
      BY <3>2 DEF IInv, TypeOK
    <3>4. DamageIsLast' /\ ShownInv' /\ ~Torn'
      BY <2>1, <3>1, <3>3, RowsCutOff
    <3>5. rows \in Seq(Record)
      BY <3>2, AllRecords DEF IInv, TypeOK, DamageIsLast, InOrder, Torn
    <3>6. TypeOK'
      BY <2>1, <3>1, <3>2, <3>5 DEF IInv, TypeOK
    <3>7. OthersInv'
      BY <2>1, <3>1, <3>2, <3>4, BoundsAssumption
      DEF IInv, TypeOK, FileInv, QueueInv, TaskInv
    <3> QED BY <1>0, <3>4, <3>6, <3>7
  <2> QED BY <2>2, <2>3
<1>12. CASE Truncate
  <2>1. /\ task = "repair" /\ file = "durable" /\ before \in Len(shown)..Body
        /\ before + Len(batch) <= MaxEvents /\ batch \in Seq(Record)
        /\ queue = <<>> /\ materialized = "no"
        /\ \A k \in 1..Len(batch) : batch[k].seq = before + k - 1
    BY <1>12 DEF Truncate, IInv, TypeOK, TaskInv, QueueInv, Body
  <2>2. shown' = shown \/ shown' = rows'
    BY <1>12 DEF Truncate, Acknowledge
  <2>3. /\ DamageIsLast' /\ ShownInv' /\ ~Torn'
        /\ rows' \in Seq(Record \cup Cut) /\ Len(rows') = before
    BY <1>12, <2>1, <2>2, RowsCutOff DEF Truncate
  <2>4. CASE batch # <<>>
    <3>1. TypeOK'
      BY <1>12, <2>1, <2>3, <2>4 DEF Truncate, IInv, TypeOK
    <3>2. OthersInv'
      BY <1>12, <2>1, <2>3, <2>4
      DEF Truncate, IInv, TypeOK, FileInv, QueueInv, TaskInv
    <3> QED BY <1>0, <2>3, <3>1, <3>2
  <2>5. CASE batch = <<>>
    <3>1. before <= MaxEvents
      BY <2>1, <2>5 DEF IInv, TypeOK
    <3>2. Acknowledge /\ synced' = before /\ file' = "durable"
      BY <1>12, <2>1, <2>5 DEF Truncate
    <3>3. OthersInv' /\ TypeOK'
      BY <1>12, <2>1, <2>3, <3>1, <3>2, Acknowledged DEF Truncate, IInv, TypeOK
    <3> QED BY <1>0, <2>3, <3>3
  <2> QED BY <2>4, <2>5
<1>13. CASE Crash
  <2>1. /\ pc' = "down" /\ queue' = <<>> /\ cursor' = 0 /\ materialized' = "no"
        /\ task' = "none" /\ batch' = <<>> /\ before' = 0 /\ life' = life + 1
        /\ life < MaxCrashes /\ UNCHANGED <<encoding, failures, shown>>
    BY <1>13 DEF Crash
  <2>2. ASSUME DamageIsLast', ShownInv', rows' \in Seq(Record \cup Cut),
               synced' = Len(rows'), file' \in {"absent", "durable"},
               file' = "absent" => rows' = <<>> /\ shown = <<>>
        PROVE  IInv'
    <3>1. TypeOK'
      BY <2>1, <2>2 DEF IInv, TypeOK
    <3>2. OthersInv'
      BY <2>1, <2>2, BoundsAssumption DEF FileInv, QueueInv, TaskInv
    <3> QED BY <1>0, <2>2, <3>1, <3>2
  <2>3. CASE file = "linked" /\ file' = "absent" /\ rows' = <<>> /\ synced' = 0
    <3>1. shown = <<>> /\ rows' = SubSeq(rows, 1, 0) /\ 0 \in Len(shown)..Body
      BY <2>3 DEF IInv, TypeOK, FileInv, ShownInv, Body
    <3> QED BY <2>1, <2>2, <2>3, <3>1, RowsCutOff
  <2>4. CASE /\ file' = IF file = "linked" THEN "durable" ELSE file
             /\ \E part \in Remains(SubSeq(rows, synced + 1, Len(rows))) :
                  rows' = SubSeq(rows, 1, synced) \o part
             /\ synced' = Len(rows')
    <3> DEFINE w == SubSeq(rows, synced + 1, Len(rows))
    <3>1. PICK part \in Remains(w) : rows' = SubSeq(rows, 1, synced) \o part
      BY <2>4
    <3>2. /\ rows \in Seq(Record \cup Cut) /\ synced \in 0..Len(rows)
          /\ before \in 0..Len(rows) /\ Body <= MaxEvents /\ MaxEvents \in Nat
          /\ life \in 0..MaxCrashes /\ Body \in 0..Len(rows)
      BY BoundsAssumption DEF IInv, TypeOK, ShownInv, Body
    <3>3. /\ w \in Seq(Record \cup Cut) /\ Len(w) = Len(rows) - synced
          /\ \A i \in 1..Len(w) : w[i] = rows[synced + i]
      BY <3>2
    <3> HIDE DEF w
    <3>4. CASE synced = Len(rows)
      <4>1. w = <<>> /\ part = <<>>
        BY <3>2, <3>3, <3>4 DEF Remains
      <4>2. rows' = rows
        BY <3>1, <3>2, <3>4, <4>1
      <4> QED BY <2>1, <2>2, <2>4, <3>2, <4>2, RowsKept DEF IInv, TypeOK, FileInv
    <3>5. CASE synced # Len(rows)
      <4>1. synced = before /\ before \in Len(shown)..Body /\ file = "durable"
        BY <3>2, <3>5 DEF IInv, TypeOK, FileInv, TaskInv, QueueInv, ShownInv
      <4>2. part \in Seq(Record \cup Cut)
        BY <3>2, <3>3, <4>1, RemainsIsCut
      <4>3. PICK n \in 0..Len(w) :
              /\ \A i \in 1..n : part[i] = w[i]
              /\ \/ Len(part) = n
                 \/ /\ Len(part) = n + 1 /\ w # <<>>
                    /\ part[n + 1].kind = "cut" /\ part[n + 1].seq = before
                    /\ n < Len(w) \/ w[Len(w)].kind # "cut"
        <5>1. w \in Seq(Record \cup Cut) /\ before \in 0..MaxEvents /\ life \in 0..MaxCrashes
          BY <3>2, <3>3, <4>1
        <5> QED BY <5>1, RemainsIsCut
      <4>4. ASSUME NEW c \in Nat, synced + c <= Body, c <= Len(part),
                   \A i \in 1..c : part[i] = w[i],
                   \/ Len(part) = c
                   \/ /\ Len(part) = c + 1 /\ part[c + 1].kind = "cut"
                      /\ part[c + 1].seq = synced
            PROVE  IInv'
        <5>1. \A i \in 1..c : part[i].kind # "cut" /\ part[i].seq = synced + i - 1
          <6> TAKE i \in 1..c
          <6>1. synced + i \in 1..Body /\ i \in 1..Len(w) /\ part[i] = rows[synced + i]
            <7>1. i \in Nat /\ i >= 1 /\ i <= c /\ synced \in Nat /\ Body \in Nat
                  /\ Len(rows) \in Nat /\ Body <= Len(rows)
              BY <3>2, <4>4
            <7>2. synced + i \in 1..Body
              BY <4>4, <7>1
            <7>3. Len(w) = Len(rows) - synced
              BY <3>3
            <7>4. i \in 1..Len(w)
              BY <7>1, <7>2, <7>3
            <7>5. part[i] = w[i] /\ w[i] = rows[synced + i]
              BY <3>3, <4>4, <7>4
            <7> QED BY <7>2, <7>4, <7>5
          <6>2. synced + i \in 1..Len(rows)
                /\ (synced + i = Len(rows) => rows[synced + i].kind # "cut")
            <7>1. Body = (IF Torn THEN Len(rows) - 1 ELSE Len(rows)) /\ Len(rows) \in Nat
              BY <3>2 DEF Body
            <7>2. CASE Torn
              <8>1. synced + i <= Len(rows) - 1 /\ synced + i \in 1..Len(rows)
                BY <6>1, <7>1, <7>2
              <8> QED BY <8>1, <7>1
            <7>3. CASE ~Torn
              BY <6>1, <7>1, <7>3 DEF Torn
            <7> QED BY <7>2, <7>3
          <6>3. InOrder(synced + i)
            <7>1. DamageIsLast
              BY DEF IInv
            <7> QED BY <6>2, <7>1 DEF DamageIsLast
          <6>4. rows[synced + i].kind # "cut" /\ rows[synced + i].seq = synced + i - 1
            <7>1. rows[synced + i].kind # "cut" /\ rows[synced + i].seq = (synced + i) - 1
              BY <6>3 DEF InOrder
            <7>2. (synced + i) - 1 = synced + i - 1
              BY <3>2
            <7> QED BY <7>1, <7>2
          <6>5. part[i] = rows[synced + i]
            BY <6>1
          <6> QED BY <6>4, <6>5, Zenon
        <5>2. synced \in Len(shown)..Body /\ synced + c <= MaxEvents
          BY <3>2, <4>1, <4>4
        <5>3. Continues(synced, part, c)
          BY <4>2, <4>4, <5>1, <5>2 DEF Continues
        <5>4. DamageIsLast' /\ ShownInv' /\ rows' \in Seq(Record \cup Cut)
          BY <2>1, <3>1, <5>2, <5>3, RowsWritten
        <5> QED BY <2>2, <2>4, <4>1, <5>4
      <4>5. CASE synced + n <= Body
        BY <3>2, <4>1, <4>3, <4>4, <4>5
      <4>6. CASE ~(synced + n <= Body)
        <5>1. n = Len(w) /\ Torn /\ synced + n = Len(rows) /\ n > 0
              /\ Body = Len(rows) - 1
          <6>1. Torn /\ Body = Len(rows) - 1
            BY <3>2, <3>3, <3>5, <4>3, <4>6 DEF Body
          <6> QED BY <3>2, <3>3, <3>5, <4>3, <4>6, <6>1
        <5>2. w[n].kind = "cut" /\ w[n].seq = before
          <6>1. n \in 1..Len(w) /\ w[n] = rows[Len(rows)]
            BY <3>2, <3>3, <5>1
          <6>2. rows[Len(rows)].kind = "cut"
            BY <5>1 DEF Torn
          <6>3. rows[Len(rows)].seq = before
            BY <3>2, <3>5, <4>1, <5>1 DEF IInv, TypeOK, FileInv, TaskInv
          <6> QED BY <6>1, <6>2, <6>3
        <5>3. Len(part) = n /\ part[n] = w[n]
          BY <4>3, <5>1, <5>2
        <5>4. n - 1 \in Nat /\ synced + (n - 1) <= Body /\ Len(part) = (n - 1) + 1
              /\ \A i \in 1..n - 1 : part[i] = w[i]
          BY <3>2, <4>3, <5>1, <5>3
        <5>5. PICK c \in Nat : c = n - 1
          BY <5>4
        <5>6. /\ synced + c <= Body /\ c <= Len(part) /\ Len(part) = c + 1
              /\ \A i \in 1..c : part[i] = w[i]
              /\ part[c + 1].kind = "cut" /\ part[c + 1].seq = synced
          BY <4>1, <5>2, <5>3, <5>4, <5>5
        <5> QED BY <4>4, <5>6
      <4> QED BY <4>5, <4>6
    <3> QED BY <3>4, <3>5
  <2> QED BY <1>13, <2>3, <2>4 DEF Crash
<1>14. CASE UNCHANGED vars
  <2>1. TypeOK' /\ OthersInv'
    BY <1>14 DEF vars, IInv, TypeOK, FileInv, QueueInv, TaskInv, Torn, Body
  <2> QED BY <1>0, <1>14, <2>1, RowsKept DEF vars
<1>15. CASE TruncateFails /\ rows' = SubSeq(rows, 1, before) /\ synced' = before
  <2>2. before \in Len(shown)..Body /\ before <= Len(rows)
    BY <1>15 DEF TruncateFails, IInv, TypeOK, TaskInv, ShownInv, QueueInv, Body
  <2>3. /\ DamageIsLast' /\ ShownInv' /\ ~Torn'
        /\ rows' \in Seq(Record \cup Cut) /\ Len(rows') = before
    BY <1>15, <2>2, RowsCutOff DEF TruncateFails
  <2>4. TypeOK'
    <3>1. /\ batch' = <<>> /\ pc' \in {"idle", "down"} /\ task' = "none"
          /\ synced' = before /\ UNCHANGED <<encoding, file, before, life, shown>>
          /\ UNCHANGED memoryVars \/ Forget
      BY <1>15 DEF TruncateFails
    <3>2. /\ batch' \in Seq(Record) /\ queue' \in Seq(Record)
          /\ cursor' \in 0..MaxEvents /\ materialized' \in {"no", "yes"}
      <4>1. /\ queue \in Seq(Record) /\ cursor \in 0..MaxEvents
            /\ materialized \in {"no", "yes"} /\ MaxEvents \in Nat
        BY BoundsAssumption DEF IInv, TypeOK
      <4>2. batch' \in Seq(Record)
        BY <3>1
      <4>3. CASE UNCHANGED memoryVars
        BY <4>1, <4>2, <4>3
      <4>4. CASE Forget
        BY <4>1, <4>2, <4>4
      <4> QED BY <3>1, <4>3, <4>4
    <3>3. failures' \in 0..MaxFailures
      BY <1>15 DEF TruncateFails, IInv, TypeOK
    <3> QED BY <2>2, <2>3, <3>1, <3>2, <3>3 DEF IInv, TypeOK
  <2>5. OthersInv'
    BY <1>15, <2>2, <2>3
    DEF TruncateFails, IInv, TypeOK, FileInv, QueueInv, TaskInv
  <2> QED BY <1>0, <2>3, <2>4, <2>5
<1> QED
  BY <1>1, <1>2, <1>3, <1>4, <1>5, <1>6, <1>7, <1>8, <1>9, <1>10, <1>11, <1>12,
     <1>13, <1>14, <1>15 DEF Next, TruncateFails

\* IInv is inductive: no step of any kind leaves it.
THEOREM FileIsSound == ASSUME RollbackHolds PROVE Spec => []IInv
<1>1. IInv /\ [Next]_vars => IInv'
  BY NextIInv
<1> QED BY <1>1, InitIInv, PTL DEF Spec

\* Whatever fails and whenever the process dies, only the last record of the
\* file can be damaged, and the records before it are numbered from zero.
THEOREM WellFormedAlways == ASSUME RollbackHolds PROVE Spec => []WellFormed
<1>1. IInv => WellFormed
  BY DEF IInv, WellFormed
<1> QED BY <1>1, FileIsSound, PTL
-----------------------------------------------------------------------------
(* The log implements StoredSession *)

StoredIsBody ==
  /\ Stored \in Seq(Record) /\ Len(Stored) = Body
  /\ \A i \in 1..Body : Stored[i] = rows[i]

\* A reader finds the decodable part.
LEMMA ReadersFindBody == IInv => StoredIsBody
<1> SUFFICES ASSUME IInv PROVE StoredIsBody
  OBVIOUS
<1>1. /\ Good = Body /\ Body \in 0..Len(rows) /\ rows \in Seq(Record \cup Cut)
      /\ file = "absent" => rows = <<>>
  BY GoodIsBody DEF IInv, TypeOK, FileInv
<1>2. Stored = SubSeq(rows, 1, Body)
  BY <1>1 DEF Stored, Prefix
<1>3. /\ Stored \in Seq(Record \cup Cut) /\ Len(Stored) = Body
      /\ \A i \in 1..Body : Stored[i] = rows[i]
  BY <1>1, <1>2
<1>4. \A i \in 1..Body : rows[i].kind # "cut"
  BY <1>1 DEF IInv, DamageIsLast, InOrder, Body, Torn
<1> QED BY <1>3, <1>4, AllRecords DEF StoredIsBody

\* A step that acknowledges nothing and leaves the common part of the old and
\* the new file alone extends what readers find, or drops a tail of it that
\* nobody acknowledged.
LEMMA TailsComeAndGo ==
  ASSUME IInv, IInv', UNCHANGED shown,
         \A i \in 1..Body : i <= Body' => rows'[i] = rows[i]
  PROVE  Promise!Next
<1>1. StoredIsBody /\ StoredIsBody'
  BY ReadersFindBody, PTL
<1>2. Len(shown) \in 0..Body' /\ Body \in Nat /\ Body' \in Nat
  <2>1. Len(shown)' = Len(shown) /\ Len(shown) \in Nat /\ Body \in Nat
    <3>1. shown' = shown /\ shown \in Seq(Record)
      BY DEF IInv, TypeOK
    <3>2. Body \in 0..Len(rows) /\ Len(rows) \in Nat
      BY GoodIsBody DEF IInv, TypeOK
    <3> QED BY <3>1, <3>2
  <2>2. Body' \in Nat
    BY <1>1 DEF StoredIsBody, IInv, TypeOK
  <2>3. ShownInv'
    BY DEF IInv
  <2>4. Len(shown)' <= Body'
    BY <2>3 DEF ShownInv
  <2> QED BY <2>1, <2>2, <2>4
<1>3. /\ Stored \in Seq(Record) /\ Len(Stored) = Body
      /\ Stored' \in Seq(Record) /\ Len(Stored') = Body'
      /\ \A i \in 1..Body : i <= Body' => Stored'[i] = Stored[i]
  BY <1>1, <1>2 DEF StoredIsBody
<1> HIDE DEF Stored, Body
<1>4. CASE Body' > Body
  <2>1. SubSeq(Stored', 1, Len(Stored)) = Stored
    BY <1>2, <1>3, <1>4
  <2>2. \A i \in Len(Stored) + 1..Len(Stored') : Stored'[i] \in Record
    BY <1>2, <1>3
  <2> QED BY <1>3, <1>4, <2>1, <2>2 DEF Promise!Next, Promise!Extend
<1>5. CASE Body' <= Body
  <2>1. Stored' = SubSeq(Stored, 1, Body')
    BY <1>2, <1>3, <1>5
  <2>2. Body' \in Len(shown)..Len(Stored)
    BY <1>2, <1>3, <1>5
  <2> QED BY <2>1, <2>2 DEF Promise!Next, Promise!Lose
<1> QED BY <1>2, <1>4, <1>5

\* A step that vouches for the whole file leaves what readers find alone.
LEMMA WholeFileAcknowledged ==
  ASSUME IInv, IInv', shown' = rows', Body <= Body',
         \A i \in 1..Body' : rows'[i] = rows[i], Body' <= Body
  PROVE  Promise!Next
<1>1. StoredIsBody /\ StoredIsBody'
  BY ReadersFindBody, PTL
<1>2. /\ Body \in Nat /\ Body' = Body /\ shown' \in Seq(Record)
      /\ Len(shown') = Body'
  <2>1. /\ shown' \in Seq(Record) /\ Len(shown') <= Body'
        /\ rows' \in Seq(Record \cup Cut)
    BY DEF IInv, TypeOK, ShownInv
  <2>2. (rows \in Seq(Record \cup Cut) => Body \in 0..Len(rows))'
    BY BodyInFile, PTL
  <2>3. Body' \in 0..Len(rows')
    BY <2>1, <2>2
  <2>4. Body \in Nat
    BY <1>1 DEF StoredIsBody
  <2> QED BY <2>1, <2>3, <2>4
<1>3. /\ Stored \in Seq(Record) /\ Len(Stored) = Body
      /\ Stored' \in Seq(Record) /\ Len(Stored') = Body
      /\ \A i \in 1..Body : Stored'[i] = rows'[i] /\ Stored[i] = rows'[i]
  BY <1>1, <1>2 DEF StoredIsBody
<1> HIDE DEF Stored, Body
<1>4. shown' = Stored /\ Stored' = Stored
  BY <1>2, <1>3
<1> QED BY <1>4 DEF Promise!Next, Promise!Acknowledge

\* Every step is a step of StoredSession.
LEMMA StepImplements ==
  IInv /\ IInv' /\ [Next]_vars => [Promise!Next]_(Promise!vars)
<1> SUFFICES ASSUME IInv, IInv', [Next]_vars PROVE Promise!Next
  OBVIOUS
<1> USE DEF fileVars, memoryVars, EndTask, GiveUp, Forget, Fails
<1>1. Body \in 0..Len(rows) /\ rows \in Seq(Record \cup Cut)
      /\ Body' \in 0..Len(rows') /\ Len(shown') <= Body'
  <2>1. Body \in 0..Len(rows) /\ rows \in Seq(Record \cup Cut)
    BY BodyInFile DEF IInv, TypeOK
  <2>2. /\ rows' \in Seq(Record \cup Cut) /\ Len(shown') <= Body'
        /\ shown' \in Seq(Record)
    BY DEF IInv, TypeOK, ShownInv
  <2>3. (rows \in Seq(Record \cup Cut) => Body \in 0..Len(rows))'
    BY BodyInFile, PTL
  <2> QED BY <2>1, <2>2, <2>3
<1>2. CASE UNCHANGED <<rows, shown>>
  BY <1>2, TailsComeAndGo
<1>3. CASE SyncDir \/ Sync \/ (Load /\ shown' # shown)
  <2>1. rows' = rows /\ shown' = rows
    BY <1>3 DEF SyncDir, Sync, Load, Acknowledge
  <2>2. Body' = Body
    BY <2>1 DEF Body, Torn
  <2> QED BY <1>1, <2>1, <2>2, WholeFileAcknowledged
<1>4. CASE Publish
  <2>1. rows = <<>> /\ UNCHANGED shown
    BY <1>4 DEF Publish, IInv, FileInv, TaskInv
  <2> QED BY <1>1, <2>1, TailsComeAndGo
<1>5. CASE Write \/ WriteFails
  <2>1. pc = "writing" /\ UNCHANGED shown
    BY <1>5 DEF Write, WriteFails
  <2>2. PICK part \in Seq(Record \cup Cut) : rows' = rows \o part
    <3>1. CASE Write
      BY <2>1, <3>1, BatchFits DEF Write
    <3>2. CASE WriteFails
      <4>1. PICK part \in Remains(batch) : rows' = rows \o part
        BY <3>2 DEF WriteFails
      <4>2. /\ before \in 0..MaxEvents /\ life \in 0..MaxCrashes
            /\ batch \in Seq(Record \cup Cut)
        <5>1. before = Body /\ Body <= MaxEvents
          BY <2>1, BatchFits DEF IInv, ShownInv
        <5> QED BY <1>1, <2>1, <5>1, BatchFits DEF IInv, TypeOK
      <4> QED BY <4>1, <4>2, RemainsIsCut
    <3> QED BY <1>5, <3>1, <3>2
  <2>3. \A i \in 1..Len(rows) : rows'[i] = rows[i]
    BY <1>1, <2>2
  <2> QED BY <1>1, <2>1, <2>3, TailsComeAndGo
<1>6. ASSUME TruncateFails \/ \E fate \in RollbackFates : Rollback(fate)
      PROVE  Promise!Next
  <2>1. UNCHANGED shown /\ (UNCHANGED rows \/ rows' = SubSeq(rows, 1, before))
    BY <1>6 DEF Rollback, TruncateFails
  <2>2. CASE rows' = SubSeq(rows, 1, before)
    <3>1. before \in 0..Len(rows)
      BY DEF IInv, TypeOK
    <3>2. Len(rows') = before /\ \A i \in 1..before : rows'[i] = rows[i]
      BY <1>1, <2>2, <3>1
    <3> QED BY <1>1, <2>1, <3>1, <3>2, TailsComeAndGo
  <2> QED BY <1>2, <2>1, <2>2
<1>7. CASE Truncate
  <2>1. /\ before \in 0..Body /\ rows' = SubSeq(rows, 1, before)
        /\ batch = <<>> => before = Body
    BY <1>1, <1>7 DEF Truncate, IInv, TypeOK, TaskInv
  <2>2. Len(rows') = before /\ \A i \in 1..before : rows'[i] = rows[i]
    BY <1>1, <2>1
  <2>3. CASE UNCHANGED shown
    BY <1>1, <2>1, <2>2, <2>3, TailsComeAndGo
  <2>4. CASE batch = <<>> /\ shown' = rows'
    <3>1. Body' = Body
      BY <1>1, <2>1, <2>2, <2>4
    <3> QED BY <1>1, <2>1, <2>2, <2>4, <3>1, WholeFileAcknowledged
  <2> QED BY <1>7, <2>3, <2>4 DEF Truncate, Acknowledge
<1>8. CASE Crash
  <2>1. UNCHANGED shown
    BY <1>8 DEF Crash
  <2>2. CASE rows' = <<>>
    BY <1>1, <2>1, <2>2, TailsComeAndGo
  <2>3. ASSUME NEW part \in Remains(SubSeq(rows, synced + 1, Len(rows))),
               rows' = SubSeq(rows, 1, synced) \o part
        PROVE  Promise!Next
    <3> DEFINE w == SubSeq(rows, synced + 1, Len(rows))
               head == SubSeq(rows, 1, synced)
    <3>1. synced \in 0..Len(rows) /\ life \in 0..MaxCrashes /\ before \in 0..Len(rows)
      BY DEF IInv, TypeOK
    <3>2. /\ w \in Seq(Record \cup Cut) /\ Len(w) = Len(rows) - synced
          /\ \A i \in 1..Len(w) : w[i] = rows[synced + i]
      BY <1>1, <3>1
    <3>3. /\ head \in Seq(Record \cup Cut) /\ Len(head) = synced
          /\ \A i \in 1..synced : head[i] = rows[i]
      BY <1>1, <3>1
    <3>4. part \in Remains(w) /\ rows' = head \o part
      BY <2>3
    <3> HIDE DEF w, head
    <3>5. CASE synced = Len(rows)
      <4>1. w = <<>> /\ part = <<>>
        BY <1>1, <3>1, <3>2, <3>4, <3>5 DEF Remains
      <4>2. rows' = rows
        BY <1>1, <3>1, <3>3, <3>4, <3>5, <4>1
      <4> QED BY <1>2, <2>1, <4>2
    <3>6. CASE synced # Len(rows)
      <4>1. before \in 0..MaxEvents
        BY <1>1, <3>1, <3>6, BoundsAssumption DEF IInv, FileInv, TaskInv, ShownInv
      <4>2. part \in Seq(Record \cup Cut)
        BY <3>1, <3>2, <3>4, <4>1, RemainsIsCut
      <4>3. PICK n \in 0..Len(w) :
              /\ \A i \in 1..n : part[i] = w[i]
              /\ \/ Len(part) = n
                 \/ /\ Len(part) = n + 1 /\ w # <<>>
                    /\ part[n + 1].kind = "cut" /\ part[n + 1].seq = before
                    /\ n < Len(w) \/ w[Len(w)].kind # "cut"
        BY <3>1, <3>2, <3>4, <4>1, RemainsIsCut
      <4>4. /\ Len(rows') = synced + Len(part)
            /\ \A i \in 1..synced : rows'[i] = rows[i]
            /\ \A i \in synced + 1..synced + Len(part) : rows'[i] = part[i - synced]
        <5>1. Len(head) = synced /\ synced \in Nat /\ Len(part) \in Nat
          BY <3>1, <3>3, <4>2
        <5>2. /\ Len(rows') = Len(head) + Len(part)
              /\ \A i \in 1..Len(head) + Len(part) :
                   rows'[i] = IF i <= Len(head) THEN head[i] ELSE part[i - Len(head)]
          <6>1. /\ Len(head \o part) = Len(head) + Len(part)
                /\ \A i \in 1..Len(head) + Len(part) :
                     (head \o part)[i] = IF i <= Len(head) THEN head[i]
                                         ELSE part[i - Len(head)]
            BY <3>3, <4>2, ConcatProperties
          <6> QED BY <3>4, <6>1
        <5>3. Len(rows') = synced + Len(part)
          BY <5>1, <5>2
        <5>4. ASSUME NEW i \in 1..synced + Len(part)
              PROVE  rows'[i] = IF i <= synced THEN head[i] ELSE part[i - synced]
          BY <5>1, <5>2
        <5>5. ASSUME NEW i \in 1..synced PROVE rows'[i] = rows[i]
          BY <3>3, <5>1, <5>4
        <5>6. ASSUME NEW i \in synced + 1..synced + Len(part)
              PROVE  rows'[i] = part[i - synced]
          BY <5>1, <5>4
        <5> QED BY <5>3, <5>5, <5>6
      <4>5. Body' <= synced + n
        <5>1. synced \in Nat /\ n \in Nat /\ Len(part) \in Nat
              /\ Len(rows') = synced + Len(part)
          BY <3>1, <3>2, <4>2, <4>4
        <5>2. CASE Len(part) = n
          BY <5>1, <5>2 DEF Body
        <5>3. CASE Len(part) = n + 1 /\ part[n + 1].kind = "cut"
          <6>1. Len(rows') \in synced + 1..synced + Len(part) /\ Len(rows') - synced = n + 1
            BY <5>1, <5>3
          <6>2. rows'[Len(rows')].kind = "cut"
            BY <4>4, <5>3, <6>1
          <6>3. Torn'
            BY <5>1, <6>1, <6>2 DEF Torn
          <6> QED BY <5>1, <5>3, <6>3 DEF Body
        <5> QED BY <4>3, <5>2, <5>3
      <4>6. \A i \in 1..synced + n : rows'[i] = rows[i]
        <5> TAKE i \in 1..synced + n
        <5>1. CASE i <= synced
          BY <3>1, <4>4, <5>1
        <5>2. CASE i > synced
          <6>1. i - synced \in 1..n /\ n <= Len(part) /\ n <= Len(w)
            BY <3>1, <3>2, <4>2, <4>3, <5>2
          <6>2. rows'[i] = part[i - synced] /\ part[i - synced] = w[i - synced]
            BY <3>1, <4>2, <4>3, <4>4, <5>2, <6>1
          <6>3. w[i - synced] = rows[synced + (i - synced)]
            <7>1. i - synced \in 1..Len(w)
              BY <3>2, <6>1
            <7> QED BY <3>2, <7>1
          <6> QED BY <3>1, <6>2, <6>3
        <5> QED BY <3>1, <5>1, <5>2
      <4> QED BY <1>1, <2>1, <3>1, <4>3, <4>5, <4>6, TailsComeAndGo
    <3> QED BY <3>5, <3>6
  <2> QED BY <1>8, <2>2, <2>3 DEF Crash
<1> QED
  BY <1>2, <1>3, <1>4, <1>5, <1>6, <1>7, <1>8
  DEF Next, Emit, Create, BeginAppend, PublishFails, SyncDirFails, SyncFails,
      OpenFails, Load, vars

\* What an append or a load has acknowledged stays a prefix of what readers
\* find: JsonlLog implements StoredSession.
THEOREM LogKeepsItsPromise ==
  ASSUME RollbackHolds PROVE Spec => ImplementsStoredSession
<1>1. Init => Promise!Init
  BY DEF Init, Promise!Init, Stored
<1> QED BY <1>1, FileIsSound, StepImplements, PTL
        DEF Spec, ImplementsStoredSession, Promise!Spec

\* Under the same hypothesis, what appendBatch says of itself holds: once it
\* has returned, a reader finds the batch.  Only a rollback that fails (the
\* run jsonl_rollback) can break it.
THEOREM AppendsAreDurable == ASSUME RollbackHolds PROVE Spec => []AppendIsDurable
<1>1. IInv => AppendIsDurable
  <2> SUFFICES ASSUME IInv PROVE AppendIsDurable
    OBVIOUS
  <2>1. StoredIsBody
    BY ReadersFindBody
  <2>2. shown \in Seq(Record) /\ Len(shown) <= Body
        /\ \A i \in 1..Len(shown) : shown[i] = rows[i]
    BY DEF IInv, TypeOK, ShownInv
  <2>3. /\ Stored \in Seq(Record) /\ Len(shown) <= Len(Stored)
        /\ \A i \in 1..Len(shown) : shown[i] = Stored[i]
    BY <2>1, <2>2 DEF StoredIsBody
  <2> HIDE DEF Stored
  <2> QED BY <2>2, <2>3 DEF AppendIsDurable
<1> QED BY <1>1, FileIsSound, PTL
=============================================================================
