-------------------------- MODULE JobRegistryProofs --------------------------
(***************************************************************************)
(* Proofs about JobRegistry for any jobs, owners and callers, any outcomes *)
(* and any limit.                                                          *)
(***************************************************************************)
EXTENDS JobRegistry, FiniteSetTheorems, TLAPS

\* The waits a record counts.
Counting(j) == { c \in Caller : wait[c].job = j /\ wait[c].counted = "yes" }

\* A wait counts until it is rejected, and only for a job that was started.
WaitInv ==
  \A c \in Caller :
    wait[c] # NoWait => /\ wait[c].counted = "yes" <=> wait[c].step # "rejected"
                        /\ job[wait[c].job].status # "unborn"

\* Before its settlement a record is reported exactly when a kill or a teardown
\* has claimed it, and the job of an owner being torn down is claimed.
JobInv ==
  \A j \in Job :
    /\ job[j].status = "unborn" => job[j] = NoJob /\ producer[j].step = "none"
    /\ producer[j].step = "done" => producer[j].outcome \in Terminal
    /\ ~IsTerminal(j) => /\ told[j] \subseteq {"claim"}
                         /\ job[j].reported = "yes" <=> "claim" \in told[j]
    /\ job[j].status \in Active =>
         /\ job[j].stored = "yes"
         /\ OwnerOf[j] # Nobody /\ owner[OwnerOf[j]] # "live" =>
              job[j].reported = "yes"

Announced(j) == {"notice", "unheard"} \cap told[j] # {}

\* A settled job has been told of, or a wait is owed its outcome.  One that was
\* announced is settled, no wait counts for it any more and none was answered in
\* place of the announcement.
ReportInv ==
  \A j \in Job :
    /\ IsTerminal(j) => told[j] # {} \/ Owed(j)
    /\ Announced(j) => /\ IsTerminal(j) /\ job[j].waiters = 0
                       /\ {"awaited", "claim"} \cap told[j] = {}
    /\ ~({"notice", "unheard"} \subseteq told[j])

\* The inductive invariant.
IInv == TypeOK /\ WaitInv /\ JobInv /\ ReportInv

Types ==
  /\ job \in [Job -> JobRecord] /\ producer \in [Job -> Producer]
  /\ wait \in [Caller -> Wait \cup {NoWait}]
  /\ owner \in [Owner -> {"live", "disposing", "disposed"}]
  /\ service \in {"up", "closing", "down"}
  /\ controller \in {"attached", "detached"} /\ reloads \in 0..MaxReloads
  /\ told \in [Job -> SUBSET {"notice", "awaited", "answer", "claim", "unheard"}]

Counts == \A j \in Job : job[j].waiters = Cardinality(Counting(j))
-----------------------------------------------------------------------------
(* Lemmas *)

\* TypeOK in two parts.
LEMMA TypeParts == TypeOK <=> Types /\ Counts
  BY DEF TypeOK, Types, Counts, Counting

\* There are so many callers.
LEMMA CallersCounted == Cardinality(Caller) \in Nat
  BY FS_CardinalityType, RegistryAssumption

\* A record with some field changed is a record.
LEMMA RecordFields ==
  ASSUME NEW r \in JobRecord
  PROVE  /\ \A status \in Active \cup Terminal :
              /\ [r EXCEPT !.status = status] \in JobRecord
              /\ Outcome(r, status) \in JobRecord
              /\ Outcome(r, status).status = status
              /\ Outcome(r, status).reported =
                   IF r.waiters > 0 THEN "yes" ELSE r.reported
              /\ Outcome(r, status).waiters = r.waiters
              /\ Outcome(r, status).stored = r.stored
         /\ [r EXCEPT !.reported = "yes"] \in JobRecord
         /\ [r EXCEPT !.stored = "no"] \in JobRecord
         /\ \A n \in 0..Cardinality(Caller) : [r EXCEPT !.waiters = n] \in JobRecord
         /\ NoJob \in JobRecord
<1>1. Cardinality(Caller) \in Nat
  BY CallersCounted
<1>2. NoJob \in JobRecord
  BY <1>1 DEF JobRecord, NoJob
<1>3. ASSUME NEW status \in Active \cup Terminal
      PROVE  /\ [r EXCEPT !.status = status] \in JobRecord
             /\ Outcome(r, status) \in JobRecord
             /\ Outcome(r, status).status = status
             /\ Outcome(r, status).reported =
                  IF r.waiters > 0 THEN "yes" ELSE r.reported
             /\ Outcome(r, status).waiters = r.waiters
             /\ Outcome(r, status).stored = r.stored
  BY DEF JobRecord, Outcome
<1>4. /\ [r EXCEPT !.reported = "yes"] \in JobRecord
      /\ [r EXCEPT !.stored = "no"] \in JobRecord
  BY DEF JobRecord
<1>5. \A n \in 0..Cardinality(Caller) : [r EXCEPT !.waiters = n] \in JobRecord
  BY DEF JobRecord
<1> QED BY <1>2, <1>3, <1>4, <1>5

\* The counts stay right while no wait starts or stops to count.
LEMMA CountsKept ==
  ASSUME Counts, \A j \in Job : job'[j].waiters = job[j].waiters,
         \A c \in Caller : /\ wait'[c].job = wait[c].job
                           /\ wait'[c].counted = wait[c].counted
  PROVE  Counts'
<1>1. \A j \in Job : Counting(j)' = Counting(j)
  BY DEF Counting
<1> QED BY <1>1 DEF Counts

\* A wait is the empty one or names a job.
LEMMA WaitFields ==
  ASSUME NEW w \in Wait \cup {NoWait}
  PROVE  /\ w = NoWait <=> w.step = "idle"
         /\ w # NoWait => w \in Wait /\ w.job \in Job
         /\ w \in Wait => \A step \in {"waiting", "released", "expired", "rejected"},
                             counted \in {"no", "yes"} :
                            /\ [w EXCEPT !.step = step] \in Wait
                            /\ [w EXCEPT !.step = step, !.counted = counted] \in Wait
<1>1. w = NoWait <=> w.step = "idle"
  BY DEF Wait, NoWait
<1>2. w # NoWait => w \in Wait /\ w.job \in Job
  BY DEF Wait
<1>3. ASSUME w \in Wait, NEW step \in {"waiting", "released", "expired", "rejected"},
             NEW counted \in {"no", "yes"}
      PROVE  /\ [w EXCEPT !.step = step] \in Wait
             /\ [w EXCEPT !.step = step, !.counted = counted] \in Wait
  BY <1>3 DEF Wait
<1> QED BY <1>1, <1>2, <1>3

\* Releasing the waits for some jobs changes nothing but their step.
LEMMA ReleasedFacts ==
  ASSUME Types, NEW js \in SUBSET Job, wait' = ReleasedFrom(js)
  PROVE  /\ wait' \in [Caller -> Wait \cup {NoWait}]
         /\ \A c \in Caller :
              /\ wait'[c].job = wait[c].job /\ wait'[c].counted = wait[c].counted
              /\ wait'[c] = NoWait <=> wait[c] = NoWait
              /\ \/ wait'[c].step = wait[c].step
                 \/ wait[c].step = "waiting" /\ wait'[c].step = "released"
              /\ wait[c].job \in js => wait'[c].step # "waiting"
         /\ \A j \in Job : Owed(j) => Owed(j)'
<1>1. ASSUME NEW c \in Caller
      PROVE  /\ wait'[c] \in Wait \cup {NoWait}
             /\ wait'[c].job = wait[c].job /\ wait'[c].counted = wait[c].counted
             /\ wait'[c] = NoWait <=> wait[c] = NoWait
             /\ \/ wait'[c].step = wait[c].step
                \/ wait[c].step = "waiting" /\ wait'[c].step = "released"
             /\ wait[c].job \in js => wait'[c].step # "waiting"
  <2>1. wait[c] \in Wait \cup {NoWait}
    BY DEF Types
  <2>2. CASE \E j \in js : c \in Waiting(j)
    <3>1. wait'[c] = [wait[c] EXCEPT !.step = "released"] /\ wait[c].step = "waiting"
      BY <2>2 DEF ReleasedFrom, Waiting
    <3>2. wait[c] \in Wait
      BY <2>1, <3>1, WaitFields DEF NoWait
    <3> QED BY <3>1, <3>2 DEF Wait, NoWait
  <2>3. CASE ~(\E j \in js : c \in Waiting(j))
    BY <2>1, <2>3 DEF ReleasedFrom, Waiting
  <2> QED BY <2>2, <2>3
<1>2. \A j \in Job : Owed(j) => Owed(j)'
  BY <1>1 DEF Owed
<1>3. wait' \in [Caller -> Wait \cup {NoWait}]
  BY <1>1 DEF ReleasedFrom
<1> QED BY <1>1, <1>2, <1>3

\* What holds of the waits stays true while their jobs stay started.
LEMMA WaitsKept ==
  ASSUME WaitInv,
         \A c \in Caller : /\ wait'[c].job = wait[c].job
                           /\ wait'[c].counted = wait[c].counted
                           /\ wait'[c] = NoWait <=> wait[c] = NoWait
                           /\ wait'[c].step = "rejected" <=> wait[c].step = "rejected",
         \A j \in Job : job[j].status # "unborn" => job'[j].status # "unborn",
         Types
  PROVE  WaitInv'
  BY WaitFields DEF WaitInv, Types

\* Whoever waits and counts when a job settles is owed its outcome.
LEMMA CountedIsOwed ==
  ASSUME IInv, NEW j \in Job, job[j].waiters > 0,
         wait' \in [Caller -> Wait \cup {NoWait}],
         \A c \in Caller : /\ wait'[c].job = wait[c].job
                           /\ wait'[c].counted = wait[c].counted
                           /\ wait'[c] = NoWait <=> wait[c] = NoWait
                           /\ wait'[c].step = "rejected" <=> wait[c].step = "rejected"
                           /\ wait[c].job = j => wait'[c].step # "waiting"
  PROVE  Owed(j)'
<1>1. Counting(j) # {}
  <2>1. job[j].waiters = Cardinality(Counting(j))
    BY TypeParts DEF IInv, Counts
  <2> SUFFICES ASSUME Counting(j) = {} PROVE FALSE
    OBVIOUS
  <2>2. Cardinality(Counting(j)) = 0
    BY FS_EmptySet
  <2> QED BY <2>1, <2>2
<1>2. PICK c \in Caller : wait[c].job = j /\ wait[c].counted = "yes"
  BY <1>1 DEF Counting
<1>3. wait[c] # NoWait
  BY <1>2 DEF NoWait
<1>4. wait'[c] \in Wait /\ wait'[c].step \notin {"waiting", "rejected"}
  BY <1>2, <1>3, WaitFields DEF IInv, WaitInv
<1> QED BY <1>2, <1>4 DEF Owed, Wait

\* cancelForTeardown, of an owner's or of all stored jobs: each that was not
\* settled is claimed, and asked or forced to fail.
LEMMA TeardownKeeps ==
  ASSUME IInv, NEW js \in SUBSET { j \in Job : job[j].stored = "yes" },
         NEW listeners \in BOOLEAN, CancelForTeardown(js, listeners),
         \A j \in Job : \/ j \in js \/ job[j].stored = "no" \/ OwnerOf[j] = Nobody
                        \/ owner'[OwnerOf[j]] = owner[OwnerOf[j]]
  PROVE  /\ job' \in [Job -> JobRecord] /\ producer' \in [Job -> Producer]
         /\ wait' \in [Caller -> Wait \cup {NoWait}]
         /\ told' \in [Job -> SUBSET {"notice", "awaited", "answer", "claim", "unheard"}]
         /\ Counts' /\ WaitInv' /\ JobInv' /\ ReportInv'
         /\ \A j \in Job : /\ IsTerminal(j) => job'[j] = job[j]
                           /\ told'[j] \ told[j] \subseteq {"claim"}
<1> DEFINE live == { j \in js : ~IsTerminal(j) }
<1>1. PICK thrown \in SUBSET live :
        LET r == [j \in live |-> Claimed(job[j])] IN
        /\ job' = [j \in Job |->
             IF j \in thrown THEN Forced(r[j])
             ELSE IF j \in live THEN [r[j] EXCEPT !.status = "stopping"] ELSE job[j]]
        /\ producer' = [j \in Job |->
             IF j \in live \ thrown THEN Asked(producer[j]) ELSE producer[j]]
        /\ wait' = ReleasedFrom(thrown)
        /\ told' = [j \in Job |->
             told[j] \cup (IF j \in live THEN {"claim"} ELSE {})
                     \cup (IF j \in thrown /\ listeners
                           THEN Heard(j, Forced(r[j])) ELSE {})]
  BY DEF CancelForTeardown
<1>2. Types /\ Counts
  BY TypeParts DEF IInv
<1>3. \A j \in live : j \in Job /\ job[j].stored = "yes" /\ job[j].status \in Active
  BY <1>2 DEF Types, JobRecord, IsTerminal, IInv, JobInv, NoJob
<1>4. ASSUME NEW j \in live
      PROVE  /\ Claimed(job[j]) \in JobRecord /\ Claimed(job[j]).reported = "yes"
             /\ Claimed(job[j]).waiters = job[j].waiters
             /\ Claimed(job[j]).stored = "yes"
  BY <1>2, <1>3 DEF Types, Claimed, JobRecord
<1>5. ASSUME NEW j \in live
      PROVE  /\ Forced(Claimed(job[j])) \in JobRecord
             /\ Forced(Claimed(job[j])).status = "failed"
             /\ Forced(Claimed(job[j])).reported = "yes"
             /\ Forced(Claimed(job[j])).waiters = job[j].waiters
             /\ Forced(Claimed(job[j])).stored = "yes"
             /\ [Claimed(job[j]) EXCEPT !.status = "stopping"] \in JobRecord
             /\ [Claimed(job[j]) EXCEPT !.status = "stopping"].status = "stopping"
             /\ [Claimed(job[j]) EXCEPT !.status = "stopping"].reported = "yes"
             /\ [Claimed(job[j]) EXCEPT !.status = "stopping"].waiters = job[j].waiters
             /\ [Claimed(job[j]) EXCEPT !.status = "stopping"].stored = "yes"
  <2>1. "failed" \in Terminal /\ "stopping" \in Active
    BY DEF Terminal, Active
  <2>2. Forced(Claimed(job[j])) = Outcome(Claimed(job[j]), "failed")
    BY DEF Forced
  <2>3. /\ Forced(Claimed(job[j])) \in JobRecord
        /\ Forced(Claimed(job[j])).status = "failed"
        /\ Forced(Claimed(job[j])).reported = "yes"
        /\ Forced(Claimed(job[j])).waiters = job[j].waiters
        /\ Forced(Claimed(job[j])).stored = "yes"
    <3> DEFINE r == Claimed(job[j])
    <3>1. r \in JobRecord /\ "failed" \in Active \cup Terminal
      BY <1>4, <2>1
    <3> HIDE DEF r
    <3>2. /\ Outcome(r, "failed") \in JobRecord /\ Outcome(r, "failed").status = "failed"
          /\ Outcome(r, "failed").reported = IF r.waiters > 0 THEN "yes" ELSE r.reported
          /\ Outcome(r, "failed").waiters = r.waiters
          /\ Outcome(r, "failed").stored = r.stored
      BY <3>1, RecordFields
    <3> QED BY <1>4, <2>2, <3>2 DEF r
  <2> QED BY <1>4, <2>3 DEF JobRecord, Active
<1>6. ASSUME NEW j \in Job
      PROVE  /\ job'[j] \in JobRecord /\ job'[j].waiters = job[j].waiters
             /\ job'[j].stored = job[j].stored
             /\ j \notin live => job'[j] = job[j] /\ told'[j] = told[j]
             /\ j \in live => /\ job'[j].status \in {"stopping", "failed"}
                              /\ job'[j].reported = "yes"
                              /\ told'[j] = told[j] \cup {"claim"}
  <2>1. CASE j \in thrown
    <3>1. job'[j] = Forced(Claimed(job[j])) /\ j \in live
      BY <1>1, <2>1
    <3>2. Heard(j, Forced(Claimed(job[j]))) = {}
      BY <1>5, <3>1 DEF Heard
    <3>3. told'[j] = told[j] \cup {"claim"}
      BY <1>1, <3>1, <3>2
    <3> QED BY <1>3, <1>5, <3>1, <3>3
  <2>2. CASE j \in live \ thrown
    <3>1. job'[j] = [Claimed(job[j]) EXCEPT !.status = "stopping"]
      BY <1>1, <2>2
    <3>2. told'[j] = told[j] \cup {"claim"}
      BY <1>1, <2>2
    <3> QED BY <1>3, <1>5, <2>2, <3>1, <3>2
  <2>3. CASE j \notin live
    <3>1. job'[j] = job[j] /\ told'[j] = told[j]
      BY <1>1, <2>3
    <3> QED BY <1>2, <2>3, <3>1 DEF Types
  <2> QED BY <2>1, <2>2, <2>3
<1>7. ASSUME NEW j \in Job
      PROVE  /\ producer'[j] \in Producer
             /\ producer'[j].step = "done" => producer'[j] = producer[j]
             /\ producer[j].step = "none" => producer'[j].step = "none"
  <2>1. producer'[j] \in {producer[j], Asked(producer[j])} /\ producer[j] \in Producer
    BY <1>1, <1>2 DEF Types
  <2> QED BY <2>1 DEF Asked, Producer
<1>8. thrown \in SUBSET Job /\ wait' = ReleasedFrom(thrown)
  BY <1>1, <1>3
<1>9. /\ wait' \in [Caller -> Wait \cup {NoWait}]
      /\ \A c \in Caller :
           /\ wait'[c].job = wait[c].job /\ wait'[c].counted = wait[c].counted
           /\ wait'[c] = NoWait <=> wait[c] = NoWait
           /\ wait'[c].step = "rejected" <=> wait[c].step = "rejected"
      /\ \A j \in Job : Owed(j) => Owed(j)'
  BY <1>2, <1>8, ReleasedFacts
<1> HIDE DEF live
<1>10. /\ job' \in [Job -> JobRecord] /\ producer' \in [Job -> Producer]
       /\ told' \in [Job -> SUBSET {"notice", "awaited", "answer", "claim", "unheard"}]
  <2>1. job' \in [Job -> JobRecord] /\ producer' \in [Job -> Producer]
    BY <1>1, <1>6, <1>7
  <2>2. \A j \in Job : told'[j] \subseteq {"notice", "awaited", "answer", "claim", "unheard"}
    BY <1>2, <1>6 DEF Types
  <2> QED BY <1>1, <2>1, <2>2
<1>11. Counts'
  BY <1>2, <1>6, <1>9, CountsKept
<1>12. WaitInv'
  <2>1. \A j \in Job : job[j].status # "unborn" => job'[j].status # "unborn"
    BY <1>6
  <2> QED BY <1>2, <1>9, <2>1, WaitsKept DEF IInv
<1>13. JobInv'
  <2> SUFFICES ASSUME NEW j \in Job
               PROVE  /\ job'[j].status = "unborn" => job'[j] = NoJob /\ producer'[j].step = "none"
                      /\ producer'[j].step = "done" => producer'[j].outcome \in Terminal
                      /\ ~IsTerminal(j)' => /\ told'[j] \subseteq {"claim"}
                                            /\ job'[j].reported = "yes" <=> "claim" \in told'[j]
                      /\ job'[j].status \in Active =>
                           /\ job'[j].stored = "yes"
                           /\ OwnerOf[j] # Nobody /\ owner'[OwnerOf[j]] # "live" =>
                                job'[j].reported = "yes"
    BY DEF JobInv
  <2>1. CASE j \in live
    <3>1. told[j] \subseteq {"claim"} /\ job[j].stored = "yes"
      BY <1>3, <2>1 DEF IInv, JobInv, live
    <3> QED BY <1>6, <1>7, <2>1, <3>1 DEF IInv, JobInv
  <2>2. CASE j \notin live
    <3>1. job'[j] = job[j] /\ told'[j] = told[j] /\ (IsTerminal(j)' <=> IsTerminal(j))
      BY <1>6, <2>2 DEF IsTerminal
    <3>2. job[j].status \in Active => j \notin js
      BY <2>2 DEF live, IsTerminal, Active, Terminal
    <3>3. job[j].status \in Active /\ OwnerOf[j] # Nobody =>
            owner'[OwnerOf[j]] = owner[OwnerOf[j]]
      BY <3>2 DEF IInv, JobInv
    <3> QED BY <1>7, <3>1, <3>3 DEF IInv, JobInv
  <2> QED BY <2>1, <2>2
<1>14. ReportInv'
  <2> SUFFICES ASSUME NEW j \in Job
               PROVE  /\ IsTerminal(j)' => told'[j] # {} \/ Owed(j)'
                      /\ Announced(j)' => /\ IsTerminal(j)' /\ job'[j].waiters = 0
                                          /\ {"awaited", "claim"} \cap told'[j] = {}
                      /\ ~({"notice", "unheard"} \subseteq told'[j])
    BY DEF ReportInv
  <2>1. CASE j \in live
    <3>1. told[j] \subseteq {"claim"}
      BY <1>3, <2>1 DEF IInv, JobInv, live
    <3> QED BY <1>6, <2>1, <3>1 DEF Announced
  <2>2. CASE j \notin live
    <3>1. told'[j] = told[j] /\ job'[j] = job[j] /\ (IsTerminal(j)' <=> IsTerminal(j))
      BY <1>6, <2>2 DEF IsTerminal
    <3> QED BY <1>9, <3>1 DEF IInv, ReportInv, Announced
  <2> QED BY <2>1, <2>2
<1>15. \A j \in Job : /\ IsTerminal(j) => job'[j] = job[j]
                      /\ told'[j] \ told[j] \subseteq {"claim"}
  BY <1>6 DEF live
<1> QED BY <1>9, <1>10, <1>11, <1>12, <1>13, <1>14, <1>15

\* One more wait counts.
LEMMA CountedMore ==
  ASSUME Types, Counts, NEW c \in Caller, NEW j \in Job,
         wait[c].counted = "no",
         wait'[c].job = j, wait'[c].counted = "yes",
         \A d \in Caller \ {c} : wait'[d] = wait[d]
  PROVE  /\ Cardinality(Counting(j)') = job[j].waiters + 1
         /\ job[j].waiters + 1 \in 0..Cardinality(Caller)
         /\ \A i \in Job \ {j} : Cardinality(Counting(i)') = job[i].waiters
<1>1. Counting(j)' = Counting(j) \cup {c} /\ c \notin Counting(j)
  BY DEF Counting
<1>2. /\ IsFiniteSet(Counting(j)) /\ Counting(j)' \in SUBSET Caller
      /\ Counting(j) \in SUBSET Caller
  BY FS_Subset, RegistryAssumption DEF Counting
<1>3. Cardinality(Counting(j)') = Cardinality(Counting(j)) + 1
  BY <1>1, <1>2, FS_AddElement
<1>4. Cardinality(Counting(j)') <= Cardinality(Caller) /\ Cardinality(Caller) \in Nat
  BY <1>2, FS_Subset, FS_CardinalityType, RegistryAssumption
<1>5. job[j].waiters = Cardinality(Counting(j)) /\ job[j].waiters \in Nat
  BY DEF Counts, Types, JobRecord
<1>6. \A i \in Job \ {j} : Counting(i)' = Counting(i)
  BY DEF Counting
<1>7. \A i \in Job \ {j} : Cardinality(Counting(i)') = job[i].waiters
  BY <1>6 DEF Counts
<1> QED BY <1>3, <1>4, <1>5, <1>7

\* One wait less counts.
LEMMA CountedLess ==
  ASSUME Types, Counts, NEW c \in Caller, NEW j \in Job,
         wait[c].job = j, wait[c].counted = "yes", wait'[c].counted = "no",
         \A d \in Caller \ {c} : wait'[d] = wait[d]
  PROVE  /\ Cardinality(Counting(j)') = job[j].waiters - 1
         /\ job[j].waiters - 1 \in 0..Cardinality(Caller)
         /\ \A i \in Job \ {j} : Cardinality(Counting(i)') = job[i].waiters
<1>1. Counting(j)' = Counting(j) \ {c} /\ c \in Counting(j)
  BY DEF Counting
<1>2. IsFiniteSet(Counting(j))
  BY FS_Subset, RegistryAssumption DEF Counting
<1>3. Cardinality(Counting(j)') = Cardinality(Counting(j)) - 1
  BY <1>1, <1>2, FS_RemoveElement
<1>4. Cardinality(Counting(j)') \in Nat /\ Cardinality(Caller) \in Nat
  BY <1>1, <1>2, FS_RemoveElement, FS_CardinalityType, RegistryAssumption
<1>5. /\ job[j].waiters = Cardinality(Counting(j))
      /\ job[j].waiters \in 0..Cardinality(Caller)
  BY DEF Counts, Types, JobRecord
<1>6. \A i \in Job \ {j} : Counting(i)' = Counting(i)
  BY DEF Counting
<1>7. \A i \in Job \ {j} : Cardinality(Counting(i)') = job[i].waiters
  BY <1>6 DEF Counts
<1> QED BY <1>3, <1>4, <1>5, <1>7

\* Records are dropped once they are terminal, while no owner is torn down anew.
LEMMA DropKeeps ==
  ASSUME IInv, NEW js \in SUBSET Job, job' = Dropped(js),
         UNCHANGED <<producer, wait, told>>,
         \A j \in js : job[j].stored = "yes" => IsTerminal(j),
         \A o \in Owner : owner'[o] # "live" => owner[o] # "live"
  PROVE  job' \in [Job -> JobRecord] /\ Counts' /\ WaitInv' /\ JobInv' /\ ReportInv'
<1>1. Types /\ Counts /\ WaitInv /\ JobInv /\ ReportInv
  BY TypeParts DEF IInv
<1>2. ASSUME NEW j \in Job
      PROVE  /\ job'[j] \in JobRecord /\ job'[j].waiters = job[j].waiters
             /\ job'[j].status = job[j].status /\ job'[j].reported = job[j].reported
             /\ job[j].status \in Active \cup {"unborn"} => job'[j] = job[j]
  <2>1. job[j] \in JobRecord
    BY <1>1 DEF Types
  <2>2. CASE j \in js
    <3>1. job'[j] = [job[j] EXCEPT !.stored = "no"]
      BY <2>2 DEF Dropped
    <3>2. job[j].status \notin Active
      BY <1>1, <2>2 DEF JobInv, IsTerminal, Active, Terminal
    <3>3. job[j].status = "unborn" => job'[j] = job[j]
      BY <1>1, <3>1 DEF JobInv, NoJob
    <3> QED BY <2>1, <3>1, <3>2, <3>3 DEF JobRecord
  <2>3. CASE j \notin js
    BY <2>1, <2>3 DEF Dropped
  <2> QED BY <2>2, <2>3
<1>3. job' \in [Job -> JobRecord]
  BY <1>2 DEF Dropped
<1>4. Counts'
  BY <1>1, <1>2, CountsKept
<1>5. WaitInv'
  BY <1>1, <1>2, WaitsKept
<1>6. \A j \in Job : (IsTerminal(j)' <=> IsTerminal(j)) /\ (Owed(j)' <=> Owed(j))
  BY <1>2 DEF IsTerminal, Owed
<1>7. ReportInv'
  BY <1>1, <1>2, <1>6 DEF ReportInv, Announced
<1>8. JobInv'
  <2>1. \A j \in Job : OwnerOf[j] # Nobody => OwnerOf[j] \in Owner
    BY RegistryAssumption
  <2> QED BY <1>1, <1>2, <1>6, <2>1 DEF JobInv
<1> QED BY <1>3, <1>4, <1>5, <1>7, <1>8

\* Every step keeps the invariant.
LEMMA NextIInv == IInv /\ [Next]_vars => IInv'
<1> SUFFICES ASSUME IInv, [Next]_vars PROVE IInv'
  OBVIOUS
<1>t. Types /\ Counts /\ WaitInv /\ JobInv /\ ReportInv
  BY TypeParts DEF IInv
<1>0. ASSUME Types', Counts', WaitInv', JobInv', ReportInv' PROVE IInv'
  <2>1. TypeOK'
    BY <1>0, TypeParts, PTL
  <2> QED BY <1>0, <2>1 DEF IInv
\* A step that touches neither waits nor the reports of settled jobs.
<1>1. ASSUME NEW j \in Job, Start(j) PROVE IInv'
  <2>1. /\ UNCHANGED <<wait, owner, service, controller, reloads, told>>
        /\ job[j].status = "unborn"
        /\ job' = [job EXCEPT ![j] = [NoJob EXCEPT !.status = "running", !.stored = "yes"]]
        /\ producer' = [producer EXCEPT ![j].step = "working"]
        /\ OwnerOf[j] # Nobody => owner[OwnerOf[j]] = "live"
    BY <1>1 DEF Start
  <2>2. job[j] = NoJob /\ producer[j].step = "none"
    BY <1>t, <2>1 DEF JobInv
  <2>3. /\ job'[j] \in JobRecord /\ job'[j].status = "running" /\ job'[j].stored = "yes"
        /\ job'[j].waiters = job[j].waiters /\ job'[j].reported = "no"
        /\ job' \in [Job -> JobRecord]
    BY <1>t, <2>1, <2>2, CallersCounted DEF Types, NoJob, JobRecord, Active
  <2>4. \A i \in Job \ {j} : job'[i] = job[i] /\ producer'[i] = producer[i]
    BY <1>t, <2>1 DEF Types
  <2>5. producer' \in [Job -> Producer] /\ producer'[j].step = "working"
    BY <1>t, <2>1 DEF Types, Producer
  <2>6. Types'
    BY <1>t, <2>1, <2>3, <2>5 DEF Types
  <2>7. Counts'
    BY <1>t, <2>1, <2>3, <2>4, CountsKept
  <2>8. WaitInv'
    BY <1>t, <2>1, <2>3, <2>4, WaitsKept
  <2>9. JobInv'
    BY <1>t, <2>1, <2>2, <2>3, <2>4, <2>5 DEF JobInv, IsTerminal, Terminal, NoJob
  <2>10. ReportInv'
    <3>1. told[j] \subseteq {"claim"}
      BY <1>t, <2>1 DEF JobInv, IsTerminal, Terminal
    <3>2. \A i \in Job : Owed(i)' <=> Owed(i)
      BY <2>1 DEF Owed
    <3>3. ~IsTerminal(j)' /\ \A i \in Job \ {j} : IsTerminal(i)' <=> IsTerminal(i)
      BY <2>3, <2>4 DEF IsTerminal, Terminal
    <3> QED BY <1>t, <2>1, <2>4, <3>1, <3>2, <3>3 DEF ReportInv, Announced
  <2> QED BY <1>0, <2>6, <2>7, <2>8, <2>9, <2>10
<1>2. ASSUME NEW j \in Job, Produce(j) PROVE IInv'
  <2>1. UNCHANGED <<job, wait, owner, service, controller, reloads, told>>
    BY <1>2 DEF Produce
  <2>2. PICK status \in Outcomes :
          producer' = [producer EXCEPT ![j] = [step |-> "done", outcome |-> status]]
    BY <1>2 DEF Produce
  <2>3. status \in Terminal /\ producer[j].step # "none"
    BY <1>2, RegistryAssumption DEF Produce
  <2>4. producer' \in [Job -> Producer]
    BY <1>t, <2>2, <2>3 DEF Types, Producer
  <2>5. Types'
    BY <1>t, <2>1, <2>4 DEF Types
  <2>6. Counts' /\ WaitInv' /\ ReportInv'
    BY <1>t, <2>1 DEF Counts, Counting, WaitInv, ReportInv, IsTerminal, Owed, Announced
  <2>7. JobInv'
    BY <1>t, <2>1, <2>2, <2>3 DEF Types, JobInv, IsTerminal
  <2> QED BY <1>0, <2>5, <2>6, <2>7
<1>3. ASSUME NEW j \in Job, Settle(j) PROVE IInv'
  <2>1. /\ UNCHANGED <<owner, service, controller, reloads>>
        /\ producer[j].step = "done"
        /\ producer' = [producer EXCEPT ![j] = [step |-> "over", outcome |-> "none"]]
    BY <1>3 DEF Settle
  <2>2. /\ producer[j].outcome \in Terminal /\ job[j].status # "unborn"
        /\ producer' \in [Job -> Producer]
        /\ \A i \in Job : /\ producer'[i].step = "done" => producer'[i] = producer[i]
                          /\ producer[i].step = "none" => producer'[i].step = "none"
    BY <1>t, <2>1 DEF JobInv, Types, Producer
  <2>3. CASE UNCHANGED <<job, wait, told>>
    <3>1. Types'
      BY <1>t, <2>1, <2>2, <2>3 DEF Types
    <3>2. Counts' /\ WaitInv' /\ ReportInv'
      BY <1>t, <2>3 DEF Counts, Counting, WaitInv, ReportInv, IsTerminal, Owed, Announced
    <3>3. JobInv'
      BY <1>t, <2>1, <2>2, <2>3 DEF JobInv, IsTerminal
    <3> QED BY <1>0, <3>1, <3>2, <3>3
  <2>4. CASE ~IsTerminal(j)
    <3> DEFINE r == Outcome(job[j], producer[j].outcome)
    <3>1. /\ job' = [job EXCEPT ![j] = r] /\ wait' = ReleasedFrom({j})
          /\ told' = [told EXCEPT ![j] = @ \cup Heard(j, r)]
      BY <1>3, <2>4 DEF Settle, Settles
    <3>2. /\ r \in JobRecord /\ r.status = producer[j].outcome
          /\ r.reported = IF job[j].waiters > 0 THEN "yes" ELSE job[j].reported
          /\ r.waiters = job[j].waiters /\ r.stored = job[j].stored
      <4>1. job[j] \in JobRecord /\ producer[j].outcome \in Active \cup Terminal
        BY <1>t, <2>2 DEF Types
      <4> QED BY <4>1, RecordFields
    <3> HIDE DEF r
    <3>3. /\ job'[j] = r /\ job' \in [Job -> JobRecord]
          /\ \A i \in Job \ {j} : job'[i] = job[i] /\ told'[i] = told[i]
          /\ told'[j] = told[j] \cup Heard(j, r)
      BY <1>t, <3>1, <3>2 DEF Types
    <3>4. Heard(j, r) \in SUBSET {"notice", "unheard"}
      BY DEF Heard
    <3>5. told' \in [Job -> SUBSET {"notice", "awaited", "answer", "claim", "unheard"}]
      BY <1>t, <3>1, <3>4 DEF Types
    <3>6. /\ wait' \in [Caller -> Wait \cup {NoWait}]
          /\ \A c \in Caller :
               /\ wait'[c].job = wait[c].job /\ wait'[c].counted = wait[c].counted
               /\ wait'[c] = NoWait <=> wait[c] = NoWait
               /\ wait'[c].step = "rejected" <=> wait[c].step = "rejected"
               /\ wait[c].job = j => wait'[c].step # "waiting"
          /\ \A i \in Job : Owed(i) => Owed(i)'
      <4>1. {j} \in SUBSET Job
        OBVIOUS
      <4> QED BY <1>t, <3>1, <4>1, ReleasedFacts
    <3>7. Types'
      BY <1>t, <2>1, <2>2, <3>3, <3>5, <3>6 DEF Types
    <3>8. Counts'
      BY <1>t, <3>2, <3>3, <3>6, CountsKept
    <3>9. WaitInv'
      <4>1. \A i \in Job : job[i].status # "unborn" => job'[i].status # "unborn"
        BY <2>2, <3>2, <3>3 DEF Terminal
      <4> QED BY <1>t, <3>6, <4>1, WaitsKept
    <3>10. IsTerminal(j)' /\ \A i \in Job \ {j} : IsTerminal(i)' <=> IsTerminal(i)
      BY <2>2, <3>2, <3>3 DEF IsTerminal
    <3>11. JobInv'
      BY <1>t, <2>1, <2>2, <3>2, <3>3, <3>10 DEF JobInv, IsTerminal, Active, Terminal
    <3>12. ReportInv'
      <4> SUFFICES ASSUME NEW i \in Job
                   PROVE  /\ IsTerminal(i)' => told'[i] # {} \/ Owed(i)'
                          /\ Announced(i)' => /\ IsTerminal(i)' /\ job'[i].waiters = 0
                                              /\ {"awaited", "claim"} \cap told'[i] = {}
                          /\ ~({"notice", "unheard"} \subseteq told'[i])
        BY DEF ReportInv
      <4>1. CASE i # j
        BY <1>t, <3>3, <3>6, <3>10, <4>1 DEF ReportInv, Announced
      <4>2. CASE i = j
        <5>1. /\ told[j] \subseteq {"claim"}
              /\ job[j].reported = "yes" <=> "claim" \in told[j]
          BY <1>t, <2>4 DEF JobInv
        <5>2. CASE job[j].reported = "yes"
          <6>1. Heard(j, r) = {}
            BY <3>2, <5>2 DEF Heard
          <6> QED BY <3>3, <4>2, <5>1, <5>2, <6>1 DEF Announced
        <5>3. CASE job[j].reported # "yes" /\ job[j].waiters > 0
          <6>1. Heard(j, r) = {}
            BY <3>2, <5>3 DEF Heard
          <6>2. Owed(j)'
            BY <3>6, <5>3, CountedIsOwed
          <6> QED BY <3>3, <4>2, <5>1, <6>1, <6>2 DEF Announced
        <5>4. CASE job[j].reported # "yes" /\ ~(job[j].waiters > 0)
          <6>1. Heard(j, r) = {"notice"} \/ Heard(j, r) = {"unheard"}
            BY <3>2, <5>4 DEF Heard
          <6>2. job'[j].waiters = 0
            BY <1>t, <3>2, <3>3, <5>4, CallersCounted DEF Types, JobRecord
          <6> QED BY <3>3, <3>10, <4>2, <5>1, <5>4, <6>1, <6>2 DEF Announced
        <5> QED BY <5>2, <5>3, <5>4
      <4> QED BY <4>1, <4>2
    <3> QED BY <1>0, <3>7, <3>8, <3>9, <3>11, <3>12
  <2> QED BY <1>3, <2>3, <2>4 DEF Settle, Settles
<1>4. ASSUME NEW j \in Job, Collect(j) PROVE IInv'
  <2>1. /\ UNCHANGED <<producer, wait, owner, service, controller, reloads>>
        /\ IsTerminal(j) /\ job' = [job EXCEPT ![j].reported = "yes"]
        /\ told' = [told EXCEPT ![j] = @ \cup {"answer"}]
    BY <1>4 DEF Collect
  <2>2. /\ job' \in [Job -> JobRecord] /\ job'[j].status = job[j].status
        /\ job'[j].waiters = job[j].waiters /\ job'[j].stored = job[j].stored
        /\ \A i \in Job \ {j} : job'[i] = job[i] /\ told'[i] = told[i]
        /\ told'[j] = told[j] \cup {"answer"}
    BY <1>t, <2>1, CallersCounted DEF Types, JobRecord
  <2>3. told' \in [Job -> SUBSET {"notice", "awaited", "answer", "claim", "unheard"}]
    BY <1>t, <2>1 DEF Types
  <2>4. Types'
    BY <1>t, <2>1, <2>2, <2>3 DEF Types
  <2>5. Counts'
    BY <1>t, <2>1, <2>2, CountsKept
  <2>6. WaitInv'
    BY <1>t, <2>1, <2>2, WaitsKept
  <2>7. \A i \in Job : (IsTerminal(i)' <=> IsTerminal(i)) /\ (Owed(i)' <=> Owed(i))
    BY <2>1, <2>2 DEF IsTerminal, Owed
  <2>8. JobInv'
    BY <1>t, <2>1, <2>2, <2>7 DEF JobInv, IsTerminal, Active, Terminal
  <2>9. ReportInv'
    BY <1>t, <2>1, <2>2, <2>7 DEF ReportInv, Announced
  <2> QED BY <1>0, <2>4, <2>5, <2>6, <2>8, <2>9
<1>5. ASSUME NEW j \in Job, Kill(j) PROVE IInv'
  <2>1. /\ UNCHANGED <<wait, owner, service, controller, reloads>>
        /\ job[j].status \in Active
        /\ producer' = [producer EXCEPT ![j] = Asked(@)]
        /\ job' = [job EXCEPT ![j].status = "stopping", ![j].reported = "yes"]
        /\ told' = [told EXCEPT ![j] = @ \cup {"claim"}]
    BY <1>5 DEF Kill
  <2>2. /\ job' \in [Job -> JobRecord] /\ job'[j].status = "stopping"
        /\ job'[j].waiters = job[j].waiters /\ job'[j].stored = job[j].stored
        /\ job'[j].reported = "yes"
        /\ \A i \in Job \ {j} : job'[i] = job[i] /\ told'[i] = told[i]
        /\ told'[j] = told[j] \cup {"claim"}
    <3>1. /\ job' = [job EXCEPT ![j] = [job[j] EXCEPT !.status = "stopping",
                                                     !.reported = "yes"]]
          /\ told' = [told EXCEPT ![j] = told[j] \cup {"claim"}]
          /\ job \in [Job -> JobRecord]
          /\ told \in [Job -> SUBSET {"notice", "awaited", "answer", "claim", "unheard"}]
      BY <1>t, <2>1 DEF Types
    <3>2. [job[j] EXCEPT !.status = "stopping", !.reported = "yes"] \in JobRecord
      BY <3>1 DEF JobRecord, Active
    <3>3. /\ job' \in [Job -> JobRecord]
          /\ job'[j] = [job[j] EXCEPT !.status = "stopping", !.reported = "yes"]
      BY <3>1, <3>2
    <3>4. job[j] \in JobRecord
      BY <3>1
    <3>5. \A i \in Job \ {j} : job'[i] = job[i] /\ told'[i] = told[i]
      BY <3>1
    <3>6. told'[j] = told[j] \cup {"claim"}
      BY <3>1
    <3> QED BY <3>3, <3>4, <3>5, <3>6 DEF JobRecord
  <2>3. told' \in [Job -> SUBSET {"notice", "awaited", "answer", "claim", "unheard"}]
    BY <1>t, <2>1 DEF Types
  <2>4. /\ producer' \in [Job -> Producer]
        /\ \A i \in Job : /\ producer'[i].step = "done" => producer'[i] = producer[i]
                          /\ producer[i].step = "none" => producer'[i].step = "none"
    BY <1>t, <2>1 DEF Types, Producer, Asked
  <2>5. Types'
    BY <1>t, <2>1, <2>2, <2>3, <2>4 DEF Types
  <2>6. Counts'
    BY <1>t, <2>1, <2>2, CountsKept
  <2>7. WaitInv'
    BY <1>t, <2>1, <2>2, WaitsKept
  <2>8. ~IsTerminal(j) /\ \A i \in Job : (IsTerminal(i)' <=> IsTerminal(i)) /\ (Owed(i)' <=> Owed(i))
    BY <2>1, <2>2 DEF IsTerminal, Owed, Active, Terminal
  <2>9. JobInv'
    BY <1>t, <2>1, <2>2, <2>4, <2>8 DEF JobInv
  <2>10. ReportInv'
    <3>1. told[j] \subseteq {"claim"}
      BY <1>t, <2>8 DEF JobInv
    <3> QED BY <1>t, <2>2, <2>8, <3>1 DEF ReportInv, Announced
  <2> QED BY <1>0, <2>5, <2>6, <2>7, <2>9, <2>10
<1>6. ASSUME NEW c \in Caller, NEW j \in Job, BeginWait(c, j) PROVE IInv'
  <2>1. /\ UNCHANGED <<producer, owner, service, controller, reloads, told>>
        /\ wait[c] = NoWait /\ job[j].status \in Active
        /\ wait' = [wait EXCEPT ![c] = [step |-> "waiting", job |-> j, counted |-> "yes"]]
        /\ job' = [job EXCEPT ![j].waiters = @ + 1]
    BY <1>6 DEF BeginWait
  <2>2. /\ wait'[c] = [step |-> "waiting", job |-> j, counted |-> "yes"]
        /\ wait' \in [Caller -> Wait \cup {NoWait}]
        /\ \A d \in Caller \ {c} : wait'[d] = wait[d]
    BY <1>t, <2>1 DEF Types, Wait
  <2>3. wait[c].counted = "no" /\ wait[c].step = "idle"
    BY <2>1 DEF NoWait
  <2>4. /\ Cardinality(Counting(j)') = job[j].waiters + 1
        /\ job[j].waiters + 1 \in 0..Cardinality(Caller)
        /\ \A i \in Job \ {j} : Cardinality(Counting(i)') = job[i].waiters
    BY <1>t, <2>2, <2>3, CountedMore
  <2>5. /\ job' \in [Job -> JobRecord] /\ job'[j].waiters = job[j].waiters + 1
        /\ \A i \in Job : /\ job'[i].status = job[i].status
                          /\ job'[i].reported = job[i].reported
                          /\ job'[i].stored = job[i].stored
        /\ \A i \in Job \ {j} : job'[i] = job[i]
    BY <1>t, <2>1, <2>4, CallersCounted DEF Types, JobRecord
  <2>6. Types'
    BY <1>t, <2>1, <2>2, <2>5 DEF Types
  <2>7. Counts'
    BY <2>4, <2>5 DEF Counts
  <2>8. WaitInv'
    BY <1>t, <2>1, <2>2, <2>5 DEF WaitInv, Active
  <2>9. \A i \in Job : (IsTerminal(i)' <=> IsTerminal(i)) /\ (Owed(i) => Owed(i)')
    BY <2>2, <2>3, <2>5 DEF IsTerminal, Owed
  <2>10. JobInv'
    BY <1>t, <2>1, <2>5, <2>9 DEF JobInv, Active
  <2>11. ReportInv'
    <3>1. ~IsTerminal(j) /\ told[j] \subseteq {"claim"}
      BY <1>t, <2>1 DEF JobInv, IsTerminal, Active, Terminal
    <3> QED BY <1>t, <2>1, <2>5, <2>9, <3>1 DEF ReportInv, Announced
  <2> QED BY <1>0, <2>6, <2>7, <2>8, <2>10, <2>11
\* The deadline: the wait stays counted, and is owed an answer.
<1>7. ASSUME NEW c \in Caller, Expire(c) PROVE IInv'
  <2>1. /\ UNCHANGED <<job, producer, owner, service, controller, reloads, told>>
        /\ wait[c].step = "waiting" /\ wait' = [wait EXCEPT ![c].step = "expired"]
    BY <1>7 DEF Expire
  <2>2. wait[c] \in Wait /\ wait[c] # NoWait
    BY <1>t, <2>1, WaitFields DEF Types, NoWait
  <2>3. /\ wait' \in [Caller -> Wait \cup {NoWait}]
        /\ \A d \in Caller \ {c} : wait'[d] = wait[d]
        /\ wait'[c] \in Wait /\ wait'[c].step = "expired"
        /\ wait'[c].job = wait[c].job /\ wait'[c].counted = wait[c].counted
    BY <1>t, <2>1, <2>2 DEF Types, Wait
  <2>4. Types' /\ JobInv'
    BY <1>t, <2>1, <2>3 DEF Types, JobInv, IsTerminal
  <2>5. Counts'
    BY <1>t, <2>1, <2>3, CountsKept
  <2>6. WaitInv'
    BY <1>t, <2>1, <2>2, <2>3 DEF WaitInv
  <2>7. \A i \in Job : (IsTerminal(i)' <=> IsTerminal(i)) /\ (Owed(i) => Owed(i)')
    BY <2>1, <2>3 DEF IsTerminal, Owed
  <2>8. ReportInv'
    BY <1>t, <2>1, <2>7 DEF ReportInv, Announced
  <2> QED BY <1>0, <2>4, <2>5, <2>6, <2>8
<1>8. ASSUME NEW c \in Caller, Abort(c) PROVE IInv'
  <2>1. /\ UNCHANGED <<producer, owner, service, controller, reloads, told>>
        /\ wait[c].step = "waiting"
        /\ wait' = [wait EXCEPT ![c].step = "rejected", ![c].counted = "no"]
    BY <1>8 DEF Abort
  <2>2. wait[c] \in Wait /\ wait[c] # NoWait /\ wait[c].counted = "yes"
    BY <1>t, <2>1, WaitFields DEF Types, NoWait, WaitInv
  <2>j. PICK j \in Job : wait[c].job = j
    BY <2>2, WaitFields
  <2>3. job' = [job EXCEPT ![j].waiters = @ - 1]
    BY <1>8, <2>2, <2>j DEF Abort, Uncount
  <2>4. /\ wait' \in [Caller -> Wait \cup {NoWait}]
        /\ \A d \in Caller \ {c} : wait'[d] = wait[d]
        /\ wait'[c] \in Wait /\ wait'[c].step = "rejected"
        /\ wait'[c].job = j /\ wait'[c].counted = "no"
    BY <1>t, <2>1, <2>2, <2>j DEF Types, Wait
  <2>5. /\ Cardinality(Counting(j)') = job[j].waiters - 1
        /\ job[j].waiters - 1 \in 0..Cardinality(Caller)
        /\ \A i \in Job \ {j} : Cardinality(Counting(i)') = job[i].waiters
    BY <1>t, <2>2, <2>j, <2>4, CountedLess
  <2>6. /\ job' \in [Job -> JobRecord] /\ job'[j].waiters = job[j].waiters - 1
        /\ \A i \in Job : /\ job'[i].status = job[i].status
                          /\ job'[i].reported = job[i].reported
                          /\ job'[i].stored = job[i].stored
        /\ \A i \in Job \ {j} : job'[i] = job[i]
    BY <1>t, <2>2, <2>j, <2>3, <2>5, CallersCounted DEF Types, JobRecord
  <2>7. Types'
    BY <1>t, <2>1, <2>4, <2>6 DEF Types
  <2>8. Counts'
    BY <2>2, <2>j, <2>5, <2>6 DEF Counts
  <2>9. WaitInv'
    <3>1. \A d \in Caller : wait'[d].job = wait[d].job /\ (wait'[d] # NoWait => wait[d] # NoWait)
      BY <2>2, <2>j, <2>4
    <3>2. \A d \in Caller : wait[d] # NoWait => wait[d].job \in Job
      BY <1>t, WaitFields DEF Types
    <3> QED BY <1>t, <2>4, <2>6, <3>1, <3>2 DEF WaitInv
  <2>10. \A i \in Job : (IsTerminal(i)' <=> IsTerminal(i)) /\ (Owed(i) => Owed(i)')
    BY <2>1, <2>4, <2>6 DEF IsTerminal, Owed
  <2>11. JobInv'
    <3>1. job[j].status # "unborn"
      BY <1>t, <2>2, <2>j DEF WaitInv
    <3> QED BY <1>t, <2>1, <2>2, <2>j, <2>6, <2>10, <3>1 DEF JobInv
  <2>12. ReportInv'
    <3>1. job[j].waiters # 0
      BY <1>t, <2>5, CallersCounted DEF Types, JobRecord
    <3> QED BY <1>t, <2>1, <2>6, <2>10, <3>1 DEF ReportInv, Announced
  <2> QED BY <1>0, <2>7, <2>8, <2>9, <2>11, <2>12
<1>9. ASSUME NEW c \in Caller, Continue(c) PROVE IInv'
  <2>1. /\ UNCHANGED <<producer, owner, service, controller, reloads>>
        /\ wait[c].step \in {"released", "expired", "rejected"}
        /\ wait' = [wait EXCEPT ![c] = NoWait]
    BY <1>9 DEF Continue
  <2>2. /\ wait[c] \in Wait /\ wait[c] # NoWait /\ job[wait[c].job].status # "unborn"
        /\ wait[c].counted = "yes" <=> wait[c].step # "rejected"
    BY <1>t, <2>1, WaitFields DEF Types, NoWait, WaitInv
  <2>j. PICK j \in Job : wait[c].job = j
    BY <2>2, WaitFields
  <2>3. /\ wait' \in [Caller -> Wait \cup {NoWait}] /\ wait'[c] = NoWait
        /\ \A d \in Caller \ {c} : wait'[d] = wait[d]
        /\ wait'[c].counted = "no" /\ wait'[c].step = "idle"
    BY <1>t, <2>1 DEF Types, NoWait
  \* What is left to show, whichever way the record changed.
  <2>4. ASSUME job' \in [Job -> JobRecord], Counts',
               \A i \in Job : /\ job'[i].status = job[i].status
                              /\ job'[i].stored = job[i].stored
                              /\ \/ job'[i].reported = job[i].reported
                                 \/ IsTerminal(i) /\ job'[i].reported = "yes",
               \A i \in Job \ {j} : job'[i] = job[i],
               \A i \in Job : \/ told'[i] = told[i]
                              \/ /\ IsTerminal(i) /\ job[i].waiters # 0
                                 /\ told'[i] = told[i] \cup {"awaited"},
               job'[j].waiters = job[j].waiters \/ job[j].waiters # 0,
               told' \in [Job -> SUBSET {"notice", "awaited", "answer", "claim", "unheard"}],
               wait[c].step = "rejected" \/ ~IsTerminal(j) \/ told'[j] # {}
        PROVE  IInv'
    <3>1. Types'
      BY <1>t, <2>1, <2>3, <2>4 DEF Types
    <3>2. WaitInv'
      <4>1. \A d \in Caller : wait[d] # NoWait => wait[d].job \in Job
        BY <1>t, WaitFields DEF Types
      <4> QED BY <1>t, <2>3, <2>4, <4>1 DEF WaitInv
    <3>3. \A i \in Job : IsTerminal(i)' <=> IsTerminal(i)
      BY <2>4 DEF IsTerminal
    <3>4. JobInv'
      BY <1>t, <2>1, <2>2, <2>j, <2>4, <3>3 DEF JobInv, IsTerminal, Active, Terminal
    <3>5. ReportInv'
      <4> SUFFICES ASSUME NEW i \in Job
                   PROVE  /\ IsTerminal(i) => told'[i] # {} \/ Owed(i)'
                          /\ Announced(i)' => /\ IsTerminal(i) /\ job'[i].waiters = 0
                                              /\ {"awaited", "claim"} \cap told'[i] = {}
                          /\ ~({"notice", "unheard"} \subseteq told'[i])
        BY <3>3 DEF ReportInv
      <4>1. IsTerminal(i) => told[i] # {} \/ Owed(i)
        BY <1>t DEF ReportInv
      <4>2. Owed(i) /\ ~Owed(i)' => i = j /\ wait[c].step # "rejected"
        BY <2>3, <2>j DEF Owed
      <4>3. IsTerminal(i) => told'[i] # {} \/ Owed(i)'
        BY <2>4, <4>1, <4>2
      <4>4. Announced(i)' => Announced(i) /\ told'[i] = told[i] /\ job'[i].waiters = job[i].waiters
        <5>1. CASE Announced(i)
          <6>1. job[i].waiters = 0
            BY <1>t, <5>1 DEF ReportInv
          <6> QED BY <2>4, <5>1, <6>1
        <5>2. CASE ~Announced(i)
          BY <2>4, <5>2 DEF Announced
        <5> QED BY <5>1, <5>2
      <4>5. ~({"notice", "unheard"} \subseteq told'[i])
        BY <1>t, <2>4 DEF ReportInv
      <4> QED BY <1>t, <4>3, <4>4, <4>5 DEF ReportInv
    <3> QED BY <1>0, <2>4, <3>1, <3>2, <3>4, <3>5
  <2>5. CASE wait[c].step # "rejected"
    <3>1. /\ Cardinality(Counting(j)') = job[j].waiters - 1
          /\ job[j].waiters - 1 \in 0..Cardinality(Caller)
          /\ \A i \in Job \ {j} : Cardinality(Counting(i)') = job[i].waiters
      BY <1>t, <2>2, <2>j, <2>3, <2>5, CountedLess
    <3>w. job[j].waiters # 0
      BY <1>t, <3>1, CallersCounted DEF Types, JobRecord
    <3>2. CASE IsTerminal(j)
      <4>1. /\ job' = [job EXCEPT ![j].waiters = @ - 1, ![j].reported = "yes"]
            /\ told' = [told EXCEPT ![j] = @ \cup {"awaited"}]
        BY <1>9, <2>j, <2>5, <3>2 DEF Continue
      <4>2. /\ job' \in [Job -> JobRecord] /\ job'[j].waiters = job[j].waiters - 1
            /\ job'[j].status = job[j].status /\ job'[j].stored = job[j].stored
            /\ job'[j].reported = "yes"
            /\ \A i \in Job \ {j} : job'[i] = job[i]
        <5>1. /\ job'[j] = [job[j] EXCEPT !.waiters = @ - 1, !.reported = "yes"]
              /\ job' = [job EXCEPT ![j] = job'[j]]
          BY <1>t, <4>1 DEF Types
        <5>2. job[j] \in JobRecord
          BY <1>t DEF Types
        <5>3. /\ job'[j] \in JobRecord /\ job'[j].waiters = job[j].waiters - 1
              /\ job'[j].status = job[j].status /\ job'[j].stored = job[j].stored
              /\ job'[j].reported = "yes"
          BY <3>1, <5>1, <5>2, CallersCounted DEF JobRecord
        <5> QED BY <1>t, <5>1, <5>3 DEF Types
      <4>3. /\ told'[j] = told[j] \cup {"awaited"} /\ \A i \in Job \ {j} : told'[i] = told[i]
            /\ told' \in [Job -> SUBSET {"notice", "awaited", "answer", "claim", "unheard"}]
        BY <1>t, <2>2, <2>j, <4>1 DEF Types
      <4>4. Counts'
        BY <2>2, <2>j, <3>1, <4>2 DEF Counts
      <4> QED BY <2>4, <3>2, <3>w, <4>2, <4>3, <4>4
    <3>3. CASE ~IsTerminal(j)
      <4>1. job' = [job EXCEPT ![j].waiters = @ - 1] /\ told' = told
        BY <1>9, <2>2, <2>j, <2>5, <3>3 DEF Continue, Uncount
      <4>2. /\ job' \in [Job -> JobRecord] /\ job'[j].waiters = job[j].waiters - 1
            /\ job'[j].status = job[j].status /\ job'[j].stored = job[j].stored
            /\ job'[j].reported = job[j].reported
            /\ \A i \in Job \ {j} : job'[i] = job[i]
        BY <1>t, <2>2, <2>j, <3>1, <4>1 DEF Types, JobRecord
      <4>3. Counts'
        BY <2>2, <2>j, <3>1, <4>2 DEF Counts
      <4> QED BY <1>t, <2>4, <3>3, <3>w, <4>1, <4>2, <4>3 DEF Types
    <3> QED BY <3>2, <3>3
  <2>6. CASE wait[c].step = "rejected"
    <3>1. job' = job /\ told' = told
      BY <1>9, <2>2, <2>j, <2>6 DEF Continue, Uncount
    <3>2. \A i \in Job : Counting(i)' = Counting(i)
      BY <2>2, <2>j, <2>3, <2>6 DEF Counting
    <3>3. Counts'
      BY <1>t, <3>1, <3>2 DEF Counts
    <3> QED BY <1>t, <2>4, <2>6, <3>1, <3>3 DEF Types
  <2> QED BY <2>5, <2>6
<1>10. ASSUME NEW o \in Owner, DisposeOwner(o) PROVE IInv'
  <2>1. /\ UNCHANGED <<service, controller, reloads>> /\ CancelForTeardown(OwnedBy(o), TRUE)
        /\ owner' = [owner EXCEPT ![o] = "disposing"]
    BY <1>10 DEF DisposeOwner
  <2>2. owner' \in [Owner -> {"live", "disposing", "disposed"}]
    BY <1>t, <2>1 DEF Types
  <2>3. OwnedBy(o) \in SUBSET { j \in Job : job[j].stored = "yes" }
    BY DEF OwnedBy
  <2>4. \A j \in Job : \/ j \in OwnedBy(o) \/ job[j].stored = "no" \/ OwnerOf[j] = Nobody
                       \/ owner'[OwnerOf[j]] = owner[OwnerOf[j]]
    BY <1>t, <2>1, RegistryAssumption DEF Types, JobRecord, OwnedBy
  <2>5. /\ job' \in [Job -> JobRecord] /\ producer' \in [Job -> Producer]
        /\ wait' \in [Caller -> Wait \cup {NoWait}]
        /\ told' \in [Job -> SUBSET {"notice", "awaited", "answer", "claim", "unheard"}]
        /\ Counts' /\ WaitInv' /\ JobInv' /\ ReportInv'
    BY <2>1, <2>3, <2>4, TeardownKeeps
  <2>6. Types'
    BY <1>t, <2>1, <2>2, <2>5 DEF Types
  <2> QED BY <1>0, <2>5, <2>6
<1>11. ASSUME NEW o \in Owner, OwnerDisposed(o) PROVE IInv'
  <2>1. /\ UNCHANGED <<producer, wait, service, controller, reloads, told>>
        /\ owner[o] = "disposing" /\ \A j \in OwnedBy(o) : IsTerminal(j)
        /\ owner' = [owner EXCEPT ![o] = "disposed"] /\ job' = Dropped(OwnedBy(o))
    BY <1>11 DEF OwnerDisposed
  <2>2. /\ owner' \in [Owner -> {"live", "disposing", "disposed"}]
        /\ \A p \in Owner : owner'[p] # "live" => owner[p] # "live"
    BY <1>t, <2>1 DEF Types
  <2>3. OwnedBy(o) \in SUBSET Job
    BY DEF OwnedBy
  <2>4. job' \in [Job -> JobRecord] /\ Counts' /\ WaitInv' /\ JobInv' /\ ReportInv'
    BY <2>1, <2>2, <2>3, DropKeeps
  <2>5. Types'
    BY <1>t, <2>1, <2>2, <2>4 DEF Types
  <2> QED BY <1>0, <2>4, <2>5
<1>12. ASSUME DisposeService PROVE IInv'
  <2> DEFINE js == { j \in Job : job[j].stored = "yes" }
  <2>1. /\ UNCHANGED <<owner, reloads>> /\ CancelForTeardown(js, FALSE)
        /\ service' = "closing" /\ controller' = "detached"
    BY <1>12 DEF DisposeService
  <2>2. \A j \in Job : \/ j \in js \/ job[j].stored = "no" \/ OwnerOf[j] = Nobody
                       \/ owner'[OwnerOf[j]] = owner[OwnerOf[j]]
    BY <2>1
  <2>3. /\ job' \in [Job -> JobRecord] /\ producer' \in [Job -> Producer]
        /\ wait' \in [Caller -> Wait \cup {NoWait}]
        /\ told' \in [Job -> SUBSET {"notice", "awaited", "answer", "claim", "unheard"}]
        /\ Counts' /\ WaitInv' /\ JobInv' /\ ReportInv'
    BY <2>1, <2>2, TeardownKeeps
  <2>4. Types'
    BY <1>t, <2>1, <2>3 DEF Types
  <2> QED BY <1>0, <2>3, <2>4
<1>13. ASSUME ServiceDisposed PROVE IInv'
  <2>1. /\ UNCHANGED <<producer, wait, owner, controller, reloads, told>>
        /\ \A j \in Job : job[j].stored = "yes" => IsTerminal(j)
        /\ service' = "down" /\ job' = Dropped(Job)
    BY <1>13 DEF ServiceDisposed
  <2>2. job' \in [Job -> JobRecord] /\ Counts' /\ WaitInv' /\ JobInv' /\ ReportInv'
    BY <2>1, DropKeeps
  <2>3. Types'
    BY <1>t, <2>1, <2>2 DEF Types
  <2> QED BY <1>0, <2>2, <2>3
\* Reloads of the controller and stuttering leave jobs and waits alone.
<1>14. ASSUME Unload \/ Load \/ UNCHANGED vars PROVE IInv'
  <2>1. UNCHANGED <<job, producer, wait, owner, service, told>>
    BY <1>14 DEF Unload, Load, vars
  <2>2. controller' \in {"attached", "detached"} /\ reloads' \in 0..MaxReloads
    BY <1>14, <1>t, RegistryAssumption DEF Unload, Load, vars, Types
  <2>3. Types'
    BY <1>t, <2>1, <2>2 DEF Types
  <2>4. Counts' /\ WaitInv' /\ JobInv' /\ ReportInv'
    BY <1>t, <2>1
       DEF Counts, Counting, WaitInv, JobInv, ReportInv, IsTerminal, Owed, Announced
  <2> QED BY <1>0, <2>3, <2>4
<1> QED
  BY <1>1, <1>2, <1>3, <1>4, <1>5, <1>6, <1>7, <1>8, <1>9, <1>10, <1>11, <1>12, <1>13,
     <1>14 DEF Next

\* The invariant holds at the start.
LEMMA InitIInv == Init => IInv
<1> SUFFICES ASSUME Init PROVE IInv
  OBVIOUS
<1>1. Types
  BY CallersCounted, RegistryAssumption DEF Init, Types, Producer, NoJob, JobRecord
<1>2. \A j \in Job : Counting(j) = {}
  BY DEF Init, Counting, NoWait
<1>3. Counts
  BY <1>2, FS_EmptySet DEF Init, Counts, NoJob
<1>4. TypeOK
  BY <1>1, <1>3, TypeParts
<1>5. WaitInv /\ JobInv /\ ReportInv
  BY DEF Init, WaitInv, JobInv, ReportInv, IsTerminal, NoJob, Active, Terminal, Announced
<1> QED BY <1>4, <1>5 DEF IInv

\* No step changes an outcome, and only a settlement that is not reported sends a
\* notice: to the listener of a service that is up, for the job of an owner that
\* is not being torn down.
LEMMA FinalStep ==
  ASSUME IInv, [Next]_vars, NEW j \in Job
  PROVE  /\ IsTerminal(j) => job'[j].status = job[j].status
         /\ "notice" \in told'[j] \ told[j] =>
              /\ ~IsTerminal(j)
              /\ owner'[OwnerOf[j]] = "live" /\ service' = "up"
<1>t. Types /\ WaitInv /\ JobInv
  BY TypeParts DEF IInv
<1> DEFINE Final == /\ IsTerminal(j) => job'[j].status = job[j].status
                    /\ "notice" \in told'[j] \ told[j] =>
                         /\ ~IsTerminal(j)
                         /\ owner'[OwnerOf[j]] = "live" /\ service' = "up"
<1>1. ASSUME NEW i \in Job, Start(i) PROVE Final
  BY <1>t, <1>1 DEF Start, Types, IsTerminal, Terminal
<1>2. ASSUME NEW i \in Job, Produce(i) PROVE Final
  BY <1>2 DEF Produce
<1>3. ASSUME NEW i \in Job, Settle(i) PROVE Final
  <2>1. CASE i # j \/ ~Settles(i)
    <3>1. job'[j] = job[j] /\ told'[j] = told[j]
      BY <1>t, <1>3, <2>1 DEF Settle, Types
    <3> QED BY <3>1
  <2>2. CASE i = j /\ Settles(i)
    <3> DEFINE r == Outcome(job[j], producer[j].outcome)
    <3>1. /\ ~IsTerminal(j) /\ told'[j] = told[j] \cup Heard(j, r)
          /\ UNCHANGED <<owner, service>> /\ producer[j].step = "done"
      BY <1>t, <1>3, <2>2 DEF Settle, Settles, Types
    <3>2. r.reported = "yes" \/ r.reported = job[j].reported
      <4>1. job[j] \in JobRecord /\ producer[j].outcome \in Active \cup Terminal
        BY <1>t, <3>1 DEF Types, JobInv
      <4> QED BY <4>1, RecordFields
    <3> HIDE DEF r
    <3>3. job[j].status \in Active
      BY <1>t, <3>1 DEF Types, JobRecord, JobInv, IsTerminal
    <3>4. ASSUME "notice" \in Heard(j, r)
          PROVE  OwnerOf[j] # Nobody /\ r.reported # "yes" /\ service = "up"
      BY <3>4 DEF Heard
    <3>5. "notice" \in Heard(j, r) => owner[OwnerOf[j]] = "live"
      BY <1>t, <3>2, <3>3, <3>4 DEF JobInv
    <3> QED BY <3>1, <3>4, <3>5
  <2> QED BY <2>1, <2>2
<1>4. ASSUME NEW i \in Job, Collect(i) PROVE Final
  BY <1>t, <1>4 DEF Collect, Types, JobRecord
<1>5. ASSUME NEW i \in Job, Kill(i) PROVE Final
  BY <1>t, <1>5 DEF Kill, Types, JobRecord, IsTerminal, Active, Terminal
<1>6. ASSUME NEW c \in Caller, NEW i \in Job, BeginWait(c, i) PROVE Final
  BY <1>t, <1>6 DEF BeginWait, Types, JobRecord
<1>7. ASSUME NEW c \in Caller, Expire(c) \/ Abort(c) \/ Continue(c) PROVE Final
  <2>1. wait[c] # NoWait /\ wait[c].job \in Job
    BY <1>t, <1>7, WaitFields DEF Expire, Abort, Continue, Types, NoWait
  <2>2. PICK i \in Job : i = wait[c].job
    BY <2>1
  <2>3. /\ \/ job' = job
           \/ job' = [job EXCEPT ![i].waiters = @ - 1]
           \/ job' = [job EXCEPT ![i].waiters = @ - 1, ![i].reported = "yes"]
        /\ told' = told \/ told' = [told EXCEPT ![i] = @ \cup {"awaited"}]
    BY <1>7, <2>2 DEF Expire, Abort, Continue, Uncount
  <2>4. job'[j].status = job[j].status
    <3>1. job[j] \in JobRecord
      BY <1>t DEF Types
    <3>2. \/ job'[j] = job[j]
          \/ job'[j] = [job[j] EXCEPT !.waiters = @ - 1]
          \/ job'[j] = [job[j] EXCEPT !.waiters = @ - 1, !.reported = "yes"]
      BY <1>t, <2>3 DEF Types
    <3> QED BY <3>1, <3>2 DEF JobRecord
  <2>5. told'[j] \subseteq told[j] \cup {"awaited"}
    BY <1>t, <2>3 DEF Types
  <2> QED BY <2>4, <2>5
<1>8. ASSUME NEW o \in Owner, DisposeOwner(o) PROVE Final
  <2>1. CancelForTeardown(OwnedBy(o), TRUE) /\ owner' = [owner EXCEPT ![o] = "disposing"]
    BY <1>8 DEF DisposeOwner
  <2>2. OwnedBy(o) \in SUBSET { i \in Job : job[i].stored = "yes" }
    BY DEF OwnedBy
  <2>3. \A i \in Job : \/ i \in OwnedBy(o) \/ job[i].stored = "no" \/ OwnerOf[i] = Nobody
                       \/ owner'[OwnerOf[i]] = owner[OwnerOf[i]]
    BY <1>t, <2>1, RegistryAssumption DEF Types, JobRecord, OwnedBy
  <2>4. /\ IsTerminal(j) => job'[j] = job[j]
        /\ told'[j] \ told[j] \subseteq {"claim"}
    BY <2>1, <2>2, <2>3, TeardownKeeps
  <2> QED BY <2>4
<1>9. ASSUME DisposeService PROVE Final
  <2>1. CancelForTeardown({ i \in Job : job[i].stored = "yes" }, FALSE) /\ owner' = owner
    BY <1>9 DEF DisposeService
  <2>2. /\ IsTerminal(j) => job'[j] = job[j]
        /\ told'[j] \ told[j] \subseteq {"claim"}
    BY <2>1, TeardownKeeps
  <2> QED BY <2>2
<1>10. ASSUME NEW js \in SUBSET Job, job' = Dropped(js), told' = told PROVE Final
  <2>1. job'[j].status = job[j].status
    BY <1>t, <1>10 DEF Dropped, Types, JobRecord
  <2> QED BY <1>10, <2>1
<1>11. ASSUME NEW o \in Owner, OwnerDisposed(o) PROVE Final
  BY <1>10, <1>11 DEF OwnerDisposed, OwnedBy
<1>12. ASSUME ServiceDisposed PROVE Final
  BY <1>10, <1>12 DEF ServiceDisposed
<1>13. ASSUME Unload \/ Load \/ UNCHANGED vars PROVE Final
  BY <1>13 DEF Unload, Load, vars
<1> HIDE DEF Final
<1>14. Final
  BY <1>1, <1>2, <1>3, <1>4, <1>5, <1>6, <1>7, <1>8, <1>9, <1>11, <1>12, <1>13 DEF Next
<1> QED BY <1>14 DEF Final

-----------------------------------------------------------------------------
(* Theorems *)

\* The inductive invariant holds throughout.
THEOREM Invariance == Spec => []IInv
  BY InitIInv, NextIInv, PTL DEF Spec

\* Every record is well formed and its number of waiters is that of the waits
\* that count, for any number of callers, whichever of the deadline, the abort
\* and the settlement came first.
THEOREM TypeAlways == Spec => []TypeOK
<1>1. IInv => TypeOK
  BY DEF IInv
<1> QED BY <1>1, Invariance, PTL

\* The completion of a job is reported once and never swallowed, however waits,
\* kills, reloads and teardown interleave with it: a wait that is owed the
\* outcome still counts, so nothing was announced in its place.
THEOREM CompletionAlways == Spec => []CompletionIsHeard
<1>1. IInv => CompletionIsHeard
  <2> SUFFICES ASSUME IInv PROVE CompletionIsHeard
    OBVIOUS
  <2>1. ASSUME NEW j \in Job, Owed(j) PROVE ~Announced(j)
    <3>1. PICK c \in Caller : wait[c].job = j /\ wait[c].step \in {"released", "expired"}
      BY <2>1 DEF Owed
    <3>2. c \in Counting(j)
      BY <3>1 DEF IInv, WaitInv, NoWait, Counting
    <3>3. IsFiniteSet(Counting(j))
      BY FS_Subset, RegistryAssumption DEF Counting
    <3>4. job[j].waiters # 0
      BY <3>2, <3>3, FS_EmptySet, TypeParts DEF IInv, Counts
    <3> QED BY <3>4 DEF IInv, ReportInv
  <2> QED BY <2>1 DEF IInv, ReportInv, CompletionIsHeard, Announced
<1> QED BY <1>1, Invariance, PTL

\* A settlement is final, and teardown is silent: no step changes an outcome, nor
\* announces a completion to an owner, or by a service, being torn down.
THEOREM SettlementFinal == Spec => SettlementIsFinal
<1>1. IInv /\ [Next]_vars =>
        [\A j \in Job :
           /\ IsTerminal(j) => job'[j].status = job[j].status
           /\ "notice" \in told'[j] \ told[j] =>
                /\ ~IsTerminal(j)
                /\ owner'[OwnerOf[j]] = "live" /\ service' = "up"]_vars
  BY FinalStep
<1> QED BY <1>1, Invariance, PTL DEF Spec, SettlementIsFinal

==============================================================================
