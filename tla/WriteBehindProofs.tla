------------------------- MODULE WriteBehindProofs --------------------------
(***************************************************************************)
(* Proofs about WriteBehind for any set of events and any bounds: types,   *)
(* the single active write, the ledger that accounts for every accepted    *)
(* event, the durability of a resolved flush, the absence of orphan timers *)
(* and the implementation of DurableLog.                                   *)
(***************************************************************************)
EXTENDS WriteBehind, FiniteSetTheorems, SequenceTheorems, TLAPS

\* The invariants below strengthen the properties to inductive ones.

\* A timeout is armed only for queued events, and only in automatic mode.
TimerInv == timer = "armed" => /\ pending # <<>> /\ barrier = "none"
                               /\ automatic = "running"

\* active mirrors the unfinished write; only a barrier owns foreground writes.
ActiveInv == active = "write" <=> \E w \in writes : Running(w)
BarrierInv == barrier = "write" <=> \E w \in writes : w.owner = "barrier"
AwaitedInv == \A w \in writes : Running(w) \/ w.owner = "barrier"
SingleInv == \A v, w \in writes : v = w

\* While continueAutomatic is queued no write exists, except one that a flush
\* has started in between, which cannot have gone beyond its first job.
ContinuationInv ==
  continuation = "queued" =>
    writes = {} \/ (barrier = "write" /\ \A w \in writes : w.stage = "writing")

TimeInv == Types /\ NoOrphanTimer /\ TimerInv
ControlInv == /\ SingleInv /\ ActiveInv /\ BarrierInv /\ AwaitedInv
              /\ ContinuationInv
\* No event is accepted twice; a flush goes past initialisation, which leaves
\* nothing of the seed when it ends well.
Once == \A i, j \in DOMAIN accepted : accepted[i] = accepted[j] => i = j
SeedInv == /\ init = "ready" => seed = <<>>
           /\ barrier # "none" => init = "ready"

HistoryInv == Once /\ SeedInv

LedgerInv == NothingLost /\ FlushIsDurable

IInv == TimeInv /\ ControlInv /\ HistoryInv /\ LedgerInv
-----------------------------------------------------------------------------
(* Types and timers *)

\* A batch taken from the queue makes a well-typed write.
LEMMA StartWriteType ==
  ASSUME Types, NEW owner \in {"automatic", "barrier"},
         NEW others \in SUBSET writes, StartWrite(owner, others)
  PROVE  /\ writes' \subseteq Write /\ pending' \in Seq(Event)
         /\ active' \in {"none", "write"} /\ deadline' \in {"open", "expired"}
         /\ timer' = "none"
  BY DEF Types, StartWrite, Write, CancelTimer

\* Clearing the timeout keeps the outstanding count a number.
LEMMA CancelTimerType ==
  ASSUME Types, NoOrphanTimer, CancelTimer
  PROVE  scheduled' \in Nat /\ timer' = "none" /\ NoOrphanTimer' /\ TimerInv'
  BY DEF Types, NoOrphanTimer, CancelTimer, TimerInv

LEMMA DrainBarrierType ==
  ASSUME TimeInv, NEW others \in SUBSET writes, DrainBarrier(others)
  PROVE  /\ writes' \subseteq Write /\ pending' \in Seq(Event)
         /\ active' \in {"none", "write"} /\ deadline' \in {"open", "expired"}
         /\ timer' \in {"none", "armed"} /\ scheduled' \in Nat
         /\ NoOrphanTimer' /\ timer' = "none"
         /\ promised' \in Nat /\ barrier' \in {"none", "overlap", "write"}
<1>1. CASE pending # <<>>
  BY <1>1, StartWriteType, CancelTimerType DEF DrainBarrier, StartWrite, Types, TimeInv
<1>2. CASE pending = <<>>
  BY <1>2 DEF DrainBarrier, Types, NoOrphanTimer, TimeInv, TimerInv
<1> QED BY <1>1, <1>2

\* Moving a write to another stage keeps it a write.
LEMMA StageType ==
  ASSUME Types, NEW w \in writes,
         NEW s \in {"writing", "ok", "failed", "committed", "rejected"}
  PROVE  Stage(w, s) \subseteq Write
  BY DEF Types, Stage, Write

\* What is left of a batch is a sequence of events.
LEMMA FreshType ==
  ASSUME NEW b \in Seq(Event)
  PROVE  Fresh(b) \in Seq(Event) /\ Len(Fresh(b)) <= Len(b)
<1>1. CASE b = <<>>
  BY <1>1 DEF Fresh
<1>2. CASE b # <<>>
  <2>1. Tail(b) \in Seq(Event) /\ Len(Tail(b)) = Len(b) - 1 /\ Len(b) \in Nat
    BY <1>2, HeadTailProperties, LenProperties
  <2> QED BY <2>1 DEF Fresh
<1> QED BY <1>1, <1>2

LEMMA NextTimeInv == TimeInv /\ [Next]_vars => TimeInv'
<1> SUFFICES ASSUME TimeInv, [Next]_vars PROVE TimeInv'
  OBVIOUS
<1> USE DEF TimeInv, WriteActive, RememberDeadline, Requeued, RolledBack,
            Overdue, GoesOn
<1>1. ASSUME NEW e \in Event, Enqueue(e) PROVE TimeInv'
  <2>1. accepted' \in Seq(Event) /\ pending' \in Seq(Event) /\ pending' # <<>>
    BY <1>1 DEF Enqueue, Types
  <2>2. CASE barrier = "none" /\ automatic = "paused"
    BY <1>1, <2>1, <2>2 DEF Enqueue, Types, NoOrphanTimer, TimerInv, ArmTimer
  <2>3. CASE barrier = "none" /\ automatic = "running" /\ pending = <<>>
    BY <1>1, <2>1, <2>3 DEF Enqueue, Types, NoOrphanTimer, TimerInv, ArmTimer
  <2>4. CASE barrier # "none" \/ (automatic = "running" /\ pending # <<>>)
    BY <1>1, <2>1, <2>4 DEF Enqueue, Types, NoOrphanTimer, TimerInv, timerVars
  <2> QED BY <2>2, <2>3, <2>4 DEF Types
<1>2. CASE FlushCall
  BY <1>2, CancelTimerType DEF FlushCall, Types, queueVars
<1>3. CASE FlushReady
  <2>1. CASE barrier = "none" /\ active = "none" /\ pending # <<>>
    BY <1>3, <2>1, DrainBarrierType DEF FlushReady, Types, TimerInv
  <2>2. CASE barrier = "none" /\ (active = "write" \/ pending = <<>>)
    BY <1>3, <2>2, CancelTimerType DEF FlushReady, Types
  <2>3. CASE barrier # "none"
    BY <1>3, <2>3 DEF FlushReady, Types, NoOrphanTimer, TimerInv, timerVars
  <2> QED BY <2>1, <2>2, <2>3 DEF Types
<1>4. CASE FlushRefused
  BY <1>4, CancelTimerType DEF FlushRefused, Types, queueVars
<1>5. CASE InitSettles
  <2>1. durable' \in Seq(Event) /\ seed' \in Seq(Event) /\ init' \in {"ready", "failed"}
    <3>1. /\ durable \in Seq(Event) /\ seed \in Seq(Event) /\ durable \o seed \in Seq(Event)
          /\ <<>> \in Seq(Event)
      BY ConcatProperties, EmptySeq DEF Types
    <3> QED BY <1>5, <3>1 DEF InitSettles
  <2> QED BY <1>5, <2>1 DEF InitSettles, Types, NoOrphanTimer, TimerInv, timerVars
<1>6. CASE Deadline
  <2>1. timer = "armed" /\ scheduled = 1
    BY <1>6 DEF Deadline, Types, NoOrphanTimer
  <2>2. CASE active = "write"
    BY <1>6, <2>1, <2>2 DEF Deadline, Types, NoOrphanTimer, TimerInv
  <2>3. CASE active = "none"
    <3>1. writes' \subseteq Write
      BY <1>6, <2>3 DEF Deadline, Types, Write
    <3> QED BY <1>6, <2>1, <2>3, <3>1 DEF Deadline, Types, NoOrphanTimer, TimerInv
  <2> QED BY <2>2, <2>3 DEF Types
<1>7. ASSUME NEW w \in writes, Commit(w) PROVE TimeInv'
  <2>1. w.batch \in Seq(Event)
    BY DEF Types, Write
  <2>2. durable \o Fresh(w.batch) \in Seq(Event)
    BY <2>1, FreshType, ConcatProperties DEF Types
  <2> QED BY <1>7, <2>2, StageType DEF Commit, Types, NoOrphanTimer, TimerInv, timerVars
<1>8. ASSUME NEW w \in writes, Fail(w) PROVE TimeInv'
  <2>1. w.batch \in Seq(Event)
    BY DEF Types, Write
  <2>2. w.batch \o pending \in Seq(Event)
    BY <2>1, ConcatProperties DEF Types
  <2> QED BY <1>8, <2>2, StageType, CancelTimerType DEF Fail, Types
<1>9. ASSUME NEW w \in writes, Finish(w) PROVE TimeInv'
  BY <1>9, StageType DEF Finish, Types, NoOrphanTimer, TimerInv, queueVars, timerVars
<1>10. CASE Continue
  <2>1. CASE StartWrite("automatic", writes)
    BY <1>10, <2>1, StartWriteType, CancelTimerType DEF Continue, Types, StartWrite
  <2>2. CASE UNCHANGED <<pending, timerVars, active, writes>>
    BY <1>10, <2>2 DEF Continue, Types, NoOrphanTimer, TimerInv, timerVars
  <2> QED BY <1>10, <2>1, <2>2 DEF Continue
<1>11. CASE DrainOverlapped
  BY <1>11, DrainBarrierType DEF DrainOverlapped, Types, TimerInv
<1>12. ASSUME NEW w \in writes, DrainWritten(w) PROVE TimeInv'
  <2>1. CASE DrainBarrier(writes \ {w})
    BY <1>12, <2>1, DrainBarrierType DEF DrainWritten, Types, TimerInv
  <2>2. CASE ~DrainBarrier(writes \ {w})
    BY <1>12, <2>2 DEF DrainWritten, Types, NoOrphanTimer, TimerInv, timerVars
  <2> QED BY <2>1, <2>2
<1>13. CASE UNCHANGED vars
  BY <1>13 DEF vars, Types, NoOrphanTimer, TimerInv
<1> QED
  BY <1>1, <1>2, <1>3, <1>4, <1>5, <1>6, <1>7, <1>8, <1>9, <1>10, <1>11, <1>12,
     <1>13 DEF Next, FlushResume, Settle, Reaction

LEMMA InitTimeInv == Init => TimeInv
<1> SUFFICES ASSUME Init PROVE TimeInv
  OBVIOUS
<1> USE DEF Init, Created
<1>1. seed \in Seq(Event) /\ init \in {"pending", "ready"}
  <2>1. <<>> \in Seq(Event) /\ \A e \in Event : <<e>> \in Seq(Event)
    BY EmptySeq
  <2> QED BY <2>1
<1>2. /\ accepted = seed /\ pending \in Seq(Event) /\ scheduled \in Nat
      /\ \/ timer = "none" /\ scheduled = 0
         \/ timer = "armed" /\ scheduled = 1 /\ pending # <<>>
  <2>1. <<>> \in Seq(Event)
    BY EmptySeq
  <2>2. CASE pending = <<>> /\ timer = "none" /\ scheduled = 0
    BY <1>1, <2>1, <2>2
  <2>3. CASE seed # <<>> /\ pending = seed /\ timer = "armed" /\ scheduled = 1
    BY <1>1, <2>3
  <2> QED BY <2>2, <2>3
<1> QED BY <1>1, <1>2, EmptySeq DEF TimeInv, Types, NoOrphanTimer, TimerInv
-----------------------------------------------------------------------------
(* Control: one write at a time, and who owns it *)

\* What startWrite does to the control state when no other write is left.
LEMMA StartWriteControl ==
  ASSUME NEW owner \in {"automatic", "barrier"}, StartWrite(owner, {}),
         (barrier' = "write") <=> (owner = "barrier"),
         continuation' = "queued" => barrier' = "write"
  PROVE  ControlInv'
  BY DEF StartWrite, ControlInv, SingleInv, ActiveInv, BarrierInv, AwaitedInv,
         ContinuationInv, Running

\* One turn of drainBarrier's loop, with its own finished write set aside.
LEMMA DrainBarrierControl ==
  ASSUME Types, DrainBarrier({}), active = "none"
  PROVE  ControlInv'
<1>1. CASE pending # <<>>
  BY <1>1, StartWriteControl DEF DrainBarrier
<1>2. CASE pending = <<>>
  BY <1>2 DEF DrainBarrier, ControlInv, SingleInv, ActiveInv, BarrierInv,
              AwaitedInv, ContinuationInv, Running
<1> QED BY <1>1, <1>2

\* With no unfinished write and no barrier at work there is no write at all.
LEMMA NoWriteLeft ==
  ASSUME Types, ControlInv, active = "none", barrier # "write"
  PROVE  writes = {}
  BY DEF Types, Write, ControlInv, ActiveInv, BarrierInv, AwaitedInv

LEMMA StageSingle ==
  ASSUME SingleInv, NEW w \in writes, NEW s
  PROVE  Stage(w, s) = {[w EXCEPT !.stage = s]}
  BY DEF SingleInv, Stage

LEMMA WriteFields ==
  ASSUME Types, NEW w \in writes, NEW s
  PROVE  /\ [w EXCEPT !.stage = s].stage = s
         /\ [w EXCEPT !.stage = s].owner = w.owner
         /\ [w EXCEPT !.stage = s].batch = w.batch
         /\ w.batch \in Seq(Event) /\ w.owner \in {"automatic", "barrier"}
  BY DEF Types, Write

LEMMA NextControlInv == TimeInv /\ ControlInv /\ [Next]_vars => ControlInv'
<1> USE DEF WriteActive, RememberDeadline, Requeued, RolledBack, Overdue, GoesOn
<1> SUFFICES ASSUME Types, ControlInv, [Next]_vars PROVE ControlInv'
  BY DEF TimeInv
<1> DEFINE Same == UNCHANGED <<active, writes, continuation, barrier>>
<1>0. ASSUME Same PROVE ControlInv'
  BY <1>0 DEF ControlInv, SingleInv, ActiveInv, BarrierInv, AwaitedInv,
              ContinuationInv, Running
<1>1. ASSUME NEW e \in Event, Enqueue(e) PROVE ControlInv'
  BY <1>0, <1>1 DEF Enqueue
<1>2. CASE FlushCall \/ FlushRefused \/ InitSettles
  BY <1>0, <1>2 DEF FlushCall, FlushRefused, InitSettles
<1>3. CASE FlushReady
  <2>1. CASE barrier = "none" /\ active = "none" /\ pending # <<>>
    <3>1. writes = {}
      BY <2>1, NoWriteLeft
    <3> QED BY <1>3, <2>1, <3>1, DrainBarrierControl DEF FlushReady
  <2>2. CASE barrier = "none" /\ active = "write"
    BY <1>3, <2>2 DEF FlushReady, ControlInv, SingleInv, ActiveInv, BarrierInv,
                      AwaitedInv, ContinuationInv, Running
  <2>3. CASE barrier # "none" \/ (active = "none" /\ pending = <<>>)
    BY <1>0, <1>3, <2>3 DEF FlushReady
  <2> QED BY <2>1, <2>2, <2>3 DEF Types
<1>6. CASE Deadline
  <2>1. CASE active = "write"
    BY <1>0, <1>6, <2>1 DEF Deadline
  <2>2. CASE active = "none"
    <3>1. writes = {}
      BY <1>6, <2>2 DEF Deadline, Quiet, ControlInv, ActiveInv, Running
    <3>2. barrier # "write" /\ continuation = "none"
      BY <1>6, <3>1 DEF Deadline, Quiet, ControlInv, BarrierInv
    <3>3. /\ writes' = {[batch |-> pending, owner |-> "automatic", stage |-> "writing"]}
          /\ active' = "write" /\ UNCHANGED <<barrier, continuation>>
      BY <1>6, <2>2, <3>1 DEF Deadline
    <3> QED BY <3>2, <3>3
            DEF ControlInv, SingleInv, ActiveInv, BarrierInv, AwaitedInv,
                ContinuationInv, Running
  <2> QED BY <2>1, <2>2 DEF Types
<1>7. ASSUME NEW w \in writes, Settle(w) PROVE ControlInv'
  <2>1. PICK s \in {"ok", "failed"} : writes' = {[w EXCEPT !.stage = s]}
    BY <1>7, StageSingle DEF Settle, Commit, Fail, ControlInv
  <2>2. /\ UNCHANGED <<active, barrier, continuation>>
        /\ continuation = "none" /\ w.stage = "writing"
    BY <1>7 DEF Settle, Commit, Fail, Quiet
  <2> QED
    BY <2>1, <2>2, WriteFields
    DEF ControlInv, SingleInv, ActiveInv, BarrierInv, AwaitedInv,
        ContinuationInv, Running
<1>9. ASSUME NEW w \in writes, Finish(w) PROVE ControlInv'
  <2>1. CASE w.owner = "automatic"
    <3>1. writes' = {} /\ active' = "none" /\ barrier' = barrier
      BY <1>9, <2>1 DEF Finish, ControlInv, SingleInv
    <3> QED BY <2>1, <3>1
            DEF ControlInv, SingleInv, ActiveInv, BarrierInv, AwaitedInv,
                ContinuationInv, Running
  <2>2. CASE w.owner = "barrier"
    <3>1. PICK s \in {"committed", "rejected"} : writes' = {[w EXCEPT !.stage = s]}
      BY <1>9, <2>2, StageSingle DEF Finish, ControlInv
    <3>2. /\ active' = "none" /\ barrier' = barrier /\ continuation = "none"
          /\ continuation' = "none"
      BY <1>9, <2>2 DEF Finish, ControlInv, ContinuationInv, Types
    <3> QED BY <2>2, <3>1, <3>2, WriteFields
            DEF ControlInv, SingleInv, ActiveInv, BarrierInv, AwaitedInv,
                ContinuationInv, Running
  <2> QED BY <2>1, <2>2, WriteFields
<1>10. CASE Continue
  <2>1. CASE barrier = "none" /\ pending # <<>> /\ deadline = "expired"
    <3>1. writes = {}
      BY <1>10, <2>1 DEF Continue, ControlInv, ContinuationInv
    <3> QED BY <1>10, <2>1, <3>1, StartWriteControl DEF Continue
  <2>2. CASE ~(barrier = "none" /\ pending # <<>> /\ deadline = "expired")
    BY <1>10, <2>2 DEF Continue, ControlInv, SingleInv, ActiveInv, BarrierInv,
                       AwaitedInv, ContinuationInv, Running
  <2> QED BY <2>1, <2>2
<1>11. CASE DrainOverlapped
  <2>1. active = "none"
    BY <1>11 DEF DrainOverlapped, ControlInv, ActiveInv, Types
  <2> QED BY <1>11, <2>1, DrainBarrierControl DEF DrainOverlapped
<1>12. ASSUME NEW w \in writes, DrainWritten(w) PROVE ControlInv'
  <2>1. w.stage \in {"committed", "rejected"} /\ writes \ {w} = {}
    BY <1>12 DEF DrainWritten, ControlInv, SingleInv
  <2>2. active = "none"
    BY <2>1 DEF ControlInv, SingleInv, ActiveInv, Running, Types
  <2>3. CASE w.stage = "committed"
    BY <1>12, <2>1, <2>2, <2>3, DrainBarrierControl DEF DrainWritten
  <2>4. CASE w.stage = "rejected"
    BY <1>12, <2>1, <2>2, <2>4
    DEF DrainWritten, ControlInv, SingleInv, ActiveInv, BarrierInv, AwaitedInv,
        ContinuationInv, Running
  <2> QED BY <2>1, <2>3, <2>4
<1>13. CASE UNCHANGED vars
  BY <1>0, <1>13 DEF vars
<1> QED
  BY <1>1, <1>2, <1>3, <1>6, <1>7, <1>9, <1>10, <1>11, <1>12, <1>13
  DEF Next, FlushResume, Reaction

LEMMA InitControlInv == Init => ControlInv
  BY DEF Init, ControlInv, SingleInv, ActiveInv, BarrierInv, AwaitedInv,
         ContinuationInv, Running
-----------------------------------------------------------------------------
(* The ledger: stored, in-flight and queued events make up the accepted log *)

\* Either no write is in flight, or the only write is.
LEMMA InFlightCases ==
  ASSUME Types, ControlInv, NothingLost
  PROVE  \/ InFlight = {} /\ Stored \o Fresh(pending) = accepted
         \/ \E w \in writes : /\ writes = {w} /\ w.stage = "writing"
                              /\ Stored \o Fresh(w.batch \o pending) = accepted
  BY DEF NothingLost, InFlight, ControlInv, SingleInv

\* Concatenations regroup.
LEMMA Regroup ==
  ASSUME NEW d \in Seq(Event), NEW b \in Seq(Event), NEW p \in Seq(Event)
  PROVE  (d \o b) \o p = d \o (b \o p)
  BY ConcatAssociative, SMTT(30)

\* The head decides what is dropped, so what follows a batch does not matter.
LEMMA FreshConcat ==
  ASSUME NEW b \in Seq(Event), NEW p \in Seq(Event), b # <<>>
  PROVE  Fresh(b \o p) = Fresh(b) \o p
<1> DEFINE q == b \o p
<1>1. /\ q \in Seq(Event) /\ Len(q) = Len(b) + Len(p)
      /\ Len(b) \in Nat \ {0} /\ Len(p) \in Nat
      /\ \A i \in 1..Len(b) + Len(p) : q[i] = IF i <= Len(b) THEN b[i] ELSE p[i - Len(b)]
  BY ConcatProperties, LenProperties, EmptySeq
<1>2. q # <<>> /\ Head(q) = Head(b)
  BY <1>1
<1>3. Tail(q) = Tail(b) \o p
  <2> DEFINE t == Tail(b) \o p
  <2>1. /\ Tail(b) \in Seq(Event) /\ Len(Tail(b)) = Len(b) - 1
        /\ \A i \in 1..Len(b) - 1 : Tail(b)[i] = b[i + 1]
    BY HeadTailProperties
  <2>2. /\ t \in Seq(Event) /\ Len(t) = Len(b) - 1 + Len(p)
        /\ \A i \in 1..Len(b) - 1 + Len(p) :
             t[i] = IF i <= Len(b) - 1 THEN Tail(b)[i] ELSE p[i - (Len(b) - 1)]
    BY <2>1, ConcatProperties
  <2>3. /\ Tail(q) \in Seq(Event) /\ Len(Tail(q)) = Len(q) - 1
        /\ \A i \in 1..Len(q) - 1 : Tail(q)[i] = q[i + 1]
    BY <1>1, <1>2, HeadTailProperties
  <2> HIDE DEF q, t
  <2>4. ASSUME NEW i \in 1..Len(t) PROVE Tail(q)[i] = t[i]
    <3>1. i \in 1..Len(q) - 1 /\ i + 1 \in 1..Len(b) + Len(p)
          /\ i \in 1..Len(b) - 1 + Len(p)
      BY <1>1, <2>2
    <3>2. CASE i <= Len(b) - 1
      <4>1. t[i] = Tail(b)[i] /\ i \in 1..Len(b) - 1
        BY <1>1, <2>2, <3>1, <3>2
      <4>2. q[i + 1] = b[i + 1]
        BY <1>1, <3>1, <3>2
      <4> QED BY <2>1, <2>3, <3>1, <4>1, <4>2
    <3>3. CASE ~(i <= Len(b) - 1)
      <4>1. i + 1 - Len(b) = i - (Len(b) - 1)
        BY <1>1
      <4>2. t[i] = p[i - (Len(b) - 1)]
        BY <2>2, <3>1, <3>3
      <4>3. q[i + 1] = p[i + 1 - Len(b)]
        BY <1>1, <3>1, <3>3
      <4> QED BY <2>3, <3>1, <4>1, <4>2, <4>3
    <3> QED BY <3>2, <3>3
  <2>5. Len(Tail(q)) = Len(t) /\ \A i \in 1..Len(Tail(q)) : Tail(q)[i] = t[i]
    BY <1>1, <2>2, <2>3, <2>4
  <2> QED BY <2>2, <2>3, <2>5, SeqEqual DEF t
<1> HIDE DEF q
<1> QED BY <1>2, <1>3 DEF Fresh, q

\* A newly accepted event is at no place of the stored log: it is kept.
LEMMA FreshAppend ==
  ASSUME NEW q \in Seq(Event), NEW e \in Event, \A i \in DOMAIN Stored : Stored[i] # e
  PROVE  Fresh(q \o <<e>>) = Fresh(q) \o <<e>>
<1>1. <<e>> \in Seq(Event)
  OBVIOUS
<1>2. CASE q = <<>>
  <2>1. q \o <<e>> = <<e>> /\ Fresh(q) = <<>>
    BY <1>1, <1>2, ConcatEmptySeq DEF Fresh
  <2> QED BY <1>1, <2>1, ConcatEmptySeq DEF Fresh
<1>3. CASE q # <<>>
  BY <1>1, <1>3, FreshConcat
<1> QED BY <1>2, <1>3

\* A place of a sequence is one of its concatenation with another.
LEMMA ConcatPlaces ==
  ASSUME NEW s \in Seq(Event), NEW t \in Seq(Event)
  PROVE  /\ DOMAIN s \subseteq DOMAIN (s \o t)
         /\ \A i \in DOMAIN s : (s \o t)[i] = s[i]
         /\ t # <<>> => /\ Len(s) + 1 \in DOMAIN (s \o t)
                        /\ Len(s) + 1 \notin DOMAIN s
                        /\ (s \o t)[Len(s) + 1] = Head(t)
<1>1. /\ s \o t \in Seq(Event) /\ Len(s \o t) = Len(s) + Len(t)
      /\ Len(s) \in Nat /\ Len(t) \in Nat /\ DOMAIN s = 1..Len(s)
      /\ \A i \in 1..Len(s) + Len(t) : (s \o t)[i] = IF i <= Len(s) THEN s[i] ELSE t[i - Len(s)]
  BY ConcatProperties, LenProperties
<1>2. DOMAIN (s \o t) = 1..Len(s) + Len(t)
  BY <1>1, LenProperties
<1>3. ASSUME t # <<>>
      PROVE  /\ Len(s) + 1 \in DOMAIN (s \o t) /\ Len(s) + 1 \notin DOMAIN s
             /\ (s \o t)[Len(s) + 1] = Head(t)
  <2>1. Len(t) # 0
    BY <1>3, EmptySeq
  <2>2. Len(s) + 1 \in 1..Len(s) + Len(t) /\ Len(s) + 1 - Len(s) = 1
    BY <1>1, <2>1
  <2>3. (s \o t)[Len(s) + 1] = t[1]
    BY <1>1, <2>2
  <2> QED BY <1>1, <1>2, <2>2, <2>3
<1> QED BY <1>1, <1>2, <1>3

\* Stored events are accepted, so an event accepted only now is not stored.
LEMMA NotStored ==
  ASSUME Types, NEW q \in Seq(Event), Stored \o q = accepted,
         NEW e, e \notin {accepted[i] : i \in 1..Len(accepted)}
  PROVE  \A i \in DOMAIN Stored : Stored[i] # e
<1>1. Stored \in Seq(Event) /\ DOMAIN accepted = 1..Len(accepted)
  BY ConcatProperties, LenProperties DEF Types, Stored
<1> QED BY <1>1, ConcatPlaces

\* A committed batch leaves the queue behind it as it is.
LEMMA CommitLedger ==
  ASSUME Types, Once, NEW b \in Seq(Event), seed = <<>>, UNCHANGED <<accepted, seed, pending>>,
         Stored \o Fresh(b \o pending) = accepted, durable' = durable \o Fresh(b)
  PROVE  /\ Stored' \o Fresh(pending)' = accepted'
         /\ Len(durable') \in Nat /\ Len(durable) <= Len(durable')
<1>1. /\ durable \in Seq(Event) /\ pending \in Seq(Event) /\ Fresh(b) \in Seq(Event)
      /\ Fresh(pending) \in Seq(Event)
  BY FreshType DEF Types
<1>2. /\ durable' \in Seq(Event) /\ Len(durable') = Len(durable) + Len(Fresh(b))
      /\ Len(durable) \in Nat /\ Len(Fresh(b)) \in Nat
  BY <1>1, ConcatProperties, LenProperties
<1>3. Stored = durable /\ Stored' = durable'
  BY <1>1, <1>2, ConcatEmptySeq DEF Stored
<1>4. CASE b = <<>>
  <2>1. Fresh(b) = <<>> /\ b \o pending = pending
    BY <1>1, <1>4, ConcatEmptySeq DEF Fresh
  <2>2. durable' = durable
    BY <1>1, <2>1, ConcatEmptySeq
  <2>3. Fresh(pending)' = Fresh(pending)
    BY <1>3, <2>2 DEF Fresh
  <2> QED BY <1>2, <1>3, <2>1, <2>2, <2>3
<1>5. CASE b # <<>>
  <2>1. durable' \o pending = accepted
    <3>1. durable \o (Fresh(b) \o pending) = accepted
      BY <1>1, <1>3, <1>5, FreshConcat
    <3>2. (durable \o Fresh(b)) \o pending = durable \o (Fresh(b) \o pending)
      BY <1>1, Regroup
    <3> QED BY <3>1, <3>2
  <2>2. ASSUME pending # <<>>, NEW i \in DOMAIN durable', durable'[i] = Head(pending)
        PROVE  FALSE
    <3> DEFINE d == durable'
    <3>1. d \in Seq(Event) /\ d \o pending = accepted /\ i \in DOMAIN d
      BY <1>2, <2>1, <2>2
    <3> HIDE DEF d
    <3>2. /\ DOMAIN d \subseteq DOMAIN (d \o pending)
          /\ \A j \in DOMAIN d : (d \o pending)[j] = d[j]
          /\ Len(d) + 1 \in DOMAIN (d \o pending) /\ Len(d) + 1 \notin DOMAIN d
          /\ (d \o pending)[Len(d) + 1] = Head(pending)
      BY <1>1, <2>2, <3>1, ConcatPlaces
    <3>3. d[i] = Head(pending)
      BY <2>2 DEF d
    <3> QED BY <3>1, <3>2, <3>3 DEF Once
  <2>3. Fresh(pending)' = pending
    BY <1>3, <2>2 DEF Fresh
  <2>4. Stored' \o Fresh(pending)' = accepted'
    BY <1>3, <2>1, <2>3
  <2> QED BY <1>2, <2>4
<1> QED BY <1>4, <1>5

\* Initialisation stores its seed: what was stored or to be stored is the same.
LEMMA InitLedger ==
  ASSUME Types, InitSettles
  PROVE  /\ Stored' = Stored /\ durable' \in Seq(Event)
         /\ Len(durable') \in Nat /\ Len(durable) <= Len(durable')
<1>1. durable \in Seq(Event) /\ seed \in Seq(Event)
  BY DEF Types
<1>2. /\ durable \o seed \in Seq(Event) /\ Len(durable \o seed) = Len(durable) + Len(seed)
      /\ Len(durable) \in Nat /\ Len(seed) \in Nat
  BY <1>1, ConcatProperties, LenProperties
<1>3. CASE durable' = durable \o seed /\ seed' = <<>>
  BY <1>2, <1>3, ConcatEmptySeq DEF Stored
<1>4. CASE UNCHANGED <<durable, seed>>
  BY <1>1, <1>2, <1>4 DEF Stored
<1> QED BY <1>3, <1>4 DEF InitSettles

\* Each event is accepted once.
LEMMA NextOnce == Types /\ Once /\ [Next]_vars => Once'
<1> SUFFICES ASSUME Types, Once, [Next]_vars PROVE Once'
  OBVIOUS
<1>1. ASSUME NEW e \in Event, Enqueue(e) PROVE Once'
  <2>1. /\ accepted \in Seq(Event) /\ accepted' = Append(accepted, e)
        /\ \A i \in 1..Len(accepted) : accepted[i] # e
    BY <1>1 DEF Enqueue, Types
  <2>2. DOMAIN accepted = 1..Len(accepted) /\ Len(accepted) \in Nat
    BY <2>1, LenProperties
  <2>3. DOMAIN accepted' = 1..Len(accepted) + 1
    BY <2>1, <2>2
  <2>4. ASSUME NEW i \in 1..Len(accepted) PROVE accepted'[i] = accepted[i]
    BY <2>1, <2>2
  <2>5. accepted'[Len(accepted) + 1] = e
    BY <2>1, <2>2
  <2> QED BY <2>1, <2>2, <2>3, <2>4, <2>5 DEF Once
<1>2. CASE UNCHANGED accepted
  BY <1>2 DEF Once
<1>3. (\E e \in Event : Enqueue(e)) \/ UNCHANGED accepted
  BY DEF Next, FlushCall, FlushResume, FlushReady, FlushRefused,
     InitSettles, Deadline, Settle, Commit, Fail, Reaction, Continue, DrainOverlapped,
     Finish, DrainWritten, queueVars, vars
<1> QED BY <1>1, <1>2, <1>3

\* Initialisation that ended well has stored the seed, and no flush passes it before.
LEMMA NextSeedInv == Types /\ SeedInv /\ [Next]_vars => SeedInv'
<1> SUFFICES ASSUME Types, SeedInv, [Next]_vars PROVE SeedInv'
  OBVIOUS
<1>1. CASE InitSettles
  BY <1>1 DEF InitSettles, SeedInv
<1>2. CASE UNCHANGED <<init, seed>> /\ (barrier' # "none" => barrier # "none" \/ init = "ready")
  BY <1>2 DEF SeedInv
<1>3. CASE FlushReady
  BY <1>2, <1>3 DEF FlushReady, queueVars
<1>4. CASE DrainOverlapped \/ \E w \in writes : DrainWritten(w)
  BY <1>2, <1>4 DEF DrainOverlapped, DrainWritten
<1>5. InitSettles \/ FlushReady \/ DrainOverlapped \/ (\E w \in writes : DrainWritten(w))
      \/ UNCHANGED <<init, seed, barrier>>
  BY DEF Next, FlushCall, FlushResume, FlushRefused, Enqueue,
     Deadline, Settle, Commit, Fail, Reaction, Continue, Finish, queueVars, vars
<1> QED BY <1>1, <1>2, <1>3, <1>4, <1>5

\* The only write has left the "writing" stage: nothing is in flight.
LEMMA Restaged ==
  ASSUME Types, NEW w \in writes, NEW s, s # "writing",
         writes' = {[w EXCEPT !.stage = s]}
  PROVE  InFlight' = {}
<1>1. [w EXCEPT !.stage = s].stage = s
  BY WriteFields
<1>2. \A x \in writes' : x.stage # "writing"
  BY <1>1
<1> QED BY <1>2 DEF InFlight

\* A started write holds the queue it has taken.
LEMMA StartWriteLedger ==
  ASSUME Types, NEW owner, NEW others, StartWrite(owner, others),
         UNCHANGED <<accepted, durable, seed>>, Stored \o Fresh(pending) = accepted
  PROVE  NothingLost'
<1>0. PICK w : w = [batch |-> pending, owner |-> owner, stage |-> "writing"]
  OBVIOUS
<1>1. w \in InFlight' /\ w.batch = pending
  BY <1>0 DEF StartWrite, InFlight
<1>2. w.batch \o pending' = pending /\ Stored' = Stored
  BY <1>1, ConcatEmptySeq DEF StartWrite, Types, Stored
<1>3. Stored' \o Fresh(w.batch \o pending)' = accepted'
  <2>1. Fresh(w.batch \o pending)' = Fresh(pending)
    BY <1>2 DEF Fresh
  <2> QED BY <1>2, <2>1
<1> QED BY <1>1, <1>3 DEF NothingLost

LEMMA DrainBarrierLedger ==
  ASSUME Types, DrainBarrier({}), UNCHANGED <<accepted, durable, seed>>, seed = <<>>,
         Stored \o Fresh(pending) = accepted, FlushIsDurable
  PROVE  LedgerInv'
<1>1. CASE pending # <<>>
  BY <1>1, StartWriteLedger DEF DrainBarrier, LedgerInv, FlushIsDurable
<1>2. CASE pending = <<>>
  <2>1. durable = accepted /\ Stored' = Stored /\ Fresh(pending) = <<>>
    BY <1>2, ConcatEmptySeq DEF Types, Stored, Fresh
  <2>2. Fresh(pending)' = Fresh(pending)
    BY <1>2, <2>1 DEF DrainBarrier, Fresh
  <2>3. Len(durable) \in Nat
    BY LenProperties DEF Types
  <2>4. promised' = Len(accepted) /\ InFlight' = {}
    BY <1>2 DEF DrainBarrier, InFlight
  <2>5. Stored' \o Fresh(pending)' = accepted'
    BY <2>1, <2>2
  <2> QED BY <2>1, <2>3, <2>4, <2>5 DEF LedgerInv, FlushIsDurable, NothingLost
<1> QED BY <1>1, <1>2

\* Where nothing of the ledger changes, the ledger stays.
LEMMA LedgerKept ==
  ASSUME LedgerInv, UNCHANGED <<accepted, durable, seed, pending, writes, promised>>
  PROVE  LedgerInv'
<1>1. Stored' = Stored /\ InFlight' = InFlight /\ pending' = pending /\ accepted' = accepted
  BY DEF Stored, InFlight
<1>2. Fresh(pending)' = Fresh(pending)
  BY <1>1 DEF Fresh
<1>3. ASSUME NEW w PROVE Fresh(w.batch \o pending)' = Fresh(w.batch \o pending)
  BY <1>1 DEF Fresh
<1>4. NothingLost'
  BY <1>1, <1>2, <1>3 DEF LedgerInv, NothingLost
<1> QED BY <1>4 DEF LedgerInv, FlushIsDurable

LEMMA NextLedgerInv ==
  TimeInv /\ ControlInv /\ HistoryInv /\ LedgerInv /\ [Next]_vars => LedgerInv'
<1> USE DEF WriteActive, RememberDeadline, Requeued, RolledBack, Overdue, GoesOn
<1> SUFFICES ASSUME Types, ControlInv, Once, SeedInv, NothingLost, FlushIsDurable,
                    [Next]_vars
             PROVE  LedgerInv'
  BY DEF TimeInv, HistoryInv, LedgerInv
<1> DEFINE Same == UNCHANGED <<accepted, durable, seed, pending, writes, promised>>
<1>0. ASSUME Same PROVE LedgerInv'
  BY <1>0, LedgerKept DEF LedgerInv
<1>1. ASSUME NEW e \in Event, Enqueue(e) PROVE LedgerInv'
  <2>1. /\ pending' = pending \o <<e>> /\ accepted' = accepted \o <<e>>
        /\ pending \in Seq(Event) /\ <<e>> \in Seq(Event)
        /\ e \notin {accepted[i] : i \in 1..Len(accepted)}
    BY <1>1, AppendIsConcat DEF Enqueue, Types
  <2>2. /\ UNCHANGED <<durable, seed, writes, promised>> /\ InFlight' = InFlight
        /\ Stored' = Stored /\ Stored \in Seq(Event)
    BY <1>1, ConcatProperties DEF Enqueue, InFlight, Types, Stored
  <2>3. ASSUME NEW q \in Seq(Event), Stored \o Fresh(q) = accepted
        PROVE  Stored \o Fresh(q \o <<e>>) = accepted'
    <3>1. Fresh(q) \in Seq(Event)
      BY FreshType
    <3>2. Fresh(q \o <<e>>) = Fresh(q) \o <<e>>
      BY <2>1, <2>3, <3>1, NotStored, FreshAppend
    <3>3. Stored \o (Fresh(q) \o <<e>>) = (Stored \o Fresh(q)) \o <<e>>
      BY <2>1, <2>2, <3>1, ConcatAssociative
    <3> QED BY <2>1, <2>3, <3>2, <3>3
  <2>4. NothingLost'
    <3>1. CASE InFlight = {} /\ Stored \o Fresh(pending) = accepted
      <4>1. Fresh(pending)' = Fresh(pending \o <<e>>)
        BY <2>1, <2>2 DEF Fresh
      <4> QED BY <2>1, <2>2, <2>3, <3>1, <4>1 DEF NothingLost
    <3>2. ASSUME NEW w \in InFlight, Stored \o Fresh(w.batch \o pending) = accepted
          PROVE  NothingLost'
      <4>1. w.batch \in Seq(Event) /\ w.batch \o pending \in Seq(Event)
        BY <2>1, WriteFields, ConcatProperties DEF InFlight
      <4>2. w.batch \o pending' = (w.batch \o pending) \o <<e>>
        <5>1. w.batch \o (pending \o <<e>>) = (w.batch \o pending) \o <<e>>
          BY <2>1, <4>1, Regroup
        <5> QED BY <2>1, <5>1
      <4>3. Fresh(w.batch \o pending)' = Fresh((w.batch \o pending) \o <<e>>)
        BY <2>2, <4>2 DEF Fresh
      <4> QED BY <2>2, <2>3, <3>2, <4>1, <4>3 DEF NothingLost
    <3> QED BY <3>1, <3>2 DEF NothingLost
  <2> QED BY <2>2, <2>4 DEF LedgerInv, FlushIsDurable
<1>2. CASE FlushCall \/ FlushRefused
  BY <1>0, <1>2 DEF FlushCall, FlushRefused, queueVars
<1>201. CASE InitSettles
  <2>1. Stored' = Stored /\ Len(durable') \in Nat /\ Len(durable) <= Len(durable')
    BY <1>201, InitLedger
  <2>2. UNCHANGED <<accepted, pending, writes, promised>> /\ InFlight' = InFlight
    BY <1>201 DEF InitSettles, InFlight
  <2>3. Fresh(pending)' = Fresh(pending)
    BY <2>1, <2>2 DEF Fresh
  <2>4. ASSUME NEW w PROVE Fresh(w.batch \o pending)' = Fresh(w.batch \o pending)
    BY <2>1, <2>2 DEF Fresh
  <2>5. NothingLost'
    BY <2>1, <2>2, <2>3, <2>4 DEF NothingLost
  <2>6. promised \in Nat /\ Len(durable) \in Nat
    BY LenProperties DEF Types
  <2> QED BY <2>1, <2>2, <2>5, <2>6 DEF LedgerInv, FlushIsDurable
<1>3. CASE FlushReady
  <2>1. CASE barrier = "none" /\ active = "none"
    <3>1. writes = {} /\ Stored \o Fresh(pending) = accepted
      BY <2>1, NoWriteLeft DEF NothingLost, InFlight
    <3>2. seed = <<>>
      BY <1>3 DEF FlushReady, SeedInv
    <3>3. CASE pending # <<>>
      BY <1>3, <2>1, <3>1, <3>2, <3>3, DrainBarrierLedger DEF FlushReady
    <3>4. CASE pending = <<>>
      <4>1. durable = accepted
        BY <3>1, <3>2, <3>4, ConcatEmptySeq DEF Types, Stored, Fresh
      <4>2. UNCHANGED <<accepted, durable, seed, pending, writes>> /\ promised' = Len(accepted)
        BY <1>3, <2>1, <3>4 DEF FlushReady
      <4>3. Stored' = Stored /\ Fresh(pending)' = Fresh(pending) /\ InFlight' = {}
        BY <3>1, <4>2 DEF Stored, Fresh, InFlight
      <4>4. Len(durable) \in Nat
        BY LenProperties DEF Types
      <4> QED BY <3>1, <4>1, <4>2, <4>3, <4>4 DEF LedgerInv, NothingLost, FlushIsDurable
    <3> QED BY <3>3, <3>4
  <2>2. CASE barrier # "none" \/ active = "write"
    BY <1>0, <1>3, <2>2 DEF FlushReady
  <2> QED BY <2>1, <2>2 DEF Types
<1>6. CASE Deadline
  <2>1. CASE active = "write"
    BY <1>0, <1>6, <2>1 DEF Deadline
  <2>2. CASE active = "none"
    <3>0. PICK w : w = [batch |-> pending, owner |-> "automatic", stage |-> "writing"]
      OBVIOUS
    <3>1. Stored \o Fresh(pending) = accepted
      BY <2>2 DEF NothingLost, InFlight, ControlInv, ActiveInv, Running
    <3>2. /\ w \in InFlight' /\ w.batch \o pending' = pending /\ Stored' = Stored
          /\ accepted' = accepted
      BY <1>6, <2>2, <3>0, ConcatEmptySeq DEF Deadline, InFlight, Types, Stored
    <3>3. Stored' \o Fresh(w.batch \o pending)' = accepted'
      <4>1. Fresh(w.batch \o pending)' = Fresh(pending)
        BY <3>2 DEF Fresh
      <4> QED BY <3>1, <3>2, <4>1
    <3> QED BY <1>6, <3>2, <3>3 DEF Deadline, LedgerInv, NothingLost, FlushIsDurable
  <2> QED BY <2>1, <2>2 DEF Types
<1>7. ASSUME NEW w \in writes, Commit(w) PROVE LedgerInv'
  <2>1. Stored \o Fresh(w.batch \o pending) = accepted /\ writes = {w}
    BY <1>7, InFlightCases DEF Commit, InFlight
  <2>2. InFlight' = {}
    <3>1. writes' = {[w EXCEPT !.stage = "ok"]}
      BY <1>7, StageSingle DEF Commit, ControlInv
    <3> QED BY <3>1, Restaged
  <2>3. /\ w.batch \in Seq(Event) /\ seed = <<>>
        /\ UNCHANGED <<accepted, seed, pending, promised>>
        /\ durable' = durable \o Fresh(w.batch)
    BY <1>7, WriteFields DEF Commit, SeedInv
  <2>4. /\ Stored' \o Fresh(pending)' = accepted'
        /\ Len(durable') \in Nat /\ Len(durable) <= Len(durable')
    BY <2>1, <2>3, CommitLedger
  <2>5. promised \in Nat /\ Len(durable) \in Nat
    BY LenProperties DEF Types
  <2> QED BY <2>2, <2>3, <2>4, <2>5 DEF LedgerInv, NothingLost, FlushIsDurable
<1>8. ASSUME NEW w \in writes, Fail(w) PROVE LedgerInv'
  <2>1. Stored \o Fresh(w.batch \o pending) = accepted /\ writes = {w}
    BY <1>8, InFlightCases DEF Fail, InFlight
  <2>2. InFlight' = {}
    <3>1. writes' = {[w EXCEPT !.stage = "failed"]}
      BY <1>8, StageSingle DEF Fail, ControlInv
    <3> QED BY <3>1, Restaged
  <2>3. /\ pending' = w.batch \o pending /\ UNCHANGED <<accepted, durable, seed, promised>>
        /\ Stored' = Stored
    BY <1>8 DEF Fail, Stored
  <2>4. Fresh(pending)' = Fresh(w.batch \o pending)
    BY <2>3 DEF Fresh
  <2> QED BY <2>1, <2>2, <2>3, <2>4 DEF LedgerInv, NothingLost, FlushIsDurable
<1>9. ASSUME NEW w \in writes, Finish(w) PROVE LedgerInv'
  <2>1. writes = {w} /\ w.stage # "writing"
    BY <1>9 DEF Finish, ControlInv, SingleInv
  <2>2. InFlight' = {}
    <3>1. CASE w.owner = "automatic"
      BY <1>9, <2>1, <3>1 DEF Finish, InFlight
    <3>2. CASE w.owner = "barrier"
      <4>1. PICK s \in {"committed", "rejected"} : writes' = {[w EXCEPT !.stage = s]}
        BY <1>9, <3>2, StageSingle DEF Finish, ControlInv
      <4> QED BY <4>1, Restaged
    <3> QED BY <3>1, <3>2, WriteFields
  <2>3. UNCHANGED <<accepted, durable, seed, pending, promised>> /\ Stored' = Stored
    BY <1>9 DEF Finish, queueVars, Stored
  <2>4. Fresh(pending)' = Fresh(pending)
    BY <2>3 DEF Fresh
  <2>5. InFlight = {}
    BY <2>1 DEF InFlight
  <2> QED BY <2>2, <2>3, <2>4, <2>5 DEF LedgerInv, NothingLost, FlushIsDurable
<1>10. CASE Continue
  <2>1. CASE barrier = "none" /\ pending # <<>> /\ deadline = "expired"
    <3>1. writes = {}
      BY <1>10, <2>1 DEF Continue, ControlInv, ContinuationInv
    <3>2. Stored \o Fresh(pending) = accepted
      BY <3>1 DEF NothingLost, InFlight
    <3> QED BY <1>10, <2>1, <3>2, StartWriteLedger
            DEF Continue, LedgerInv, FlushIsDurable
  <2>2. CASE ~(barrier = "none" /\ pending # <<>> /\ deadline = "expired")
    BY <1>0, <1>10, <2>2 DEF Continue
  <2> QED BY <2>1, <2>2
<1>11. CASE DrainOverlapped
  <2>1. Stored \o Fresh(pending) = accepted
    BY <1>11 DEF DrainOverlapped, NothingLost, InFlight
  <2>2. seed = <<>>
    BY <1>11 DEF DrainOverlapped, SeedInv
  <2> QED BY <1>11, <2>1, <2>2, DrainBarrierLedger DEF DrainOverlapped
<1>12. ASSUME NEW w \in writes, DrainWritten(w) PROVE LedgerInv'
  <2>1. w.stage \in {"committed", "rejected"} /\ writes = {w} /\ writes \ {w} = {}
    BY <1>12 DEF DrainWritten, ControlInv, SingleInv
  <2>2. Stored \o Fresh(pending) = accepted
    BY <2>1 DEF NothingLost, InFlight
  <2>3. CASE w.stage = "committed"
    <3>1. seed = <<>>
      BY <1>12 DEF DrainWritten, SeedInv
    <3> QED BY <1>12, <2>1, <2>2, <2>3, <3>1, DrainBarrierLedger DEF DrainWritten
  <2>4. CASE w.stage = "rejected"
    <3>1. /\ UNCHANGED <<accepted, durable, seed, pending, promised>> /\ Stored' = Stored
          /\ InFlight' = {}
      BY <1>12, <2>1, <2>4 DEF DrainWritten, Stored, InFlight
    <3>2. Fresh(pending)' = Fresh(pending)
      BY <3>1 DEF Fresh
    <3> QED BY <2>2, <3>1, <3>2 DEF LedgerInv, NothingLost, FlushIsDurable
  <2> QED BY <2>1, <2>3, <2>4
<1>13. CASE UNCHANGED vars
  BY <1>0, <1>13 DEF vars
<1> QED
  BY <1>1, <1>2, <1>201, <1>3, <1>6, <1>7, <1>8, <1>9, <1>10, <1>11, <1>12, <1>13
  DEF Next, FlushResume, Reaction, Settle

\* A new controller holds its seed, whose event may be queued as well.
LEMMA InitLedgerInv == Init => LedgerInv /\ HistoryInv
<1> SUFFICES ASSUME Init PROVE LedgerInv /\ HistoryInv
  OBVIOUS
<1>1. /\ accepted = seed /\ durable = <<>> /\ promised = 0 /\ writes = {}
      /\ pending = <<>> \/ (seed # <<>> /\ pending = seed)
      /\ seed = <<>> \/ (init = "pending" /\ \E e \in Event : seed = <<e>>)
      /\ barrier = "none" /\ seed \in Seq(Event)
  BY InitTimeInv DEF Init, Created, TimeInv, Types
<1>2. Stored = seed
  BY <1>1, ConcatEmptySeq DEF Stored
<1>3. Fresh(pending) = <<>>
  <2>1. ASSUME NEW e \in Event, seed = <<e>>, pending = seed PROVE Fresh(pending) = <<>>
    <3>1. 1 \in DOMAIN Stored /\ Stored[1] = Head(pending) /\ Tail(pending) = <<>>
          /\ pending # <<>>
      BY <1>2, <2>1
    <3> QED BY <3>1 DEF Fresh
  <2>2. CASE pending = <<>>
    BY <2>2 DEF Fresh
  <2> QED BY <1>1, <2>1, <2>2
<1>4. NothingLost /\ FlushIsDurable
  BY <1>1, <1>2, <1>3, ConcatEmptySeq DEF NothingLost, FlushIsDurable, InFlight
<1>5. Once /\ SeedInv
  BY <1>1 DEF Once, SeedInv
<1> QED BY <1>4, <1>5 DEF LedgerInv, HistoryInv

LEMMA Invariance == Spec => []IInv
<1>1. Init => IInv
  BY InitTimeInv, InitControlInv, InitLedgerInv DEF IInv
<1>2. IInv /\ [Next]_vars => IInv'
  BY NextTimeInv, NextControlInv, NextOnce, NextSeedInv, NextLedgerInv
    DEF IInv, TimeInv, HistoryInv
<1> QED BY <1>1, <1>2, PTL DEF Spec
-----------------------------------------------------------------------------
(* Results *)

\* The controller's variables keep their types, and this.active mirrors the
\* write that has not passed its finally handler.
THEOREM TypeCorrect == Spec => []TypeOK
<1>1. IInv => TypeOK
  BY DEF IInv, TimeInv, ControlInv, ActiveInv, TypeOK
<1> QED BY <1>1, Invariance, PTL

\* There is never more than one backend write of a session in flight.
THEOREM SingleWriter == Spec => []OneActiveWrite
<1>1. IInv => OneActiveWrite
  <2> SUFFICES ASSUME SingleInv PROVE OneActiveWrite
    BY DEF IInv, ControlInv
  <2>1. CASE InFlight = {}
    BY <2>1, FS_EmptySet DEF OneActiveWrite
  <2>2. ASSUME NEW w \in InFlight PROVE OneActiveWrite
    <3>1. InFlight = {w}
      BY <2>2 DEF SingleInv, InFlight
    <3>2. Cardinality({w}) = 1
      BY FS_Singleton
    <3> QED BY <3>1, <3>2 DEF OneActiveWrite
  <2> QED BY <2>1, <2>2
<1> QED BY <1>1, Invariance, PTL

\* Every accepted event is stored, in flight or queued: once, and in order.
THEOREM EventsAccounted == Spec => []NothingLost
  BY Invariance, PTL DEF IInv, LedgerInv

\* A flush resolves only when what was accepted by then is stored.
THEOREM FlushDurability == Spec => []FlushIsDurable
  BY Invariance, PTL DEF IInv, LedgerInv

\* No timeout is left behind that this.timer cannot clear.
THEOREM TimerOwnership == Spec => []NoOrphanTimer
  BY Invariance, PTL DEF IInv, TimeInv

\* A prefix of a sequence is the subsequence up to its length.
LEMMA PrefixOfConcat ==
  ASSUME NEW d \in Seq(Event), NEW p \in Seq(Event)
  PROVE  d = SubSeq(d \o p, 1, Len(d))
<1> DEFINE s == d \o p
<1>1. s \in Seq(Event) /\ Len(s) = Len(d) + Len(p) /\ Len(d) \in Nat /\ Len(p) \in Nat
  BY ConcatProperties, LenProperties
<1>2. \A i \in 1..Len(d) : s[i] = d[i]
  BY <1>1, ConcatProperties
<1>3. \A i \in 1..Len(d) : s[i] \in Event
  BY <1>1, ElementOfSeq
<1> HIDE DEF s
<1>4. /\ SubSeq(s, 1, Len(d)) \in Seq(Event)
      /\ Len(SubSeq(s, 1, Len(d))) = Len(d)
      /\ \A i \in 1..Len(d) : SubSeq(s, 1, Len(d))[i] = s[i]
  BY <1>1, <1>3, SubSeqProperties
<1>5. d = SubSeq(s, 1, Len(d))
  BY <1>2, <1>4, SeqEqual
<1> QED BY <1>5 DEF s

\* A longer prefix of the accepted log becomes the stored one.
LEMMA PersistStep ==
  ASSUME durable \in Seq(Event), durable' \in Seq(Event), Len(durable) <= Len(durable'),
         NEW q \in Seq(Event), durable' \o q = accepted, UNCHANGED accepted
  PROVE  Log!Persist
<1>1. durable' = SubSeq(accepted, 1, Len(durable'))
  BY PrefixOfConcat
<1>2. Len(durable') \in Nat /\ Len(durable) \in Nat /\ Len(q) \in Nat
      /\ Len(accepted) = Len(durable') + Len(q)
  BY LenProperties, ConcatProperties
<1>3. Len(durable') \in Len(durable)..Len(accepted)
  BY <1>2
<1> QED BY <1>1, <1>3 DEF Log!Persist

\* Every step of the controller is a step of the abstract stored log.
LEMMA StepImplements == IInv /\ [Next]_vars => [Log!Next]_(Log!vars)
<1> SUFFICES ASSUME IInv, [Next]_vars PROVE [Log!Next]_(Log!vars)
  OBVIOUS
<1> USE DEF Log!Next, Log!vars
<1>1. ASSUME NEW e \in Event, Enqueue(e) PROVE Log!Next
  BY <1>1 DEF Enqueue, Log!Accept
<1>2. ASSUME NEW w \in writes, Commit(w) PROVE Log!Next
  <2>1. /\ Types /\ Once /\ seed = <<>> /\ Stored \o Fresh(w.batch \o pending) = accepted
        /\ w.batch \in Seq(Event) /\ UNCHANGED <<accepted, seed, pending>>
        /\ durable' = durable \o Fresh(w.batch)
    BY <1>2, InFlightCases, WriteFields
      DEF Commit, InFlight, IInv, TimeInv, LedgerInv, HistoryInv, SeedInv
  <2>2. /\ Stored' \o Fresh(pending)' = accepted
        /\ Len(durable') \in Nat /\ Len(durable) <= Len(durable')
    BY <2>1, CommitLedger
  <2>3. durable' \in Seq(Event) /\ pending \in Seq(Event) /\ durable \in Seq(Event)
    BY <2>1, FreshType, ConcatProperties DEF Types
  <2>4. Stored' = durable' /\ Fresh(pending)' \in Seq(Event)
    <3>1. Stored' = durable'
      BY <2>1, <2>3, ConcatEmptySeq DEF Stored
    <3>2. Fresh(pending)' \in {pending, Tail(pending)} /\ (pending = <<>> => Fresh(pending)' = pending)
      BY <2>1 DEF Fresh
    <3> QED BY <2>3, <3>1, <3>2, HeadTailProperties
  <2> QED BY <2>1, <2>2, <2>3, <2>4, PersistStep
<1>201. CASE InitSettles
  <2>1. /\ Types /\ (Stored \o Fresh(pending) = accepted
                      \/ \E w \in writes : Stored \o Fresh(w.batch \o pending) = accepted)
    BY InFlightCases DEF IInv, TimeInv, LedgerInv
  <2>2. PICK q \in Seq(Event) : Stored \o q = accepted
    BY <2>1, WriteFields, FreshType, ConcatProperties DEF Types
  <2>3. /\ durable' \in Seq(Event) /\ Len(durable) <= Len(durable') /\ UNCHANGED accepted
        /\ durable \in Seq(Event) /\ seed \in Seq(Event)
    BY <1>201, <2>1, InitLedger DEF InitSettles, Types
  <2>4. CASE durable' = durable \o seed
    BY <2>2, <2>3, <2>4, PersistStep DEF Stored
  <2>5. CASE durable' = durable
    BY <2>3, <2>5
  <2> QED BY <1>201, <2>4, <2>5 DEF InitSettles
<1>3. CASE UNCHANGED <<accepted, durable>>
  BY <1>3
<1>4. ASSUME ~UNCHANGED <<accepted, durable>>
      PROVE  \/ \E e \in Event : Enqueue(e)
             \/ InitSettles
             \/ \E w \in writes : Commit(w)
  BY <1>4 DEF Next, FlushCall, FlushResume, FlushReady, FlushRefused,
     Deadline, Settle, Fail, Reaction, Continue, DrainOverlapped,
     Finish, DrainWritten, RolledBack, queueVars, vars
<1> QED BY <1>1, <1>2, <1>201, <1>3, <1>4

\* The controller implements the abstract promise: the stored log grows
\* only, and is always a prefix of what the session accepted.
THEOREM Implementation == Spec => ImplementsDurableLog
<1>1. Init => Log!Init
  BY InitTimeInv DEF Init, Log!Init, TimeInv, Types
<1> QED BY <1>1, StepImplements, Invariance, PTL
        DEF Spec, ImplementsDurableLog, Log!Spec
=============================================================================
