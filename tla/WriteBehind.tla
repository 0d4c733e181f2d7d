---------------------------- MODULE WriteBehind -----------------------------
(***************************************************************************)
(* The write-behind controller of one live session: the queue between the  *)
(* session's synchronous append and the storage backend, its batching      *)
(* timer, its single active write, the explicit flush barrier, and the     *)
(* coordinator's flush that guards the barrier with the session's          *)
(* initialisation.                                                         *)
(*                                                                         *)
(* A step is one JavaScript job.  The promise reactions that follow a      *)
(* settled write (catch, finally, then) are steps of their own, because an *)
(* append or a flush may run between them; timers and I/O completions wait *)
(* until those reactions have run (Quiet).                                 *)
(***************************************************************************)
EXTENDS Naturals, Sequences, FiniteSets

CONSTANTS Event,       \* the events the session appends, each at most once
          MaxEvents,   \* bound: events accepted in one behaviour
          MaxCallers   \* bound: flush callers waiting for initialisation

ASSUME BoundsAssumption == MaxEvents \in Nat /\ MaxCallers \in Nat

VARIABLES
  accepted,         \* history: every event enqueued, in order
  durable,          \* the events the backend has committed, in order
  seed,             \* events initialisation has yet to store itself
  pending,          \* SessionWriteBehind.pending
  scheduled,        \* timeouts armed and neither fired nor cleared
  timer,            \* SessionWriteBehind.timer: "none" or "armed"
  active,           \* SessionWriteBehind.active: "none" or "write"
  writes,           \* the writes whose promise has reactions left to run
  continuation,     \* the continueAutomatic reaction: "none" or "queued"
  barrier,          \* "none", or what drainBarrier is awaiting
  deadline,         \* deadlineExpired: "open" or "expired"
  automatic,        \* automaticPaused: "running" or "paused"
  init,             \* LiveSessionState.init
  callers,          \* coordinator flush calls awaiting init
  promised          \* history: events accepted when a flush last resolved

queueVars == <<accepted, durable, seed, pending>>
timerVars == <<scheduled, timer, deadline>>
vars == <<accepted, durable, seed, pending, scheduled, timer, active, writes,
          continuation, barrier, deadline, automatic, init,
          callers, promised>>

Write == [batch : Seq(Event), owner : {"automatic", "barrier"},
          stage : {"writing", "ok", "failed", "committed", "rejected"}]

\* initFor: the session comes with a seed, or a suffix beyond its prepared log,
\* that initialisation stores (here one event or none).  If the notification of
\* that very event made the controller, the event is queued as well.  durable
\* counts from the prefix that was stored before.
Created ==
  /\ \/ seed = <<>> /\ init \in {"pending", "ready"}
     \/ init = "pending" /\ \E e \in Event : seed = <<e>>
  /\ accepted = seed
  /\ \/ pending = <<>> /\ timer = "none" /\ scheduled = 0
     \/ seed # <<>> /\ pending = seed /\ timer = "armed" /\ scheduled = 1

Init ==
  /\ Created
  /\ durable = <<>> /\ active = "none"
  /\ writes = {} /\ continuation = "none" /\ barrier = "none"
  /\ deadline = "open" /\ automatic = "running"
  /\ callers = 0 /\ promised = 0

\* No promise reaction is queued: the event loop may take its next task.
Quiet ==
  /\ continuation = "none"
  /\ \A w \in writes : w.stage = "writing"
  /\ ~(barrier = "overlap" /\ writes = {})

-----------------------------------------------------------------------------
(* Helpers of the controller *)

ArmTimer == timer' = "armed" /\ scheduled' = scheduled + 1

\* Mutant: the timeout is never cleared.
CancelTimerSkipped == UNCHANGED <<timer, scheduled>>

CancelTimer ==
  /\ timer' = "none"
  /\ scheduled' = IF timer = "armed" THEN scheduled - 1 ELSE scheduled

\* A write is active; mutant: the overlap goes unseen.
WriteUnseen == FALSE
WriteActive == active = "write"

\* startWrite: take the whole queue as one batch, beside the writes in others.
StartWrite(owner, others) ==
  /\ writes' = others \cup {[batch |-> pending, owner |-> owner,
                             stage |-> "writing"]}
  /\ pending' = <<>>
  /\ active' = "write"
  /\ deadline' = "open"
  /\ CancelTimer

\* The body of drainBarrier's loop, up to its next await or its return.
DrainBarrier(others) ==
  \/ /\ pending # <<>>
     /\ StartWrite("barrier", others)
     /\ barrier' = "write"
     /\ UNCHANGED promised
  \/ /\ pending = <<>>
     /\ barrier' = "none"
     /\ promised' = Len(accepted)
     /\ writes' = others
     /\ UNCHANGED <<pending, active, deadline, scheduled, timer>>

-----------------------------------------------------------------------------
(* Operations of the session and of the coordinator *)

\* A live event is copied into the queue.
Enqueue(e) ==
  /\ Len(accepted) < MaxEvents
  /\ e \notin {accepted[i] : i \in 1..Len(accepted)}
  /\ accepted' = Append(accepted, e)
  /\ pending' = Append(pending, e)
  /\ \/ /\ barrier # "none"
        /\ UNCHANGED <<timerVars, automatic>>
     \/ /\ barrier = "none" /\ automatic = "paused"
        /\ automatic' = "running"
        /\ deadline' = "open"
        /\ ArmTimer
     \/ /\ barrier = "none" /\ automatic = "running" /\ pending = <<>>
        /\ ArmTimer
        /\ UNCHANGED <<deadline, automatic>>
     \/ /\ barrier = "none" /\ automatic = "running" /\ pending # <<>>
        /\ UNCHANGED <<timerVars, automatic>>
  /\ UNCHANGED <<durable, seed, active, writes, continuation, barrier, init,
                 callers, promised>>

\* The coordinator's flush up to its await: the batching wait is cancelled.
FlushCall ==
  /\ callers < MaxCallers
  /\ callers' = callers + 1
  /\ CancelTimer
  /\ deadline' = "open"
  /\ UNCHANGED <<queueVars, active, writes, continuation, barrier,
                 automatic, init, promised>>

\* Initialisation settled well: the caller opens the barrier or joins it.
FlushReady ==
  /\ callers > 0 /\ init = "ready"
  /\ callers' = callers - 1
  /\ \/ /\ barrier # "none"
        /\ UNCHANGED <<pending, timerVars, active, writes, barrier,
                       automatic, promised>>
     \/ /\ barrier = "none" /\ WriteActive
        /\ barrier' = "overlap"
        /\ CancelTimer
        /\ deadline' = "open"
        /\ automatic' = "running"
        /\ UNCHANGED <<pending, active, writes, promised>>
     \/ /\ barrier = "none" /\ ~WriteActive /\ pending # <<>>
        /\ automatic' = "running"
        /\ DrainBarrier(writes)
     \/ /\ barrier = "none" /\ ~WriteActive /\ pending = <<>>
        /\ CancelTimer
        /\ deadline' = "open"
        /\ automatic' = "running"
        /\ promised' = Len(accepted)
        /\ UNCHANGED <<pending, active, writes, barrier>>
  /\ UNCHANGED <<accepted, durable, seed, continuation, init>>

\* Initialisation was refused: the caller's flush rejects.
FlushRefused ==
  /\ callers > 0 /\ init = "failed"
  /\ callers' = callers - 1
  /\ CancelTimer
  /\ deadline' = "open"
  /\ UNCHANGED <<queueVars, active, writes, continuation, barrier,
                 automatic, init, promised>>

\* onCreated, or the append of a prepared session's suffix, settles once: it has
\* stored the seed, or it was refused (a collision, a failed write) and never
\* runs again.
InitSettles ==
  /\ init = "pending" /\ Quiet
  /\ \/ init' = "ready" /\ durable' = durable \o seed /\ seed' = <<>>
     \/ init' = "failed" /\ UNCHANGED <<durable, seed>>
  /\ UNCHANGED <<accepted, pending, timerVars, active, writes, continuation,
                 barrier, automatic, callers, promised>>

-----------------------------------------------------------------------------
(* Timer and writes *)

\* A deadline met by an active write is remembered; mutant: it is forgotten.
DeadlineForgotten == UNCHANGED deadline
RememberDeadline == deadline' = "expired"

\* onDeadline.
Deadline ==
  /\ scheduled > 0 /\ Quiet
  /\ \/ /\ WriteActive
        /\ scheduled' = scheduled - 1
        /\ timer' = "none"
        /\ RememberDeadline
        /\ UNCHANGED <<pending, active, writes>>
     \/ /\ ~WriteActive
        /\ scheduled' = scheduled - 1
        /\ timer' = "none"
        /\ writes' = writes \cup {[batch |-> pending, owner |-> "automatic",
                                   stage |-> "writing"]}
        /\ pending' = <<>>
        /\ active' = "write"
        /\ deadline' = "open"
  /\ UNCHANGED <<accepted, durable, seed, continuation, barrier, automatic,
                 init, callers, promised>>

Stage(w, stage) == (writes \ {w}) \cup {[w EXCEPT !.stage = stage]}

\* What is stored, or is initialisation's to store: the cursor awaited by a write.
Stored == durable \o seed

\* appendLiveBatch: events below the cursor are dropped.  Only the one that made
\* the controller can be, and it is the first of its batch.
Fresh(batch) ==
  IF batch # <<>> /\ \E i \in DOMAIN Stored : Stored[i] = Head(batch)
  THEN Tail(batch) ELSE batch

\* The backend commits the batch: the durable write is the transaction.
Commit(w) ==
  /\ w.stage = "writing" /\ init = "ready" /\ Quiet
  /\ durable' = durable \o Fresh(w.batch)
  /\ writes' = Stage(w, "ok")
  /\ UNCHANGED <<accepted, seed, pending, timerVars, active, continuation, barrier,
                 automatic, init, callers, promised>>

\* A failed batch goes back in front of newer events; mutant: behind them.
RequeuedLast(w) == pending \o w.batch
Requeued(w) == w.batch \o pending

\* A failed append is rolled back in the backend; mutant: its bytes stay.
NotRolledBack(w) == durable \o w.batch
RolledBack(w) == durable

\* The write rejects, and the catch handler puts the batch back in front.
Fail(w) ==
  /\ w.stage = "writing" /\ init # "pending" /\ Quiet
  /\ pending' = Requeued(w)
  /\ durable' = RolledBack(w)
  /\ CancelTimer
  /\ deadline' = "open"
  /\ automatic' = "paused"
  /\ writes' = Stage(w, "failed")
  /\ UNCHANGED <<accepted, seed, active, continuation, barrier, init, callers,
                 promised>>

\* Mutant: active is cleared in a then handler, which a failure does not reach.
FinishStored(w) ==
  /\ w.stage \in {"ok", "failed"}
  /\ active' = IF w.stage = "ok" THEN "none" ELSE active
  /\ \/ /\ w.owner = "automatic"
        /\ writes' = writes \ {w}
        /\ continuation' = IF w.stage = "ok" THEN "queued" ELSE continuation
     \/ /\ w.owner = "barrier"
        /\ writes' = Stage(w, IF w.stage = "ok" THEN "committed" ELSE "rejected")
        /\ UNCHANGED continuation
  /\ UNCHANGED <<queueVars, timerVars, barrier, automatic, init, callers,
                 promised>>

\* The finally handler.  What is left of the promise is its reaction: the
\* continuation of a background success, or the drainer awaiting its write.
Finish(w) ==
  /\ w.stage \in {"ok", "failed"}
  /\ active' = "none"
  /\ \/ /\ w.owner = "automatic"
        /\ writes' = writes \ {w}
        /\ continuation' = IF w.stage = "ok" THEN "queued" ELSE continuation
     \/ /\ w.owner = "barrier"
        /\ writes' = Stage(w, IF w.stage = "ok" THEN "committed" ELSE "rejected")
        /\ UNCHANGED continuation
  /\ UNCHANGED <<queueVars, timerVars, barrier, automatic, init, callers,
                 promised>>

\* The queue outlived its deadline during the write.
Overdue == barrier = "none" /\ pending # <<>> /\ deadline = "expired"

\* continueAutomatic.
Continue ==
  /\ continuation = "queued"
  /\ continuation' = "none"
  /\ \/ /\ Overdue
        /\ StartWrite("automatic", writes)
     \/ /\ ~Overdue
        /\ UNCHANGED <<pending, timerVars, active, writes>>
  /\ UNCHANGED <<accepted, durable, seed, barrier, automatic, init, callers,
                 promised>>

\* drainBarrier resumes after the write that was active when it began.
DrainOverlapped ==
  /\ barrier = "overlap" /\ writes = {} /\ continuation = "none"
  /\ automatic' = "running"
  /\ DrainBarrier({})
  /\ UNCHANGED <<accepted, durable, seed, continuation, init, callers>>

\* The drain goes on after a committed write.
GoesOn(w) == w.stage = "committed"

\* drainBarrier resumes after a write of its own: it goes on or it rejects.
DrainWritten(w) ==
  /\ barrier = "write"
  /\ \/ /\ GoesOn(w)
        /\ DrainBarrier(writes \ {w})
     \/ /\ w.stage = "rejected"
        /\ barrier' = "none"
        /\ writes' = writes \ {w}
        /\ UNCHANGED <<pending, timerVars, active, promised>>
  /\ UNCHANGED <<accepted, durable, seed, continuation, automatic, init,
                 callers>>

Settle(w) == Commit(w) \/ Fail(w)
Reaction == Continue \/ DrainOverlapped
            \/ \E w \in writes : Finish(w) \/ DrainWritten(w)
FlushResume == FlushReady \/ FlushRefused

Next ==
  \/ \E e \in Event : Enqueue(e)
  \/ FlushCall \/ FlushResume \/ InitSettles \/ Deadline
  \/ \E w \in writes : Settle(w)
  \/ Reaction

Spec == Init /\ [][Next]_vars

\* The event loop runs its queued reactions and due timers, and every I/O
\* promise settles one way or the other.  Producers need not act at all.
Fairness ==
  /\ WF_vars(Reaction) /\ WF_vars(FlushResume) /\ WF_vars(InitSettles)
  /\ WF_vars(Deadline) /\ WF_vars(\E w \in writes : Settle(w))

FairSpec == Spec /\ Fairness
-----------------------------------------------------------------------------
(* Properties *)

Types ==
  /\ accepted \in Seq(Event) /\ durable \in Seq(Event) /\ pending \in Seq(Event)
  /\ seed \in Seq(Event)
  /\ scheduled \in Nat /\ callers \in Nat /\ promised \in Nat
  /\ timer \in {"none", "armed"} /\ active \in {"none", "write"}
  /\ continuation \in {"none", "queued"}
  /\ deadline \in {"open", "expired"} /\ automatic \in {"running", "paused"}
  /\ writes \subseteq Write
  /\ barrier \in {"none", "overlap", "write"}
  /\ init \in {"pending", "ready", "failed"}

Running(w) == w.stage \in {"writing", "ok", "failed"}

\* Every variable keeps its type, and this.active is set exactly as long as the
\* promise of a write has not passed its finally handler.
TypeOK == Types /\ (active = "write" <=> \E w \in writes : Running(w))

InFlight == {w \in writes : w.stage = "writing"}

\* One backend write at a time, whatever overlaps of deadline, flush and
\* continuation the controller goes through (write-behind.ts, startWrite).
OneActiveWrite == Cardinality(InFlight) <= 1

\* Nothing is lost, duplicated or reordered between the session and the
\* backend: what is stored by batches or by initialisation, and what of the
\* in-flight and queued events is not stored by it, make up the accepted log,
\* also after a failed batch has been put back in front of newer events.
NothingLost ==
  \/ InFlight = {} /\ Stored \o Fresh(pending) = accepted
  \/ \E w \in InFlight : Stored \o Fresh(w.batch \o pending) = accepted

\* A flush that resolved had made durable every event accepted by then, also
\* those that overlapping writes held when it was called.
FlushIsDurable == promised <= Len(durable)

\* At most the one timeout that this.timer can still clear is outstanding.
NoOrphanTimer == scheduled = IF timer = "armed" THEN 1 ELSE 0

\* Every accepted event is eventually stored, unless a write failed and the
\* automatic path is paused or the session could never be initialised.
EventuallyDurable ==
  (durable # accepted) ~> (durable = accepted \/ automatic = "paused" \/ init = "failed")

\* A barrier is settled, once producers stop appending: whichever way each of
\* its writes ends, and whatever write it overlapped when it began.
FlushTerminates == (barrier # "none") ~> (barrier = "none")

\* Both hold whatever order deadlines, flushes and failures come in: an accepted
\* event is stored and a barrier is settled.
Progress == EventuallyDurable /\ FlushTerminates

Log == INSTANCE DurableLog
\* The controller implements the abstract promise of the stored log.
ImplementsDurableLog == Log!Spec
=============================================================================
