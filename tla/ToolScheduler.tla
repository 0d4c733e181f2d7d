--------------------------- MODULE ToolScheduler ----------------------------
(***************************************************************************)
(* executeToolCalls: the tool calls of one assistant message, run in groups *)
(* (an exclusive call alone, or a bounded pool of parallel ones), with     *)
(* results logged in model order whatever order the calls settle in.       *)
(*                                                                         *)
(* Calls are numbered in model order; the indices of the code, relative to *)
(* a group, are absolute here.  A step runs from one await to the next;    *)
(* tool bodies settle and the signal aborts in between.                    *)
(***************************************************************************)
EXTENDS SessionTrace, FiniteSets

CONSTANTS N,            \* how many calls the assistant message carries
          MaxParallel   \* config.maxParallelToolCalls

ASSUME SchedulerAssumption == N \in Nat /\ MaxParallel \in Nat \ {0}

VARIABLES
  pc,        \* where the scheduler stands
  signal,    \* the step's signal: "live" or "aborted"
  aborted,   \* the group's own flag
  mode,      \* the group's mode
  first,     \* the group's first call
  last,      \* the group's last call
  start,     \* nextToStart
  committed, \* results logged so far
  inFlight,  \* dispatched calls whose settlement the pool has not taken up
  running,   \* dispatched calls whose body has not settled
  slots,     \* per call: "none", or "settled" when its result is there
  failure,   \* schedulerFailure: "none" or "set"
  log,       \* the step's tool events
  ranAs      \* history: the mode each call was started under, or "none"

vars == <<pc, signal, aborted, mode, first, last, start, committed, inFlight,
          running, slots, failure, log, ranAs>>
groupVars == <<mode, first, last>>
poolVars == <<inFlight, running, slots, failure>>

Mode == {"parallel", "exclusive"}
Calls == 1..N
Skipped == "ABORTED_BEFORE_DISPATCH"

Called(i) == ToolCall(1, 1, i)
Answered(i) == ToolResult(1, 1, i, "none")

Init ==
  /\ pc = "classify" /\ signal \in {"live", "aborted"} /\ aborted = FALSE
  /\ mode = "parallel" /\ first = 1 /\ last = 0 /\ start = 1 /\ committed = 0
  /\ inFlight = {} /\ running = {} /\ slots = [i \in Calls |-> "none"]
  /\ failure = "none" /\ log = <<>> /\ ranAs = [i \in Calls |-> "none"]

-----------------------------------------------------------------------------
(* Groups *)

\* The loop of executeToolCalls; the registry answers with the mode of now.
Classify ==
  /\ pc = "classify"
  /\ \/ /\ start > N
        /\ pc' = "done"
        /\ UNCHANGED <<groupVars, aborted>>
     \/ /\ start <= N
        /\ mode' \in Mode
        /\ first' = start
        /\ last' = IF mode' = "parallel" THEN N ELSE start
        /\ aborted' = (signal = "aborted")
        /\ pc' = "fill"
  /\ UNCHANGED <<signal, start, committed, poolVars, log, ranAs>>

\* Mutants of the pool's condition: a barrier ignored, the end of the group
\* overrun.
BarrierIgnored(class) ==
  start <= last /\ Cardinality(inFlight) < MaxParallel
GroupOverrun(class) == Cardinality(inFlight) < MaxParallel

\* fillPool: whether the next call may start, given its mode of now.
MayStart(class) ==
  /\ start <= last /\ Cardinality(inFlight) < MaxParallel
  /\ start > first /\ mode = "parallel" => class = "parallel"

\* startCall up to the await of prepare.
StartCall ==
  /\ pc = "fill" /\ ~aborted
  /\ \E class \in Mode :
       /\ start = first => class = mode
       /\ MayStart(class)
       /\ ranAs' = [ranAs EXCEPT ![start] = class]
  /\ log' = Append(log, Called(start))
  /\ pc' = "preparing"
  /\ UNCHANGED <<signal, aborted, groupVars, start, committed, poolVars>>

\* The pool is full, drained by an abort, or stopped at a barrier.
StopFilling ==
  /\ pc = "fill"
  /\ aborted \/ \E class \in Mode : ~MayStart(class) /\ (start = first => class = mode)
  /\ pc' = IF inFlight # {} THEN "racing" ELSE "drained"
  /\ UNCHANGED <<signal, aborted, groupVars, start, committed, poolVars, log,
                 ranAs>>

\* prepare answers: dispatch the body, or a result at once, or a failure.
Prepared ==
  /\ pc = "preparing"
  /\ \/ /\ failure = "none"
        /\ start' = start + 1 /\ pc' = "committing"
        /\ \/ /\ inFlight' = inFlight \cup {start}
              /\ running' = running \cup {start}
              /\ UNCHANGED slots
           \/ /\ slots' = [slots EXCEPT ![start] = "settled"]
              /\ UNCHANGED <<inFlight, running>>
        /\ UNCHANGED failure
     \/ /\ failure' = "set" /\ pc' = "failing"
        /\ UNCHANGED <<start, inFlight, running, slots>>
  /\ UNCHANGED <<signal, aborted, groupVars, committed, log, ranAs>>

\* Mutant: a settled result is committed as soon as it is there.
CommitsAny == {i \in first..last : slots[i] # "none" /\ Answered(i) \notin
                 {log[k] : k \in DOMAIN log}}

\* commitReady: the next result in model order, once it has settled.
CommitsNext ==
  {i \in first..last : i = committed + 1 /\ slots[i] # "none"}

\* Finishing the result may throw, or the acceptance of its context behind it.
Commit ==
  /\ pc = "committing"
  /\ \E i \in CommitsNext :
       \/ /\ log' = Append(log, Answered(i))
          /\ committed' = committed + 1
       \/ pc' = "failing" /\ UNCHANGED <<log, committed>>
  /\ \/ UNCHANGED <<pc, failure>>
     \/ failure' = "set" /\ pc' = "failing"
  /\ UNCHANGED <<signal, aborted, groupVars, start, inFlight, running, slots,
                 ranAs>>

\* Nothing is ready: a failure surfaces, an abort is noted, the pool refills.
Committed ==
  /\ pc = "committing" /\ CommitsNext = {}
  /\ pc' = IF failure = "set" THEN "failing" ELSE "fill"
  /\ aborted' = (aborted \/ signal = "aborted")
  /\ UNCHANGED <<signal, groupVars, start, committed, poolVars, log, ranAs>>

\* Mutant: a settled call is not taken out of the pool.
KeepInFlight(i) == inFlight

TakeOut(i) == inFlight \ {i}

\* Promise.race: the pool takes up a settled call.
TakeSettled ==
  /\ pc = "racing"
  /\ \E i \in inFlight \ running : inFlight' = TakeOut(i)
  /\ pc' = IF failure = "set" THEN "failing" ELSE "committing"
  /\ UNCHANGED <<signal, aborted, groupVars, start, committed, running, slots,
                 failure, log, ranAs>>

\* Promise.allSettled over the pool.
AllSettled == inFlight \cap running = {}

Throw ==
  /\ pc = "failing" /\ AllSettled
  /\ pc' = "threw"
  /\ UNCHANGED <<signal, aborted, groupVars, start, committed, poolVars, log,
                 ranAs>>

\* Mutant: the skipped tail begins one call too late.
SkipTooLate == start + 1

SkipFrom == start

\* Mutant: the synthetic results come without their calls.
SkippedResults(i) ==
  [k \in 1..N + 1 - i |-> ToolResult(1, 1, i + k - 1, Skipped)]

\* The synthetic pairs of the calls from i on, in model order.
SkippedPairs(i) ==
  [k \in 1..2 * (N + 1 - i) |->
     LET call == i + (k - 1) \div 2
     IN  IF k % 2 = 1 THEN Called(call) ELSE ToolResult(1, 1, call, Skipped)]

\* The end of a group; an abort skips the rest of this group and of the others.
Drained ==
  /\ pc = "drained"
  /\ IF aborted THEN /\ log' = log \o SkippedPairs(SkipFrom)
                     /\ pc' = "done"
                ELSE pc' = "classify" /\ UNCHANGED log
  /\ UNCHANGED <<signal, aborted, groupVars, start, committed, poolVars, ranAs>>

-----------------------------------------------------------------------------
(* Tool bodies and the caller *)

Settle(i) ==
  /\ i \in running
  /\ running' = running \ {i}
  /\ \/ slots' = [slots EXCEPT ![i] = "settled"] /\ UNCHANGED failure
     \/ failure' = "set" /\ UNCHANGED slots    \* dispatch rejects
  /\ UNCHANGED <<pc, signal, aborted, groupVars, start, committed, inFlight,
                 log, ranAs>>

Abort ==
  /\ signal = "live" /\ pc \notin {"done", "threw"}
  /\ signal' = "aborted"
  /\ UNCHANGED <<pc, aborted, groupVars, start, committed, poolVars, log, ranAs>>

Scheduler ==
  \/ Classify \/ StartCall \/ StopFilling \/ Prepared \/ Commit \/ Committed
  \/ TakeSettled \/ Throw \/ Drained

Next == Scheduler \/ Abort \/ \E i \in Calls : Settle(i)

Spec == Init /\ [][Next]_vars

\* Preparation, policy and every tool body settle.
FairSpec ==
  Spec /\ WF_vars(Scheduler) /\ \A i \in Calls : WF_vars(Settle(i))

-----------------------------------------------------------------------------
(* Properties *)

\* Every variable keeps its type.
TypeOK ==
  /\ pc \in {"classify", "fill", "preparing", "committing", "racing",
             "failing", "drained", "done", "threw"}
  /\ signal \in {"live", "aborted"} /\ aborted \in BOOLEAN /\ mode \in Mode
  /\ first \in 1..N + 1 /\ last \in 0..N /\ start \in 1..N + 1
  /\ committed \in 0..N
  /\ running \subseteq inFlight /\ inFlight \subseteq Calls
  /\ slots \in [Calls -> {"none", "settled"}]
  /\ failure \in {"none", "set"}
  /\ ranAs \in [Calls -> Mode \cup {"none"}]

Logged(e) == \E k \in DOMAIN log : log[k] = e

\* Every tool event the scheduler logs passes the companion's check inside an
\* open step, the synthetic pairs of an abort included.
EventsAreTied ==
  RecordAll([FreshTrace EXCEPT !.openTurn = 1, !.openStep = 1], log).ok

ModelOrder ==
  \A j, k \in DOMAIN log :
    j < k /\ log[j].type = log[k].type => log[j].call < log[k].call

ResultsFollowCalls ==
  \A k \in DOMAIN log :
    log[k].type = "tool/result" =>
      (\E j \in 1..k - 1 : log[j] = Called(log[k].call))

\* Starts and results follow model order, whatever order the calls settled in:
\* none is logged twice, and no result precedes its call.
LogIsOrdered == ModelOrder /\ ResultsFollowCalls

AllAnswered ==
  pc = "done" =>
    \A i \in Calls : Logged(Answered(i)) \/ Logged(ToolResult(1, 1, i, Skipped))

FailureDrains ==
  pc = "threw" =>
    running = {} /\ \A i \in Calls : ~Logged(ToolResult(1, 1, i, Skipped))

\* A normal return, also after an abort, leaves no call unanswered; a scheduler
\* failure reaches the turn only after every body has settled, with no synthetic
\* results logged for it.
EndsClean == AllAnswered /\ FailureDrains

PoolIsBounded == Cardinality(running) <= MaxParallel

ExclusiveRunsAlone ==
  \A i \in Calls :
    ranAs[i] = "exclusive" /\ (i \in running \/ (pc = "preparing" /\ start = i))
      => running \subseteq {i}

\* At most maxParallelToolCalls bodies run at once, and a call started as
\* exclusive shares its time with no other call.
PoolIsSound == PoolIsBounded /\ ExclusiveRunsAlone

\* executeToolCalls returns or throws.
Settles == <>(pc \in {"done", "threw"})
=============================================================================
