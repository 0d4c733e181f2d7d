----------------------------- MODULE JobRegistry -----------------------------
(***************************************************************************)
(* The process-local registry of background jobs: admission per owner, the *)
(* race of a wait's deadline, its caller's abort and the settlement, and   *)
(* teardown of an owner or of the service while producers run.             *)
(*                                                                         *)
(* A producer settles its promise in one step and the registry reacts to   *)
(* it in a later one; a wait that was resolved or rejected continues in a  *)
(* step of its own too.                                                    *)
(***************************************************************************)
EXTENDS Naturals, FiniteSets

CONSTANTS Job, Owner, Caller,
          Nobody,     \* the owner of an unowned job
          OwnerOf,    \* [Job -> Owner \cup {Nobody}]
          Outcomes,   \* the outcomes producers report
          Limit,      \* maxConcurrentJobsPerOwner
          MaxReloads  \* bound: unloads of the controller plugin

Terminal == {"completed", "killed", "failed"}

ASSUME RegistryAssumption ==
  /\ Outcomes \subseteq Terminal
  /\ Nobody \notin Owner /\ OwnerOf \in [Job -> Owner \cup {Nobody}]
  /\ Limit \in Nat \ {0} /\ MaxReloads \in Nat
  /\ IsFiniteSet(Caller)

VARIABLES
  job,         \* store: the record of each job
  producer,    \* what the producer of a job does
  wait,        \* the wait each caller is in
  owner,       \* the owners' scopes, as their job cleanup sees them
  service,     \* the registry's fiber; listenersClosed once not "up"
  controller,  \* tool-jobs: controller and completion listener
  reloads,     \* history: unloads of the controller
  told         \* history: how the completion of a job reached anyone: a "notice"
               \* or no listener for one ("unheard"), a wait ("awaited"), a later
               \* read or kill ("answer"), or the "claim" of a kill or a teardown

vars == <<job, producer, wait, owner, service, controller, reloads, told>>

-----------------------------------------------------------------------------
(* Types *)

Active == {"running", "stopping"}

NoJob == [status |-> "unborn", reported |-> "no", waiters |-> 0, stored |-> "no"]
JobRecord == [status : {"unborn"} \cup Active \cup Terminal,
              reported : {"no", "yes"}, waiters : 0..Cardinality(Caller),
              stored : {"no", "yes"}]

\* A working producer was never asked to stop; one that is "done" has settled
\* its promise, and the registry has not reacted yet.
Producer == [step : {"none", "working", "asked", "done", "over"},
             outcome : {"none"} \cup Terminal]

NoWait == [step |-> "idle", job |-> "none", counted |-> "no"]
Wait == [step : {"waiting", "released", "expired", "rejected"}, job : Job,
         counted : {"no", "yes"}]

TypeOK ==
  /\ job \in [Job -> JobRecord] /\ producer \in [Job -> Producer]
  /\ wait \in [Caller -> Wait \cup {NoWait}]
  /\ \A j \in Job : job[j].waiters =
       Cardinality({ c \in Caller : wait[c].job = j /\ wait[c].counted = "yes" })
  /\ owner \in [Owner -> {"live", "disposing", "disposed"}]
  /\ service \in {"up", "closing", "down"}
  /\ controller \in {"attached", "detached"} /\ reloads \in 0..MaxReloads
  /\ told \in [Job -> SUBSET {"notice", "awaited", "answer", "claim", "unheard"}]

-----------------------------------------------------------------------------
(* Settlement *)

IsTerminal(j) == job[j].status \in Terminal

\* Mutant: the latest outcome wins.
SettlesAlways(j) == job[j].stored = "yes"
Settles(j) == ~IsTerminal(j)

Waiting(j) == { c \in Caller : wait[c].job = j /\ wait[c].step = "waiting" }

\* Who hears of a settlement: the listener, unless the record is reported.
Heard(j, r) ==
  IF r.reported = "yes" THEN {}
  ELSE IF service = "up" /\ controller = "attached" /\ OwnerOf[j] # Nobody
       THEN {"notice"} ELSE {"unheard"}

\* Mutant: a pending wait does not count as a report.
OutcomeUnreported(r, status) == [r EXCEPT !.status = status]

\* settle: the record is reported if a wait is pending, every wait is released,
\* the listeners come last.
Outcome(r, status) ==
  [r EXCEPT !.status = status,
            !.reported = IF r.waiters > 0 THEN "yes" ELSE @]

ReleasedFrom(js) ==
  [c \in Caller |-> IF \E j \in js : c \in Waiting(j)
                    THEN [wait[c] EXCEPT !.step = "released"] ELSE wait[c]]

\* The reaction to the producer's promise.
Settle(j) ==
  /\ producer[j].step = "done"
  /\ producer' = [producer EXCEPT ![j] = [step |-> "over", outcome |-> "none"]]
  /\ IF Settles(j)
     THEN LET r == Outcome(job[j], producer[j].outcome) IN
          /\ job' = [job EXCEPT ![j] = r]
          /\ wait' = ReleasedFrom({j})
          /\ told' = [told EXCEPT ![j] = @ \cup Heard(j, r)]
     ELSE UNCHANGED <<job, wait, told>>
  /\ UNCHANGED <<owner, service, controller, reloads>>

\* The work ends by itself, or because it was asked to.
Produce(j) ==
  /\ producer[j].step \in {"working", "asked"}
  /\ \E status \in Outcomes :
       /\ status = "killed" => producer[j].step = "asked"
       /\ producer' = [producer EXCEPT ![j] = [step |-> "done", outcome |-> status]]
  /\ UNCHANGED <<job, wait, owner, service, controller, reloads, told>>

-----------------------------------------------------------------------------
(* start, read, kill *)

ActiveOf(o) == { j \in Job : OwnerOf[j] = o /\ job[j].stored = "yes"
                             /\ job[j].status \in Active }

Start(j) ==
  LET o == OwnerOf[j] IN
  /\ job[j].status = "unborn" /\ service = "up" /\ controller = "attached"
  /\ o # Nobody => owner[o] = "live"
  /\ Cardinality(ActiveOf(o)) < Limit
  /\ job' = [job EXCEPT ![j] = [NoJob EXCEPT !.status = "running", !.stored = "yes"]]
  /\ producer' = [producer EXCEPT ![j].step = "working"]
  /\ UNCHANGED <<wait, owner, service, controller, reloads, told>>

Reachable(j) == service # "down" /\ job[j].stored = "yes"

\* A read, or a kill, of a finished job delivers its outcome.
Collect(j) ==
  /\ Reachable(j) /\ IsTerminal(j)
  /\ job' = [job EXCEPT ![j].reported = "yes"]
  /\ told' = [told EXCEPT ![j] = @ \cup {"answer"}]
  /\ UNCHANGED <<producer, wait, owner, service, controller, reloads>>

Asked(p) == IF p.step = "working" THEN [p EXCEPT !.step = "asked"] ELSE p

\* A cancel that throws leaves the job and its notice as they are.
Kill(j) ==
  /\ Reachable(j) /\ job[j].status \in Active
  /\ producer' = [producer EXCEPT ![j] = Asked(@)]
  /\ job' = [job EXCEPT ![j].status = "stopping", ![j].reported = "yes"]
  /\ told' = [told EXCEPT ![j] = @ \cup {"claim"}]
  /\ UNCHANGED <<wait, owner, service, controller, reloads>>

-----------------------------------------------------------------------------
(* wait *)

BeginWait(c, j) ==
  /\ wait[c] = NoWait /\ Reachable(j) /\ job[j].status \in Active
  /\ wait' = [wait EXCEPT ![c] = [step |-> "waiting", job |-> j, counted |-> "yes"]]
  /\ job' = [job EXCEPT ![j].waiters = @ + 1]
  /\ UNCHANGED <<producer, owner, service, controller, reloads, told>>

\* The deadline resolves the wait, which stays counted until it continues.
Expire(c) ==
  /\ wait[c].step = "waiting"
  /\ wait' = [wait EXCEPT ![c].step = "expired"]
  /\ UNCHANGED <<job, producer, owner, service, controller, reloads, told>>

\* Mutant: the finally block takes a wait off that no longer counts.
UncountAlways(c) == job' = [job EXCEPT ![wait[c].job].waiters = @ - 1]
Uncount(c) == job' = IF wait[c].counted = "yes"
                     THEN [job EXCEPT ![wait[c].job].waiters = @ - 1] ELSE job

\* The caller's signal aborts: the wait no longer counts, and will reject.
Abort(c) ==
  /\ wait[c].step = "waiting"
  /\ wait' = [wait EXCEPT ![c].step = "rejected", ![c].counted = "no"]
  /\ Uncount(c)
  /\ UNCHANGED <<producer, owner, service, controller, reloads, told>>

\* The wait goes on: it rejects, or answers with the record as it is now.
Continue(c) ==
  LET j == wait[c].job IN
  /\ wait[c].step \in {"released", "expired", "rejected"}
  /\ wait' = [wait EXCEPT ![c] = NoWait]
  /\ IF wait[c].step # "rejected" /\ IsTerminal(j)
     THEN /\ job' = [job EXCEPT ![j].waiters = @ - 1, ![j].reported = "yes"]
          /\ told' = [told EXCEPT ![j] = @ \cup {"awaited"}]
     ELSE Uncount(c) /\ UNCHANGED told
  /\ UNCHANGED <<producer, owner, service, controller, reloads>>

-----------------------------------------------------------------------------
(* Teardown *)

\* Teardown claims the report before the producer is asked.
Claimed(r) == [r EXCEPT !.reported = "yes"]

\* Mutant: a cancel that throws is only logged.
NotForced(r) == r
\* The record of a job whose cancel throws fails at once.
Forced(r) == Outcome(r, "failed")

\* cancelForTeardown: each live job is claimed and asked to stop, and forced to
\* fail when its cancel throws; listeners is FALSE once they are closed.
CancelForTeardown(js, listeners) ==
  LET live == { j \in js : ~IsTerminal(j) } IN
  \E thrown \in SUBSET live :
    LET r == [j \in live |-> Claimed(job[j])] IN
    /\ job' = [j \in Job |->
         IF j \in thrown THEN Forced(r[j])
         ELSE IF j \in live THEN [r[j] EXCEPT !.status = "stopping"] ELSE job[j]]
    /\ producer' = [j \in Job |->
         IF j \in live \ thrown THEN Asked(producer[j]) ELSE producer[j]]
    /\ wait' = ReleasedFrom(thrown)
    /\ told' = [j \in Job |->
         told[j] \cup (IF j \in live THEN {"claim"} ELSE {})
                 \cup (IF j \in thrown /\ listeners
                       THEN Heard(j, Forced(r[j])) ELSE {})]

OwnedBy(o) == { j \in Job : OwnerOf[j] = o /\ job[j].stored = "yes" }

\* disposeOwned, by the scope of the owner.
DisposeOwner(o) ==
  /\ owner[o] = "live" /\ service # "down"
  /\ owner' = [owner EXCEPT ![o] = "disposing"]
  /\ CancelForTeardown(OwnedBy(o), TRUE)
  /\ UNCHANGED <<service, controller, reloads>>

Dropped(js) == [j \in Job |-> IF j \in js THEN [job[j] EXCEPT !.stored = "no"]
                              ELSE job[j]]

\* Every record is terminal: they are dropped, and the scope is gone.
OwnerDisposed(o) ==
  /\ owner[o] = "disposing" /\ \A j \in OwnedBy(o) : IsTerminal(j)
  /\ owner' = [owner EXCEPT ![o] = "disposed"]
  /\ job' = Dropped(OwnedBy(o))
  /\ UNCHANGED <<producer, wait, service, controller, reloads, told>>

\* disposeAll.  Plugins that need the service unload with it.
DisposeService ==
  /\ service = "up"
  /\ service' = "closing" /\ controller' = "detached"
  /\ CancelForTeardown({ j \in Job : job[j].stored = "yes" }, FALSE)
  /\ UNCHANGED <<owner, reloads>>

ServiceDisposed ==
  /\ service = "closing" /\ \A j \in Job : job[j].stored = "yes" => IsTerminal(j)
  /\ service' = "down" /\ job' = Dropped(Job)
  /\ UNCHANGED <<producer, wait, owner, controller, reloads, told>>

\* The controller plugin is reloaded; jobs go on.
Unload ==
  /\ controller = "attached" /\ reloads < MaxReloads
  /\ controller' = "detached" /\ reloads' = reloads + 1
  /\ UNCHANGED <<job, producer, wait, owner, service, told>>

Load ==
  /\ controller = "detached" /\ service = "up" /\ controller' = "attached"
  /\ UNCHANGED <<job, producer, wait, owner, service, reloads, told>>

-----------------------------------------------------------------------------
Init ==
  /\ job = [j \in Job |-> NoJob]
  /\ producer = [j \in Job |-> [step |-> "none", outcome |-> "none"]]
  /\ wait = [c \in Caller |-> NoWait]
  /\ owner = [o \in Owner |-> "live"]
  /\ service = "up" /\ controller = "attached" /\ reloads = 0
  /\ told = [j \in Job |-> {}]

Next ==
  \/ \E j \in Job : \/ Start(j) \/ Produce(j) \/ Settle(j) \/ Collect(j)
                    \/ Kill(j) \/ \E c \in Caller : BeginWait(c, j)
  \/ \E c \in Caller : Expire(c) \/ Abort(c) \/ Continue(c)
  \/ \E o \in Owner : DisposeOwner(o) \/ OwnerDisposed(o)
  \/ DisposeService \/ ServiceDisposed \/ Unload \/ Load

Spec == Init /\ [][Next]_vars

\* Promise reactions run, deadlines come, and a producer that was asked to stop
\* ends: the contract of cancel.
Fairness ==
  /\ \A j \in Job : /\ WF_vars(Settle(j))
                    /\ WF_vars(producer[j].step = "asked" /\ Produce(j))
  /\ \A c \in Caller : WF_vars(Expire(c)) /\ WF_vars(Continue(c))
  /\ \A o \in Owner : WF_vars(OwnerDisposed(o))
  /\ WF_vars(ServiceDisposed)

FairSpec == Spec /\ Fairness

-----------------------------------------------------------------------------
(* Properties *)

\* A wait that will answer with the outcome, not reject.
Owed(j) == \E c \in Caller : wait[c].job = j /\ wait[c].step \in {"released", "expired"}

\* The completion of a job is reported once, and never swallowed: a notice was
\* sent, or callers that waited have or will get the outcome in its place, or a
\* kill or a teardown claimed it; only without a listener or an owner does it
\* stay unreported.  A notice is for a completion nobody was waiting for: it
\* excludes a claim, and the answer to any wait that was pending, or resolved
\* by its deadline and not yet continued, when the job settled.
CompletionIsHeard ==
  \A j \in Job : IsTerminal(j) =>
    /\ told[j] # {} \/ Owed(j)
    /\ {"notice", "unheard"} \cap told[j] # {} =>
         {"awaited", "claim"} \cap told[j] = {} /\ ~Owed(j)
    /\ ~({"notice", "unheard"} \subseteq told[j])

\* A settlement is final and teardown is silent: an outcome never changes, not
\* even when the producer of a record that was forced to fail settles late, and
\* nothing is announced to an owner, or by a service, being torn down.
SettlementIsFinal ==
  [][\A j \in Job :
       /\ IsTerminal(j) => job'[j].status = job[j].status
       /\ "notice" \in told'[j] \ told[j] =>
            /\ ~IsTerminal(j)
            /\ owner'[OwnerOf[j]] = "live" /\ service' = "up"]_vars

\* Teardown ends: the owner's scope and the service wait for producers that
\* were asked to stop and for nothing else.
TeardownEnds ==
  /\ \A o \in Owner : owner[o] = "disposing" ~> owner[o] = "disposed"
  /\ service = "closing" ~> service = "down"
=============================================================================
