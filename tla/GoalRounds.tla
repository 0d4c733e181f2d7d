----------------------------- MODULE GoalRounds ------------------------------
(***************************************************************************)
(* The goal of one session, the driver that queues its rounds, and the     *)
(* agent whose turns admit them.                                           *)
(*                                                                         *)
(* The driver's scheduling loop runs synchronously from its trigger to its *)
(* durability checkpoint, and from there to the queued round; Quiet keeps  *)
(* other actors out of it.  The agent is its next-turn queue and the       *)
(* points where a turn awaits; messages for a next step are left out.  A   *)
(* revision number stands for the pair of goal id and revision.            *)
(***************************************************************************)
EXTENDS Naturals, Sequences, FiniteSets

CONSTANTS MaxRounds,    \* maxGoalRounds
          MaxCommands,  \* bound: mutations of the goal by users and the model
          MaxHumans,    \* bound: human prompts
          MaxJobs,      \* bound: maintenance activities
          Window        \* "sync", or "awaits" when a listener outside the
                        \*   driver's awaits after the step was accepted

ASSUME BoundsAssumption ==
  /\ MaxRounds \in Nat \ {0} /\ MaxCommands \in Nat /\ MaxHumans \in Nat
  /\ MaxJobs \in Nat
  /\ Window \in {"sync", "awaits"}

VARIABLES
  goal,      \* the folded goal, and its activation
  driver,    \* the plugin: "active", or closing in teardown, then "gone"
  d,         \* DriverState
  queue,     \* the agent's next-turn inbox
  agent,     \* its phase, and where the turn stands
  commands, humans, jobs   \* history: commands, prompts, maintenance activities

vars == <<goal, driver, d, queue, agent, commands, humans, jobs>>

-----------------------------------------------------------------------------
(* Types *)

MaxRevision == 2 * MaxCommands + 1
Goal == [phase : {"none", "active", "paused", "blocked", "complete", "failed"},
         rev : 1..MaxRevision, rounds : 0..MaxRounds,
         activation : {"armed", "disarmed"}]

Round == [kind : {"round"}, rev : 1..MaxRevision, round : 1..MaxRounds]
Human == [kind |-> "human"]
Nothing == [kind |-> "nothing"]
Message == Round \cup {Human}

NoAttempt == [phase |-> "none"]
Attempt == [rev : 1..MaxRevision, round : 1..MaxRounds,
            phase : {"queued", "claimed", "admitted"},
            cancelled : {"no", "yes"}, stale : {"no", "yes"}]

\* loop: where the driver's run stands; "starting" until its first checkpoint.
Driver == [attempt : Attempt \cup {NoAttempt}, competing : {"no", "yes"},
           checkpoint : {"no", "yes"}, requested : {"no", "yes"},
           loop : {"none", "starting", "flushing", "looping"}]
FreshDriver == [attempt |-> NoAttempt, competing |-> "no", checkpoint |-> "no",
                requested |-> "no", loop |-> "none"]

\* at: cancelled before its turn/start, before the driver's own listener, in the
\* listeners after it, in those before it, or in the step.
Agent == [status : {"idle", "maintenance", "running"},
          at : {"none", "unopened", "claimed", "deciding", "accepted", "stepping"},
          batch : Message \cup {Nothing}, aborted : {"no", "yes"},
          latch : {"no", "yes"}]
IdleAgent == [status |-> "idle", at |-> "none", batch |-> Nothing,
              aborted |-> "no", latch |-> "no"]

TypeOK ==
  /\ goal \in Goal /\ d \in Driver /\ agent \in Agent /\ queue \in Seq(Message)
  /\ driver \in {"active", "stopping", "draining", "gone"}
  /\ agent.at # "none" <=> agent.status = "running"
  /\ commands \in 0..MaxCommands /\ humans \in 0..MaxHumans /\ jobs \in 0..MaxJobs

-----------------------------------------------------------------------------
(* The goal service.  Each operator gives the goal after a mutation. *)

Live(g) == g.phase = "active" /\ g.activation = "armed"
Disarmed(g) == [g EXCEPT !.activation = "disarmed"]
Stopped(g, phase) ==
  [g EXCEPT !.phase = phase, !.rev = @ + 1, !.activation = "disarmed"]

Mutations(g) ==
  (IF g.phase \in {"none", "complete"}
   THEN {[phase |-> "active", rev |-> g.rev + 1, rounds |-> 0,
          activation |-> "armed"]} ELSE {})
  \cup (IF g.phase \notin {"none", "failed"}
        THEN {[g EXCEPT !.rev = @ + 1],
              [Stopped(g, "none") EXCEPT !.rounds = 0]} ELSE {})
  \cup (IF g.phase = "active"
        THEN {Stopped(g, "paused"), Stopped(g, "blocked")} ELSE {})
  \cup (IF g.phase \in {"active", "paused", "blocked"}
        THEN {Stopped(g, "complete")} ELSE {})
  \cup (IF g.phase \in {"active", "paused", "blocked"} /\ ~Live(g)
           /\ g.rounds < MaxRounds
        THEN {[g EXCEPT !.phase = "active", !.rev = @ + 1,
                        !.activation = "armed"]} ELSE {})

-----------------------------------------------------------------------------
(* Handlers of the driver.  Each operator gives the driver's state after it. *)

Same(m, attempt) == /\ attempt # NoAttempt /\ m.kind = "round"
                    /\ m.rev = attempt.rev /\ m.round = attempt.round

\* Mutant: a trigger during a run is forgotten.
RequestsIdle(s) ==
  IF driver = "active" /\ s.loop = "none"
  THEN [s EXCEPT !.requested = "yes", !.loop = "starting"] ELSE s

\* requestDrive: triggers coalesce onto one run.
Requests(s) ==
  IF driver = "active"
  THEN [s EXCEPT !.requested = "yes",
                 !.loop = IF @ = "none" THEN "starting" ELSE @] ELSE s

Listening == driver # "gone"

GoalChanged(s) ==
  IF Listening THEN Requests([s EXCEPT !.checkpoint = "yes"]) ELSE s

\* agent/inbox/inserted, of a prompt that is not the reserved round.
HumanInserted(s) ==
  IF ~Listening THEN s
  ELSE [s EXCEPT !.competing = "yes",
                 !.attempt = IF @.phase = "queued" THEN [@ EXCEPT !.stale = "yes"]
                             ELSE @]

Claimed(s, m) == IF Listening /\ Same(m, s.attempt)
                 THEN [s EXCEPT !.attempt.phase = "claimed"] ELSE s

Discarded(s, q) == IF Listening /\ \E k \in DOMAIN q : Same(q[k], s.attempt)
                   THEN [s EXCEPT !.attempt.cancelled = "yes"] ELSE s

\* turn/end and agent/error: what they do to the driver and to the goal.
TurnEnded(s, reason) ==
  IF Listening /\ reason = "aborted" /\ s.attempt.phase \in {"claimed", "admitted"}
  THEN [s EXCEPT !.attempt.cancelled = "yes"] ELSE s

EndDisarms(s, reason) ==
  /\ Listening
  /\ \/ reason \in {"error", "max-tokens"}
     \/ reason = "aborted" /\ s.attempt.phase \notin {"claimed", "admitted"}

\* The agent is idle with a round that never entered or was cancelled; mutant:
\* only one that never entered.
DroppedQueued(s, g) ==
  /\ Listening /\ Live(g) /\ s.attempt # NoAttempt
  /\ s.attempt.phase \in {"queued", "claimed"}

Dropped(s, g) ==
  /\ Listening /\ Live(g) /\ s.attempt # NoAttempt
  /\ s.attempt.phase \in {"queued", "claimed"} \/ s.attempt.cancelled = "yes"

Idle(s, g) ==
  IF ~Listening THEN s
  ELSE LET calm == [s EXCEPT !.competing = "no"] IN
       Requests(IF Dropped(s, g)
                THEN [GoalChanged(calm) EXCEPT !.attempt = NoAttempt] ELSE calm)

-----------------------------------------------------------------------------
(* The agent's turns *)

\* Other actors run only where the code awaits.
Quiet == /\ d.loop # "starting"
         /\ ~(agent.status = "idle" /\ agent.latch = "yes")
         /\ ~(Window = "sync" /\ agent.at = "accepted")

\* A turn opens and claims the first queued message, if there is one.
Claims(q, s) ==
  LET m == IF q = <<>> THEN Nothing ELSE Head(q) IN
  /\ agent' = [IdleAgent EXCEPT !.status = "running", !.at = "claimed", !.batch = m]
  /\ queue' = IF q = <<>> THEN q ELSE Tail(q)
  /\ d' = Claimed(s, m)

\* A cancel comes before the claim: from a listener of the status, or between two
\* turns, where no turn/start follows, or from an observer of turn/start.
CancelledFirst(q, s) ==
  \E keep \in BOOLEAN, at \in {"unopened", "claimed"} :
    /\ agent' = [IdleAgent EXCEPT !.status = "running", !.at = at, !.aborted = "yes"]
    /\ queue' = IF keep THEN q ELSE <<>>
    /\ d' = IF keep THEN s ELSE Discarded(s, q)

Opens(q, s) == Claims(q, s) \/ CancelledFirst(q, s)

\* The agent is idle: the driver hears it, and pauses the goal of a dropped round.
Rests(s, g) ==
  /\ agent' = [IdleAgent EXCEPT !.latch = IF queue = <<>> THEN "no" ELSE agent.latch]
  /\ d' = Idle(s, g)
  /\ goal' = IF Dropped(s, g) THEN Stopped(g, "paused") ELSE g
  /\ UNCHANGED queue

\* The turn ends, and the driver goes on with the queue, or becomes idle.
Ends(reason, s, g) ==
  LET ended == TurnEnded(s, reason)
      left == IF EndDisarms(s, reason) THEN Disarmed(g) ELSE g
  IN IF reason \in {"completed", "max-tokens"} /\ queue # <<>>
     THEN Opens(queue, ended) /\ goal' = left
     ELSE Rests(ended, left)

\* A turn cancelled before its turn/start has no turn/end either.
NotOpened ==
  /\ Quiet /\ agent.at = "unopened"
  /\ Rests(d, goal)
  /\ UNCHANGED <<driver, commands, humans, jobs>>

\* A wake that was latched during the turn, or behind maintenance, is replayed.
Replay ==
  /\ agent.status = "idle" /\ agent.latch = "yes" /\ d.loop # "starting"
  /\ Opens(queue, d)
  /\ UNCHANGED <<goal, driver, commands, humans, jobs>>

Exact(m, g) == g.phase = "active" /\ m.rev = g.rev /\ m.round = g.rounds + 1

\* validReservation.
Valid(m) ==
  /\ driver = "active" /\ Same(m, d.attempt)
  /\ d.attempt.phase = "claimed" /\ d.attempt.stale = "no"
  /\ Live(goal) /\ Exact(m, goal)

\* The driver's listener meets a claimed round before the listeners after it.
PreStep ==
  LET m == agent.batch
      dropped == IF Same(m, d.attempt) THEN [d EXCEPT !.attempt = NoAttempt] ELSE d
  IN /\ Quiet /\ agent.at = "claimed"
     /\ \/ /\ agent.aborted = "yes" /\ Ends("aborted", d, goal)
        \/ /\ agent.aborted = "no" /\ m.kind = "round" /\ Listening
           /\ driver # "active" \/ ~Valid(m)
           /\ Ends("blocked", Requests(dropped), goal)
        \/ /\ agent.aborted = "no"
           /\ m.kind # "round" \/ ~Listening \/ Valid(m)
           /\ agent' = [agent EXCEPT !.at = "deciding"]
           /\ UNCHANGED <<goal, d, queue>>
     /\ UNCHANGED <<driver, commands, humans, jobs>>

\* Mutant: the decision of later listeners is taken as it is.
StillValidUnchecked(m) == TRUE
StillValid(m) == Valid(m)

\* Later listeners answer, while the goal, the queue and the turn move on.  They
\* may empty the step, which ends the turn, or add to one without a message.
Decide ==
  LET m == agent.batch
      fenced == m.kind = "round" /\ Listening
      freed == [d EXCEPT !.attempt = NoAttempt]
  IN /\ Quiet /\ agent.at = "deciding"
     /\ \/ /\ agent.aborted = "yes" /\ Ends("aborted", d, goal)
        \/ /\ agent.aborted = "no"      \* a listener throws
           /\ Ends("error", IF fenced THEN Requests(freed) ELSE d, goal)
        \/ /\ agent.aborted = "no"      \* a listener rejects
           /\ IF fenced /\ Live(goal) /\ m.rev = goal.rev
              THEN Ends("blocked", GoalChanged(freed), Stopped(goal, "blocked"))
              ELSE Ends("blocked", IF fenced THEN freed ELSE d, goal)
        \/ /\ agent.aborted = "no"      \* the step may enter
           /\ IF fenced /\ ~StillValid(m)
              THEN Ends("blocked", Requests(freed), goal)
              ELSE \/ Ends("empty", d, goal)
                   \/ /\ agent' = [agent EXCEPT !.at = "accepted"]
                      /\ UNCHANGED <<goal, d, queue>>
     /\ UNCHANGED <<driver, commands, humans, jobs>>

\* user/message is logged: the fold counts the round, or fails for good.
Enter ==
  LET m == agent.batch IN
  /\ d.loop # "starting" /\ agent.at = "accepted"
  /\ IF agent.aborted = "yes" THEN Ends("aborted", d, goal)
     ELSE /\ agent' = [agent EXCEPT !.at = "stepping"]
          /\ goal' = IF m.kind # "round" THEN goal
                     ELSE IF Exact(m, goal) THEN [goal EXCEPT !.rounds = @ + 1]
                     ELSE [goal EXCEPT !.phase = "failed"]
          /\ d' = IF Listening /\ Same(m, d.attempt)
                  THEN [d EXCEPT !.attempt.phase = "admitted"] ELSE d
          /\ UNCHANGED <<queue>>
  /\ UNCHANGED <<driver, commands, humans, jobs>>

StepEnds ==
  /\ Quiet /\ agent.at = "stepping"
  /\ \E reason \in {"completed", "max-tokens", "error", "aborted"} :
       /\ (reason = "aborted") <=> (agent.aborted = "yes")
       /\ Ends(reason, d, goal)
  /\ UNCHANGED <<driver, commands, humans, jobs>>

-----------------------------------------------------------------------------
(* The driver's run *)

\* readyToDrive: an agent in maintenance is idle too.
Ready(s) == /\ driver = "active" /\ agent.status # "running"
            /\ s.competing = "no"

Reservation == [rev |-> goal.rev, round |-> goal.rounds + 1, phase |-> "queued",
                cancelled |-> "no", stale |-> "no"]

\* The round is queued and wakes the agent.  Observers of the insertion may
\* queue a human prompt behind it or cancel; a custom agent may refuse it.
Reserve(s) ==
  LET m == [kind |-> "round", rev |-> goal.rev, round |-> goal.rounds + 1]
      held == [s EXCEPT !.attempt = Reservation]
      Queued(q, t) ==
        /\ IF agent.status = "idle" THEN Opens(q, t)
           ELSE /\ queue' = q /\ d' = t
                /\ agent' = [agent EXCEPT !.latch = "yes",
                                !.aborted = IF q = <<>> THEN "yes" ELSE @]
        /\ UNCHANGED goal
  IN \/ Queued(Append(queue, m), held) /\ UNCHANGED humans
     \/ /\ humans < MaxHumans /\ humans' = humans + 1
        /\ Queued(Append(Append(queue, m), Human), HumanInserted(held))
     \/ /\ Queued(<<>>, Discarded(held, Append(queue, m))) /\ UNCHANGED humans
     \/ /\ d' = GoalChanged(s) /\ goal' = Stopped(goal, "blocked")
        /\ UNCHANGED <<queue, agent, humans>>

\* Mutant: the round past the cap is still queued.
AtLimitLoose == goal.rounds > MaxRounds
AtLimit == goal.rounds >= MaxRounds

\* drive, past its checkpoint: settle the last round, or reserve the next one.
Schedule(s) ==
  \/ /\ s.attempt # NoAttempt
     /\ d' = [s EXCEPT !.attempt = NoAttempt, !.checkpoint = "yes",
                       !.requested = "yes"]
     /\ UNCHANGED <<goal, queue, agent, humans>>
  \/ /\ s.attempt = NoAttempt /\ ~Live(goal) /\ d' = s
     /\ UNCHANGED <<goal, queue, agent, humans>>
  \/ /\ s.attempt = NoAttempt /\ Live(goal) /\ AtLimit
     /\ d' = GoalChanged(s) /\ goal' = Stopped(goal, "blocked")
     /\ UNCHANGED <<queue, agent, humans>>
  \/ /\ s.attempt = NoAttempt /\ Live(goal) /\ ~AtLimit
     /\ Reserve(s)

\* One pass of the run, up to its checkpoint.
Drive ==
  LET s == [d EXCEPT !.requested = "no", !.loop = "looping"] IN
  /\ d.requested = "yes" /\ driver = "active"
  /\ d.loop = "starting" \/ (d.loop = "looping" /\ Quiet)
  /\ IF ~Ready(s) THEN d' = s /\ UNCHANGED <<goal, queue, agent, humans>>
     ELSE IF s.checkpoint = "yes"
     THEN /\ d' = [s EXCEPT !.checkpoint = "no", !.loop = "flushing"]
          /\ UNCHANGED <<goal, queue, agent, humans>>
     ELSE Schedule(s)
  /\ UNCHANGED <<driver, commands, jobs>>

\* The checkpoint settles; a mutation or a prompt that came meanwhile is given
\* a pass of its own.
Flushed ==
  LET s == [d EXCEPT !.loop = "looping"] IN
  /\ Quiet /\ d.loop = "flushing"
  /\ IF Ready(s) /\ s.checkpoint = "no" THEN Schedule(s)
     ELSE d' = s /\ UNCHANGED <<goal, queue, agent, humans>>
  /\ UNCHANGED <<driver, commands, jobs>>

FlushFails ==
  /\ Quiet /\ d.loop = "flushing"
  /\ d' = [d EXCEPT !.loop = "looping"] /\ goal' = Disarmed(goal)
  /\ UNCHANGED <<driver, queue, agent, commands, humans, jobs>>

\* The run ends when nothing is requested.
Retire ==
  /\ Quiet /\ d.loop = "looping"
  /\ d.requested = "no" \/ driver # "active"
  /\ d' = [d EXCEPT !.loop = "none"]
  /\ UNCHANGED <<goal, driver, queue, agent, commands, humans, jobs>>

-----------------------------------------------------------------------------
(* Users, plugins and the lifecycle *)

Command ==
  /\ Quiet /\ commands < MaxCommands /\ commands' = commands + 1
  /\ goal' \in Mutations(goal) /\ d' = GoalChanged(d)
  /\ UNCHANGED <<driver, queue, agent, humans, jobs>>

\* A prompt wakes an idle agent; behind an abort or maintenance its wake is
\* latched.
Prompt ==
  /\ Quiet /\ humans < MaxHumans /\ humans' = humans + 1
  /\ LET q == Append(queue, Human)
         s == HumanInserted(d)
     IN IF agent.status = "idle" THEN Opens(q, s)
        ELSE /\ queue' = q /\ d' = s
             /\ agent' = [agent EXCEPT !.latch =
                  IF agent.status = "maintenance" \/ agent.aborted = "yes"
                  THEN "yes" ELSE @]
  /\ UNCHANGED <<goal, driver, commands, jobs>>

Cancelled(keep) ==
  /\ agent' = [agent EXCEPT !.aborted = IF agent.status = "idle" THEN "no" ELSE "yes",
                            !.latch = IF keep THEN @ ELSE "no"]
  /\ queue' = IF keep THEN queue ELSE <<>>

\* A user's cancel, with or without the inbox.
Cancel ==
  /\ Quiet
  /\ agent.status # "idle" \/ queue # <<>>
  /\ \E keep \in BOOLEAN :
       /\ Cancelled(keep)
       /\ d' = IF keep THEN d ELSE Discarded(d, queue)
  /\ UNCHANGED <<goal, driver, commands, humans, jobs>>

\* Maintenance takes an idle agent; its end replays a wake latched behind it.
BeginMaintenance ==
  /\ Quiet /\ agent.status = "idle" /\ jobs < MaxJobs /\ jobs' = jobs + 1
  /\ agent' = [agent EXCEPT !.status = "maintenance"]
  /\ UNCHANGED <<goal, driver, d, queue, commands, humans>>

EndMaintenance ==
  /\ Quiet /\ agent.status = "maintenance"
  /\ agent' = [IdleAgent EXCEPT
                 !.latch = IF queue = <<>> THEN "no" ELSE agent.latch]
  /\ UNCHANGED <<goal, driver, d, queue, commands, humans, jobs>>

\* Teardown disarms, fences the reservation and cancels the turn it is in.
Unload ==
  /\ Quiet /\ driver = "active" /\ goal' = Disarmed(goal)
  /\ IF d.attempt # NoAttempt /\ agent.status = "running"
     THEN /\ driver' = "draining" /\ Cancelled(FALSE)
          /\ d' = Discarded([d EXCEPT !.attempt.stale = "yes"], queue)
     ELSE /\ driver' = "stopping" /\ UNCHANGED <<agent, queue>>
          /\ d' = IF d.attempt = NoAttempt THEN d
                  ELSE [d EXCEPT !.attempt.stale = "yes"]
  /\ UNCHANGED <<commands, humans, jobs>>

Unloaded ==
  /\ Quiet /\ driver \in {"stopping", "draining"} /\ d.loop = "none"
  /\ driver = "draining" => agent.status # "running"
  /\ driver' = "gone" /\ d' = FreshDriver
  /\ UNCHANGED <<goal, queue, agent, commands, humans, jobs>>

-----------------------------------------------------------------------------
\* A resumed session: its goal is active and nobody armed it yet.
Init ==
  /\ goal = [phase |-> "active", rev |-> 1, rounds |-> 0, activation |-> "disarmed"]
  /\ driver = "active" /\ d = FreshDriver /\ queue = <<>> /\ agent = IdleAgent
  /\ commands = 0 /\ humans = 0 /\ jobs = 0

Turn == NotOpened \/ PreStep \/ Decide \/ Enter \/ StepEnds \/ Replay
Run == Drive \/ Flushed \/ FlushFails \/ Retire

Next ==
  \/ Turn \/ Run \/ Command \/ Prompt \/ Cancel
  \/ BeginMaintenance \/ EndMaintenance \/ Unload \/ Unloaded

Spec == Init /\ [][Next]_vars

\* Turns and maintenance end, and the driver's run goes on.
FairSpec ==
  Spec /\ WF_vars(Turn) /\ WF_vars(Run) /\ WF_vars(EndMaintenance)
       /\ WF_vars(Unloaded)

-----------------------------------------------------------------------------
(* Properties *)

Enters == agent.at = "accepted" /\ agent'.at = "stepping" /\ agent.batch.kind = "round"

\* While the driver's fence is installed, a round that enters history is the
\* next one of the live revision: no edit, pause, completion or unload while its
\* prompt was queued, claimed and decided slips past.
RoundsAreExact ==
  [][Enters /\ Listening => Live(goal) /\ Exact(agent.batch, goal)]_vars

CancelEnds == /\ agent.aborted = "yes" /\ agent.at # "none" /\ Listening
              /\ agent'.status = "idle"

\* Cancellation never restarts a round: once a cancelled turn has ended and the
\* agent is idle, the goal has no authority left, whether its round was queued,
\* claimed or admitted, stale or replaced, or the turn was about something else.
\* Excepted is a cancel before turn/start of a turn that no queued round opened.
CancelStopsRounds ==
  [][CancelEnds /\ (agent.at = "unopened" => d.attempt.phase = "queued")
       => ~Live(goal')]_vars

\* An armed goal never stalls: a round of it enters, until the cap stops it, or it
\* is edited, disarmed or stopped, or the driver goes.  Rounds and commands are
\* finitely many, so a goal that stays armed for ever is one that waits for a round
\* for ever.  A cancel during maintenance excepts it: the agent was idle all along,
\* so no status change follows that pauses the goal or clears the competing prompt.
GoalNeverStalls ==
  [](agent.status = "maintenance" => agent.aborted = "no")
    => []<>~(Live(goal) /\ driver = "active")
=============================================================================
