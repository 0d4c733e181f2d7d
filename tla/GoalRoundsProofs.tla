-------------------------- MODULE GoalRoundsProofs ---------------------------
(***************************************************************************)
(* Proofs about GoalRounds for any limit of rounds and any number of       *)
(* commands, prompts and maintenance activities.                           *)
(***************************************************************************)
EXTENDS GoalRounds, TLAPS

\* The driver stops a goal only while it is live, and only a command makes it
\* live again: revisions are bounded by the commands.
RevInv == goal.rev <= IF Live(goal) THEN 2 * commands ELSE 2 * commands + 1

\* The inductive invariant.
IInv == TypeOK /\ RevInv

-----------------------------------------------------------------------------
(* The goal *)

GoalShape ==
  [phase : {"none", "active", "paused", "blocked", "complete", "failed"},
   rev : Nat \ {0}, rounds : 0..MaxRounds, activation : {"armed", "disarmed"}]

\* A goal after c commands.
Sound(g, c) ==
  g \in GoalShape /\ g.rev <= IF Live(g) THEN 2 * c ELSE 2 * c + 1

Counters ==
  commands \in 0..MaxCommands /\ humans \in 0..MaxHumans /\ jobs \in 0..MaxJobs
AgentType == agent \in Agent /\ (agent.at # "none" <=> agent.status = "running")
Drivers == {"active", "stopping", "draining", "gone"}

\* The inductive invariant, by the parts of the state.
LEMMA Parts ==
  IInv <=> /\ Sound(goal, commands) /\ d \in Driver /\ AgentType
           /\ queue \in Seq(Message) /\ driver \in Drivers /\ Counters
<1>1. ASSUME goal \in GoalShape, Counters, RevInv PROVE goal \in Goal
  <2>1. commands \in Nat /\ MaxCommands \in Nat /\ commands <= MaxCommands
    BY <1>1, BoundsAssumption DEF Counters
  <2>2. goal.rev \in Nat \ {0} /\ goal.rev <= 2 * commands + 1
    BY <1>1, <2>1 DEF GoalShape, RevInv
  <2>3. goal.rev \in 1..MaxRevision
    BY <2>1, <2>2 DEF MaxRevision
  <2> QED BY <1>1, <2>3 DEF GoalShape, Goal
<1>2. ASSUME goal \in Goal PROVE goal \in GoalShape
  <2>1. goal.rev \in Nat \ {0}
    BY <1>2, BoundsAssumption DEF Goal, MaxRevision
  <2> QED BY <1>2, <2>1 DEF GoalShape, Goal
<1> QED BY <1>1, <1>2 DEF IInv, TypeOK, Sound, Counters, AgentType, Drivers, RevInv

\* What the goal service makes of a goal.
LEMMA GoalFacts ==
  ASSUME NEW c \in Nat, NEW g, Sound(g, c)
  PROVE  /\ Sound(Disarmed(g), c) /\ ~Live(Disarmed(g))
         /\ \A phase \in {"paused", "blocked"} : ~Live(Stopped(g, phase))
         /\ Live(g) => \A phase \in {"paused", "blocked"} : Sound(Stopped(g, phase), c)
         /\ Sound([g EXCEPT !.phase = "failed"], c)
         /\ g.rounds < MaxRounds => Sound([g EXCEPT !.rounds = @ + 1], c)
         /\ \A h \in Mutations(g) : Sound(h, c + 1)
<1> USE DEF Sound, GoalShape, Live
<1>a. g.rev + 1 \in Nat \ {0}
  OBVIOUS
<1>1. Sound(Disarmed(g), c) /\ ~Live(Disarmed(g))
  BY DEF Disarmed
<1>2. ASSUME NEW phase \in {"none", "paused", "blocked", "complete"}
      PROVE  /\ Stopped(g, phase) \in GoalShape /\ ~Live(Stopped(g, phase))
             /\ Stopped(g, phase).rev = g.rev + 1
  <2>1. Stopped(g, phase) =
          [g EXCEPT !.phase = phase, !.rev = g.rev + 1, !.activation = "disarmed"]
    BY DEF Stopped
  <2> QED BY <1>a, <2>1
<1>3. ASSUME NEW phase \in {"paused", "blocked"}, Live(g)
      PROVE  Sound(Stopped(g, phase), c)
  <2>1. g.rev <= 2 * c /\ g.rev \in Nat
    BY <1>3
  <2> QED BY <1>2, <2>1
<1>4. Sound([g EXCEPT !.phase = "failed"], c)
  OBVIOUS
<1>5. ASSUME g.rounds < MaxRounds PROVE Sound([g EXCEPT !.rounds = @ + 1], c)
  <2>1. g.rounds + 1 \in 0..MaxRounds
    BY <1>5, BoundsAssumption
  <2> QED BY <2>1
<1>6. ASSUME NEW h \in Mutations(g) PROVE Sound(h, c + 1)
  <2>1. h \in GoalShape /\ h.rev = g.rev + 1
    <3>1. CASE h = [phase |-> "active", rev |-> g.rev + 1, rounds |-> 0,
                    activation |-> "armed"]
      BY <3>1, BoundsAssumption
    <3>2. CASE h = [g EXCEPT !.rev = @ + 1]
      BY <3>2
    <3>3. CASE h = [Stopped(g, "none") EXCEPT !.rounds = 0]
      BY <3>3, <1>2, BoundsAssumption
    <3>4. CASE h \in {Stopped(g, "paused"), Stopped(g, "blocked"), Stopped(g, "complete")}
      BY <3>4, <1>2
    <3>5. CASE h = [g EXCEPT !.phase = "active", !.rev = @ + 1, !.activation = "armed"]
      <4>1. h = [g EXCEPT !.phase = "active", !.rev = g.rev + 1, !.activation = "armed"]
        BY <3>5
      <4> QED BY <1>a, <4>1
    <3> QED BY <3>1, <3>2, <3>3, <3>4, <3>5 DEF Mutations
  <2>2. g.rev <= 2 * c + 1 /\ g.rev \in Nat
    OBVIOUS
  <2>3. h.rev <= 2 * (c + 1)
    BY <2>1, <2>2
  <2> QED BY <2>1, <2>3
<1> QED BY <1>1, <1>2, <1>3, <1>4, <1>5, <1>6

\* The same, of the next state.
LEMMA PartsNext ==
  ASSUME Sound(goal', commands'), d' \in Driver, AgentType', queue' \in Seq(Message),
         driver' \in Drivers, Counters'
  PROVE  IInv'
<1>1. /\ Sound(goal, commands)' /\ (d \in Driver)' /\ AgentType'
      /\ (queue \in Seq(Message))' /\ (driver \in Drivers)' /\ Counters'
  OBVIOUS
<1>2. (IInv <=> /\ Sound(goal, commands) /\ d \in Driver /\ AgentType
                /\ queue \in Seq(Message) /\ driver \in Drivers /\ Counters)'
  BY Parts, PTL
<1> QED BY <1>1, <1>2

-----------------------------------------------------------------------------
(* The driver *)

\* The fields of the driver's attempt that its handlers change.
LEMMA AttemptFacts ==
  ASSUME NEW a \in Attempt
  PROVE  /\ a # NoAttempt /\ a.phase # "none"
         /\ \A phase \in {"queued", "claimed", "admitted"} :
              [a EXCEPT !.phase = phase] \in Attempt
         /\ [a EXCEPT !.cancelled = "yes"] \in Attempt
         /\ [a EXCEPT !.stale = "yes"] \in Attempt
  BY DEF Attempt, NoAttempt

\* Every handler keeps the driver's state well formed.
LEMMA DriverFacts ==
  ASSUME NEW s \in Driver
  PROVE  /\ Requests(s) \in Driver /\ GoalChanged(s) \in Driver
         /\ HumanInserted(s) \in Driver
         /\ [s EXCEPT !.attempt = NoAttempt] \in Driver
         /\ s.attempt # NoAttempt => [s EXCEPT !.attempt.stale = "yes"] \in Driver
         /\ \A m : /\ Claimed(s, m) \in Driver
                   /\ Same(m, s.attempt) => [s EXCEPT !.attempt.phase = "admitted"] \in Driver
         /\ \A q : Discarded(s, q) \in Driver
         /\ \A reason : TurnEnded(s, reason) \in Driver
         /\ \A g : Idle(s, g) \in Driver
<1>1. ASSUME NEW r \in Driver PROVE Requests(r) \in Driver
  <2>1. ASSUME NEW l \in {"none", "starting", "flushing", "looping"}
        PROVE  [r EXCEPT !.requested = "yes", !.loop = l] \in Driver
    BY DEF Driver
  <2>2. r.loop \in {"none", "starting", "flushing", "looping"}
    BY DEF Driver
  <2>3. (IF r.loop = "none" THEN "starting" ELSE r.loop)
          \in {"none", "starting", "flushing", "looping"}
    BY <2>2
  <2> QED BY <2>1, <2>3 DEF Requests
<1>2. ASSUME NEW r \in Driver PROVE GoalChanged(r) \in Driver
  <2>1. [r EXCEPT !.checkpoint = "yes"] \in Driver
    BY DEF Driver
  <2> QED BY <1>1, <2>1 DEF GoalChanged
<1>3. ASSUME NEW a \in Attempt \cup {NoAttempt} PROVE [s EXCEPT !.attempt = a] \in Driver
  BY DEF Driver
<1>4. s.attempt \in Attempt \cup {NoAttempt}
  BY DEF Driver
<1>5. s.attempt # NoAttempt =>
        /\ s.attempt \in Attempt
        /\ \A phase \in {"queued", "claimed", "admitted"} :
             [s EXCEPT !.attempt = [s.attempt EXCEPT !.phase = phase]] \in Driver
        /\ [s EXCEPT !.attempt = [s.attempt EXCEPT !.cancelled = "yes"]] \in Driver
        /\ [s EXCEPT !.attempt = [s.attempt EXCEPT !.stale = "yes"]] \in Driver
  BY <1>3, <1>4, AttemptFacts
<1>6. HumanInserted(s) \in Driver
  <2>1. CASE s.attempt.phase = "queued"
    <3>1. s.attempt # NoAttempt
      BY <2>1 DEF NoAttempt
    <3>2. HumanInserted(s) =
            IF Listening
            THEN [s EXCEPT !.competing = "yes",
                           !.attempt = [s.attempt EXCEPT !.stale = "yes"]]
            ELSE s
      BY <2>1 DEF HumanInserted
    <3>3. [s.attempt EXCEPT !.stale = "yes"] \in Attempt
      BY <1>4, <3>1, AttemptFacts
    <3>4. [s EXCEPT !.competing = "yes", !.attempt = [s.attempt EXCEPT !.stale = "yes"]]
            \in Driver
      BY <3>3 DEF Driver
    <3> QED BY <3>2, <3>4
  <2>2. CASE s.attempt.phase # "queued"
    BY <2>2 DEF HumanInserted, Driver
  <2> QED BY <2>1, <2>2
<1>7. ASSUME NEW m PROVE /\ Claimed(s, m) \in Driver
                         /\ Same(m, s.attempt) =>
                              [s EXCEPT !.attempt.phase = "admitted"] \in Driver
  BY <1>5 DEF Claimed, Same
<1>8. ASSUME NEW q PROVE Discarded(s, q) \in Driver
  BY <1>5 DEF Discarded, Same
<1>9. ASSUME NEW reason PROVE TurnEnded(s, reason) \in Driver
  <2>1. s.attempt.phase \in {"claimed", "admitted"} => s.attempt # NoAttempt
    BY DEF NoAttempt
  <2> QED BY <1>5, <2>1 DEF TurnEnded
<1>10. ASSUME NEW g PROVE Idle(s, g) \in Driver
  <2> DEFINE calm == [s EXCEPT !.competing = "no"]
  <2>1. calm \in Driver
    BY DEF Driver
  <2> HIDE DEF calm
  <2>2. [GoalChanged(calm) EXCEPT !.attempt = NoAttempt] \in Driver
    BY <1>2, <2>1 DEF Driver
  <2>3. Idle(s, g) = IF ~Listening THEN s
                     ELSE Requests(IF Dropped(s, g)
                                   THEN [GoalChanged(calm) EXCEPT !.attempt = NoAttempt]
                                   ELSE calm)
    BY DEF Idle, calm
  <2> QED BY <1>1, <2>1, <2>2, <2>3
<1> QED BY <1>1, <1>2, <1>3, <1>5, <1>6, <1>7, <1>8, <1>9, <1>10

-----------------------------------------------------------------------------
(* The agent *)

\* A turn opens with the first queued message.
LEMMA OpensFacts ==
  ASSUME NEW q \in Seq(Message), NEW s \in Driver, Opens(q, s)
  PROVE  /\ AgentType' /\ agent'.status = "running"
         /\ queue' \in Seq(Message) /\ d' \in Driver
<1>1. CASE Claims(q, s)
  <2> DEFINE m == IF q = <<>> THEN Nothing ELSE Head(q)
  <2>1. /\ m \in Message \cup {Nothing} /\ queue' \in Seq(Message)
    BY <1>1 DEF Claims
  <2>2. agent' = [IdleAgent EXCEPT !.status = "running", !.at = "claimed", !.batch = m]
        /\ d' = Claimed(s, m)
    BY <1>1 DEF Claims
  <2> HIDE DEF m
  <2>3. d' \in Driver
    BY <2>2, DriverFacts
  <2>4. agent' \in Agent /\ agent'.status = "running" /\ agent'.at = "claimed"
    BY <2>1, <2>2 DEF Agent, IdleAgent
  <2> QED BY <2>1, <2>3, <2>4 DEF AgentType
<1>2. CASE CancelledFirst(q, s)
  <2>1. PICK keep \in BOOLEAN, at \in {"unopened", "claimed"} :
          /\ agent' = [IdleAgent EXCEPT !.status = "running", !.at = at, !.aborted = "yes"]
          /\ queue' = IF keep THEN q ELSE <<>>
          /\ d' = IF keep THEN s ELSE Discarded(s, q)
    BY <1>2 DEF CancelledFirst
  <2>2. agent' \in Agent /\ agent'.status = "running" /\ agent'.at = at
    BY <2>1 DEF Agent, IdleAgent
  <2>3. d' \in Driver
    BY <2>1, DriverFacts
  <2>4. queue' \in Seq(Message)
    BY <2>1
  <2> QED BY <2>2, <2>3, <2>4 DEF AgentType
<1> QED BY <1>1, <1>2 DEF Opens

\* The agent rests: the goal of a dropped round is paused.
LEMMA RestsFacts ==
  ASSUME AgentType, queue \in Seq(Message), commands \in Nat,
         NEW s \in Driver, NEW g, Sound(g, commands), Rests(s, g)
  PROVE  AgentType' /\ queue' \in Seq(Message) /\ d' \in Driver /\ Sound(goal', commands)
<1>1. /\ agent' = [IdleAgent EXCEPT !.latch = IF queue = <<>> THEN "no" ELSE agent.latch]
      /\ d' = Idle(s, g) /\ queue' = queue
      /\ goal' = IF Dropped(s, g) THEN Stopped(g, "paused") ELSE g
  BY DEF Rests
<1>2. Sound(goal', commands)
  BY <1>1, GoalFacts DEF Dropped
<1>3. agent' \in Agent /\ agent'.at = "none" /\ agent'.status = "idle"
  BY <1>1 DEF AgentType, Agent, IdleAgent, Nothing
<1> QED BY <1>1, <1>2, <1>3, DriverFacts DEF AgentType

\* A turn ends, for whatever reason, and the next one opens or the agent is idle.
LEMMA EndsFacts ==
  ASSUME IInv, NEW reason, NEW s \in Driver, NEW g, Sound(g, commands),
         Ends(reason, s, g)
  PROVE  AgentType' /\ queue' \in Seq(Message) /\ d' \in Driver /\ Sound(goal', commands)
<1> DEFINE ended == TurnEnded(s, reason)
           left == IF EndDisarms(s, reason) THEN Disarmed(g) ELSE g
<1>1. commands \in Nat /\ AgentType /\ queue \in Seq(Message)
  BY Parts DEF Counters
<1>2. ended \in Driver
  BY DriverFacts
<1>3. Sound(left, commands)
  BY <1>1, GoalFacts
<1>4. CASE Opens(queue, ended) /\ goal' = left
  BY <1>1, <1>2, <1>3, <1>4, OpensFacts
<1>5. CASE Rests(ended, left)
  <2> HIDE DEF ended, left
  <2> QED BY <1>1, <1>2, <1>3, <1>5, RestsFacts
<1> QED BY <1>4, <1>5 DEF Ends

\* A turn's end keeps the invariant, whoever ends it.
LEMMA EndsStep ==
  ASSUME IInv, NEW reason, NEW s \in Driver, NEW g, Sound(g, commands),
         Ends(reason, s, g), UNCHANGED <<driver, commands, humans, jobs>>
  PROVE  IInv'
<1>1. driver \in Drivers /\ Counters
  BY Parts
<1>2. AgentType' /\ queue' \in Seq(Message) /\ d' \in Driver /\ Sound(goal', commands)
  BY EndsFacts
<1>3. Counters'
  BY <1>1 DEF Counters
<1> QED BY <1>1, <1>2, <1>3, PartsNext

-----------------------------------------------------------------------------
(* The steps of a turn *)

\* A turn that was cancelled before its start leaves the agent idle.
LEMMA NotOpenedStep ==
  ASSUME IInv, NotOpened
  PROVE  IInv'
<1>1. /\ Sound(goal, commands) /\ d \in Driver /\ AgentType /\ queue \in Seq(Message)
      /\ driver \in Drivers /\ Counters /\ commands \in Nat
      /\ Rests(d, goal) /\ UNCHANGED <<driver, commands, humans, jobs>>
  BY Parts DEF NotOpened, Counters
<1>2. AgentType' /\ queue' \in Seq(Message) /\ d' \in Driver /\ Sound(goal', commands)
  BY <1>1, RestsFacts
<1> QED BY <1>1, <1>2, PartsNext DEF Counters

\* The driver's own listener meets the claimed message.
LEMMA PreStepStep ==
  ASSUME IInv, PreStep
  PROVE  IInv'
<1> DEFINE m == agent.batch
           dropped == IF Same(m, d.attempt) THEN [d EXCEPT !.attempt = NoAttempt] ELSE d
<1>1. /\ Sound(goal, commands) /\ d \in Driver /\ AgentType /\ queue \in Seq(Message)
      /\ driver \in Drivers /\ Counters
      /\ UNCHANGED <<driver, commands, humans, jobs>> /\ agent.at = "claimed"
  BY Parts DEF PreStep
<1>2. dropped \in Driver /\ Requests(dropped) \in Driver
  BY <1>1, DriverFacts
<1>3. CASE Ends("aborted", d, goal) \/ Ends("blocked", Requests(dropped), goal)
  BY <1>1, <1>2, <1>3, EndsStep
<1>4. CASE agent' = [agent EXCEPT !.at = "deciding"] /\ UNCHANGED <<goal, d, queue>>
  <2>1. AgentType'
    BY <1>1, <1>4 DEF AgentType, Agent
  <2> QED BY <1>1, <1>4, <2>1, PartsNext DEF Counters
<1> QED BY <1>3, <1>4 DEF PreStep

\* The listeners after it decide.
LEMMA DecideStep ==
  ASSUME IInv, Decide
  PROVE  IInv'
<1> DEFINE m == agent.batch
           fenced == m.kind = "round" /\ Listening
           freed == [d EXCEPT !.attempt = NoAttempt]
<1>1. /\ Sound(goal, commands) /\ d \in Driver /\ AgentType /\ queue \in Seq(Message)
      /\ driver \in Drivers /\ Counters /\ commands \in Nat
      /\ UNCHANGED <<driver, commands, humans, jobs>> /\ agent.at = "deciding"
  BY Parts DEF Decide, Counters
<1>2. freed \in Driver /\ Requests(freed) \in Driver /\ GoalChanged(freed) \in Driver
  BY <1>1, DriverFacts
<1>3. Live(goal) => Sound(Stopped(goal, "blocked"), commands)
  BY <1>1, GoalFacts
<1>4. CASE \/ Ends("aborted", d, goal)
           \/ Ends("error", IF fenced THEN Requests(freed) ELSE d, goal)
           \/ Live(goal) /\ Ends("blocked", GoalChanged(freed), Stopped(goal, "blocked"))
           \/ Ends("blocked", IF fenced THEN freed ELSE d, goal)
           \/ Ends("empty", d, goal)
           \/ Ends("blocked", Requests(freed), goal)
  BY <1>1, <1>2, <1>3, <1>4, EndsStep
<1>5. CASE agent' = [agent EXCEPT !.at = "accepted"] /\ UNCHANGED <<goal, d, queue>>
  <2>1. AgentType'
    BY <1>1, <1>5 DEF AgentType, Agent
  <2> QED BY <1>1, <1>5, <2>1, PartsNext DEF Counters
<1>6. \/ Ends("aborted", d, goal)
      \/ Ends("error", IF fenced THEN Requests(freed) ELSE d, goal)
      \/ Live(goal) /\ Ends("blocked", GoalChanged(freed), Stopped(goal, "blocked"))
      \/ Ends("blocked", IF fenced THEN freed ELSE d, goal)
      \/ Ends("empty", d, goal)
      \/ Ends("blocked", Requests(freed), goal)
      \/ agent' = [agent EXCEPT !.at = "accepted"] /\ UNCHANGED <<goal, d, queue>>
  <2> HIDE DEF freed, m
  <2> QED BY DEF Decide, freed, m
<1> QED BY <1>4, <1>5, <1>6

\* The round is logged, and counts if it is the next one.
LEMMA EnterStep ==
  ASSUME IInv, Enter
  PROVE  IInv'
<1> DEFINE m == agent.batch
<1>1. /\ Sound(goal, commands) /\ d \in Driver /\ AgentType /\ queue \in Seq(Message)
      /\ driver \in Drivers /\ Counters /\ commands \in Nat
      /\ UNCHANGED <<driver, commands, humans, jobs>> /\ agent.at = "accepted"
  BY Parts DEF Enter, Counters
<1>2. CASE agent.aborted = "yes"
  BY <1>1, <1>2, EndsStep DEF Enter
<1>3. CASE agent.aborted # "yes"
  <2>1. /\ agent' = [agent EXCEPT !.at = "stepping"]
        /\ goal' = IF m.kind # "round" THEN goal
                   ELSE IF Exact(m, goal) THEN [goal EXCEPT !.rounds = @ + 1]
                   ELSE [goal EXCEPT !.phase = "failed"]
        /\ d' = IF Listening /\ Same(m, d.attempt)
                THEN [d EXCEPT !.attempt.phase = "admitted"] ELSE d
        /\ UNCHANGED queue
    BY <1>3 DEF Enter
  <2>2. AgentType'
    BY <1>1, <2>1 DEF AgentType, Agent
  <2>3. d' \in Driver
    BY <1>1, <2>1, DriverFacts
  <2>4. m.kind = "round" /\ Exact(m, goal) => goal.rounds < MaxRounds
    <3>1. m \in Message \cup {Nothing}
      BY <1>1 DEF AgentType, Agent
    <3>2. m.kind = "round" => m \in Round
      BY <3>1 DEF Message, Human, Nothing
    <3>3. goal.rounds \in Nat
      BY <1>1 DEF Sound, GoalShape
    <3> QED BY <3>2, <3>3, BoundsAssumption DEF Round, Exact
  <2>5. Sound(goal', commands)
    BY <1>1, <2>1, <2>4, GoalFacts
  <2>6. Counters'
    BY <1>1 DEF Counters
  <2> QED BY <1>1, <2>1, <2>2, <2>3, <2>5, <2>6, PartsNext
<1> QED BY <1>2, <1>3

\* The step ends its turn.
LEMMA StepEndsStep ==
  ASSUME IInv, StepEnds
  PROVE  IInv'
<1>1. Sound(goal, commands) /\ d \in Driver
  BY Parts
<1>2. PICK reason : Ends(reason, d, goal) /\ UNCHANGED <<driver, commands, humans, jobs>>
  BY DEF StepEnds
<1> QED BY <1>1, <1>2, EndsStep

\* A latched wake is replayed.
LEMMA ReplayStep ==
  ASSUME IInv, Replay
  PROVE  IInv'
<1>1. /\ Sound(goal, commands) /\ d \in Driver /\ queue \in Seq(Message)
      /\ driver \in Drivers /\ Counters /\ Opens(queue, d)
      /\ UNCHANGED <<goal, driver, commands, humans, jobs>>
  BY Parts DEF Replay
<1>2. AgentType' /\ queue' \in Seq(Message) /\ d' \in Driver
  BY <1>1, OpensFacts
<1>3. Counters'
  BY <1>1 DEF Counters
<1> QED BY <1>1, <1>2, <1>3, PartsNext

-----------------------------------------------------------------------------
(* The driver's run *)

\* An agent that runs no turn has no round accepted.
LEMMA NoTurn ==
  ASSUME AgentType, agent.status # "running"
  PROVE  agent.at = "none"
  BY DEF AgentType, Agent

\* A round is reserved, queued and waked for, or refused by a custom agent.
LEMMA ReserveStep ==
  ASSUME IInv, NEW s \in Driver, agent.status # "running", Live(goal), ~AtLimit,
         Reserve(s), UNCHANGED <<driver, commands, jobs>>
  PROVE  IInv'
<1> DEFINE m == [kind |-> "round", rev |-> goal.rev, round |-> goal.rounds + 1]
           held == [s EXCEPT !.attempt = Reservation]
           Queued(q, r) ==
             /\ IF agent.status = "idle" THEN Opens(q, r)
                ELSE /\ queue' = q /\ d' = r
                     /\ agent' = [agent EXCEPT !.latch = "yes",
                                     !.aborted = IF q = <<>> THEN "yes" ELSE @]
             /\ UNCHANGED goal
<1>1. /\ Sound(goal, commands) /\ AgentType /\ queue \in Seq(Message)
      /\ driver \in Drivers /\ Counters /\ commands \in Nat /\ goal \in Goal
  BY Parts DEF Counters, IInv, TypeOK
<1>2. goal.rounds + 1 \in 1..MaxRounds /\ goal.rev \in 1..MaxRevision
  BY <1>1, BoundsAssumption DEF Goal, AtLimit
<1>3. m \in Message /\ Human \in Message
  BY <1>2 DEF Message, Round
<1>4. held \in Driver
  <2>1. Reservation \in Attempt
    BY <1>2 DEF Reservation, Attempt
  <2> QED BY <2>1 DEF Driver
<1>5. ASSUME NEW q \in Seq(Message), NEW r \in Driver, Queued(q, r)
      PROVE  AgentType' /\ queue' \in Seq(Message) /\ d' \in Driver /\ goal' = goal
  <2>1. CASE agent.status = "idle"
    BY <1>5, <2>1, OpensFacts
  <2>2. CASE agent.status # "idle"
    <3>1. agent' = [agent EXCEPT !.latch = "yes",
                       !.aborted = IF q = <<>> THEN "yes" ELSE @]
      BY <1>5, <2>2
    <3>2. agent.at = "none"
      BY <1>1, NoTurn
    <3>3. agent' \in Agent /\ agent'.at = "none" /\ agent'.status = agent.status
      BY <1>1, <3>1, <3>2 DEF AgentType, Agent
    <3> QED BY <1>5, <2>2, <3>3 DEF AgentType
  <2> QED BY <2>1, <2>2
<1>6. /\ Append(queue, m) \in Seq(Message) /\ Append(Append(queue, m), Human) \in Seq(Message)
      /\ <<>> \in Seq(Message)
      /\ HumanInserted(held) \in Driver /\ Discarded(held, Append(queue, m)) \in Driver
  <2>1. Append(queue, m) \in Seq(Message) /\ <<>> \in Seq(Message)
    BY <1>1, <1>3
  <2>2. Append(Append(queue, m), Human) \in Seq(Message)
    BY <1>3, <2>1
  <2> QED BY <1>4, <2>1, <2>2, DriverFacts
<1>7. AgentType' /\ queue' \in Seq(Message) /\ d' \in Driver /\ Sound(goal', commands)
  <2>1. CASE \/ Queued(Append(queue, m), held)
             \/ Queued(Append(Append(queue, m), Human), HumanInserted(held))
             \/ Queued(<<>>, Discarded(held, Append(queue, m)))
    <3>1. goal' = goal
      BY <2>1
    <3> HIDE DEF Queued, held, m
    <3> QED BY <1>1, <1>4, <1>5, <1>6, <2>1, <3>1
  <2>2. CASE /\ d' = GoalChanged(s) /\ goal' = Stopped(goal, "blocked")
             /\ UNCHANGED <<queue, agent, humans>>
    <3>1. AgentType' /\ agent'.at = "none"
      BY <1>1, <2>2, NoTurn DEF AgentType
    <3> QED BY <1>1, <2>2, <3>1, DriverFacts, GoalFacts
  <2> QED BY <2>1, <2>2 DEF Reserve
<1>8. humans' \in 0..MaxHumans
  BY <1>1, BoundsAssumption DEF Reserve, Counters
<1>9. Counters'
  BY <1>1, <1>8 DEF Counters
<1> QED BY <1>1, <1>7, <1>9, PartsNext

\* The loop settles the last round, stops, or reserves the next one.
LEMMA ScheduleStep ==
  ASSUME IInv, NEW s \in Driver, agent.status # "running", Schedule(s),
         UNCHANGED <<driver, commands, jobs>>
  PROVE  IInv'
<1>1. /\ Sound(goal, commands) /\ AgentType /\ queue \in Seq(Message)
      /\ driver \in Drivers /\ Counters /\ commands \in Nat /\ agent.at = "none"
  BY Parts, NoTurn DEF Counters
<1>2. CASE Live(goal) /\ ~AtLimit /\ Reserve(s)
  BY <1>2, ReserveStep
<1>3. CASE /\ \/ d' = [s EXCEPT !.attempt = NoAttempt, !.checkpoint = "yes",
                                !.requested = "yes"] /\ goal' = goal
              \/ d' = s /\ goal' = goal
              \/ Live(goal) /\ d' = GoalChanged(s) /\ goal' = Stopped(goal, "blocked")
           /\ UNCHANGED <<queue, agent, humans>>
  <2>1. [s EXCEPT !.attempt = NoAttempt, !.checkpoint = "yes", !.requested = "yes"]
          \in Driver
    BY DEF Driver
  <2>2. d' \in Driver
    BY <1>3, <2>1, DriverFacts
  <2>3. Sound(goal', commands')
    BY <1>1, <1>3, GoalFacts
  <2>4. AgentType' /\ Counters'
    BY <1>1, <1>3 DEF AgentType, Counters
  <2> QED BY <1>1, <1>3, <2>2, <2>3, <2>4, PartsNext
<1> QED BY <1>2, <1>3 DEF Schedule

\* A step of the driver that leaves goal, queue and agent alone.
LEMMA DriverOnly ==
  ASSUME IInv, d' \in Driver,
         UNCHANGED <<goal, driver, queue, agent, commands, humans, jobs>>
  PROVE  IInv'
<1>1. /\ Sound(goal, commands) /\ AgentType /\ queue \in Seq(Message)
      /\ driver \in Drivers /\ Counters
  BY Parts
<1>2. AgentType' /\ Counters'
  BY <1>1 DEF AgentType, Counters
<1> QED BY <1>1, <1>2, PartsNext

\* One pass of the loop, up to its checkpoint.
LEMMA DriveStep ==
  ASSUME IInv, Drive
  PROVE  IInv'
<1> DEFINE s == [d EXCEPT !.requested = "no", !.loop = "looping"]
<1>1. s \in Driver /\ [s EXCEPT !.checkpoint = "no", !.loop = "flushing"] \in Driver
  BY Parts DEF Driver
<1>2. CASE Ready(s) /\ Schedule(s)
  <2> HIDE DEF s
  <2>1. UNCHANGED <<driver, commands, jobs>> /\ agent.status # "running"
    BY <1>2 DEF Drive, Ready
  <2> QED BY <1>1, <1>2, <2>1, ScheduleStep
<1>3. CASE /\ d' = s \/ d' = [s EXCEPT !.checkpoint = "no", !.loop = "flushing"]
           /\ UNCHANGED <<goal, driver, queue, agent, commands, humans, jobs>>
  BY <1>1, <1>3, DriverOnly
<1>4. \/ Ready(s) /\ Schedule(s)
      \/ /\ d' = s \/ d' = [s EXCEPT !.checkpoint = "no", !.loop = "flushing"]
         /\ UNCHANGED <<goal, driver, queue, agent, commands, humans, jobs>>
  BY DEF Drive
<1> QED BY <1>2, <1>3, <1>4

\* The checkpoint settles.
LEMMA FlushedStep ==
  ASSUME IInv, Flushed
  PROVE  IInv'
<1> DEFINE s == [d EXCEPT !.loop = "looping"]
<1>1. s \in Driver
  BY Parts DEF Driver
<1>2. CASE Ready(s) /\ Schedule(s)
  <2> HIDE DEF s
  <2>1. UNCHANGED <<driver, commands, jobs>> /\ agent.status # "running"
    BY <1>2 DEF Flushed, Ready
  <2> QED BY <1>1, <1>2, <2>1, ScheduleStep
<1>3. CASE d' = s /\ UNCHANGED <<goal, driver, queue, agent, commands, humans, jobs>>
  BY <1>1, <1>3, DriverOnly
<1>4. \/ Ready(s) /\ Schedule(s)
      \/ d' = s /\ UNCHANGED <<goal, driver, queue, agent, commands, humans, jobs>>
  BY DEF Flushed
<1> QED BY <1>2, <1>3, <1>4

\* The checkpoint fails, and the goal is disarmed.
LEMMA FlushFailsStep ==
  ASSUME IInv, FlushFails
  PROVE  IInv'
<1>1. /\ Sound(goal, commands) /\ d \in Driver /\ AgentType /\ queue \in Seq(Message)
      /\ driver \in Drivers /\ Counters /\ commands \in Nat
      /\ UNCHANGED <<driver, queue, agent, commands, humans, jobs>>
      /\ d' = [d EXCEPT !.loop = "looping"] /\ goal' = Disarmed(goal)
  BY Parts DEF FlushFails, Counters
<1>2. d' \in Driver /\ Sound(goal', commands')
  BY <1>1, GoalFacts DEF Driver
<1>3. AgentType' /\ Counters'
  BY <1>1 DEF AgentType, Counters
<1> QED BY <1>1, <1>2, <1>3, PartsNext

\* The run ends.
LEMMA RetireStep ==
  ASSUME IInv, Retire
  PROVE  IInv'
<1>1. d' \in Driver /\ UNCHANGED <<goal, driver, queue, agent, commands, humans, jobs>>
  BY Parts DEF Retire, Driver
<1> QED BY <1>1, DriverOnly

-----------------------------------------------------------------------------
(* Users, plugins and the lifecycle *)

\* A command changes the goal.
LEMMA CommandStep ==
  ASSUME IInv, Command
  PROVE  IInv'
<1>1. /\ Sound(goal, commands) /\ d \in Driver /\ AgentType /\ queue \in Seq(Message)
      /\ driver \in Drivers /\ Counters /\ commands \in Nat
      /\ goal' \in Mutations(goal) /\ d' = GoalChanged(d) /\ commands' = commands + 1
      /\ UNCHANGED <<driver, queue, agent, humans, jobs>>
  BY Parts DEF Command, Counters
<1>2. d' \in Driver /\ Sound(goal', commands')
  BY <1>1, DriverFacts, GoalFacts
<1>3. commands' \in 0..MaxCommands
  BY <1>1, BoundsAssumption DEF Command
<1>4. AgentType' /\ Counters'
  BY <1>1, <1>3 DEF AgentType, Counters
<1> QED BY <1>1, <1>2, <1>4, PartsNext

\* A human prompt is queued.
LEMMA PromptStep ==
  ASSUME IInv, Prompt
  PROVE  IInv'
<1> DEFINE q == Append(queue, Human)
           s == HumanInserted(d)
<1>1. /\ Sound(goal, commands) /\ d \in Driver /\ AgentType /\ queue \in Seq(Message)
      /\ driver \in Drivers /\ Counters
      /\ UNCHANGED <<goal, driver, commands, jobs>> /\ humans' = humans + 1
  BY Parts DEF Prompt
<1>2. humans' \in 0..MaxHumans
  BY <1>1, BoundsAssumption DEF Prompt, Counters
<1>3. q \in Seq(Message) /\ s \in Driver
  <2>1. Human \in Message
    BY DEF Message
  <2>2. q \in Seq(Message)
    BY <1>1, <2>1
  <2> QED BY <1>1, <2>2, DriverFacts
<1>4. CASE Opens(q, s)
  <2> HIDE DEF q, s
  <2>1. AgentType' /\ queue' \in Seq(Message) /\ d' \in Driver
    BY <1>3, <1>4, OpensFacts
  <2>2. Counters'
    BY <1>1, <1>2 DEF Counters
  <2> QED BY <1>1, <2>1, <2>2, PartsNext
<1>5. CASE /\ queue' = q /\ d' = s
           /\ agent' = [agent EXCEPT !.latch =
                IF agent.status = "maintenance" \/ agent.aborted = "yes"
                THEN "yes" ELSE @]
  <2>1. AgentType'
    BY <1>1, <1>5 DEF AgentType, Agent
  <2>2. Counters'
    BY <1>1, <1>2 DEF Counters
  <2> QED BY <1>1, <1>3, <1>5, <2>1, <2>2, PartsNext
<1> QED BY <1>4, <1>5 DEF Prompt

\* What a cancel leaves of the queue and of the agent.
LEMMA CancelledFacts ==
  ASSUME AgentType, queue \in Seq(Message), NEW keep \in BOOLEAN, Cancelled(keep)
  PROVE  AgentType' /\ queue' \in Seq(Message)
<1>1. /\ agent' = [agent EXCEPT
                     !.aborted = IF agent.status = "idle" THEN "no" ELSE "yes",
                     !.latch = IF keep THEN @ ELSE "no"]
      /\ queue' = IF keep THEN queue ELSE <<>>
  BY DEF Cancelled
<1>2. agent' \in Agent /\ agent'.at = agent.at /\ agent'.status = agent.status
  BY <1>1 DEF AgentType, Agent
<1> QED BY <1>1, <1>2 DEF AgentType

\* A user cancels.
LEMMA CancelStep ==
  ASSUME IInv, Cancel
  PROVE  IInv'
<1>1. /\ Sound(goal, commands) /\ d \in Driver /\ AgentType /\ queue \in Seq(Message)
      /\ driver \in Drivers /\ Counters
      /\ UNCHANGED <<goal, driver, commands, humans, jobs>>
  BY Parts DEF Cancel
<1>2. PICK keep \in BOOLEAN :
        Cancelled(keep) /\ d' = IF keep THEN d ELSE Discarded(d, queue)
  BY DEF Cancel
<1>3. AgentType' /\ queue' \in Seq(Message)
  BY <1>1, <1>2, CancelledFacts
<1>4. d' \in Driver
  BY <1>1, <1>2, DriverFacts
<1>5. Counters'
  BY <1>1 DEF Counters
<1> QED BY <1>1, <1>3, <1>4, <1>5, PartsNext

\* Maintenance takes the idle agent and gives it back.
LEMMA MaintenanceStep ==
  ASSUME IInv, BeginMaintenance \/ EndMaintenance
  PROVE  IInv'
<1>1. /\ Sound(goal, commands) /\ d \in Driver /\ AgentType /\ queue \in Seq(Message)
      /\ driver \in Drivers /\ Counters /\ agent.status # "running" /\ agent.at = "none"
      /\ UNCHANGED <<goal, driver, d, queue, commands, humans>>
  BY Parts, NoTurn DEF BeginMaintenance, EndMaintenance
<1>2. AgentType'
  <2>1. CASE agent' = [agent EXCEPT !.status = "maintenance"]
    BY <1>1, <2>1 DEF AgentType, Agent
  <2>2. CASE agent' = [IdleAgent EXCEPT
                         !.latch = IF queue = <<>> THEN "no" ELSE agent.latch]
    BY <1>1, <2>2 DEF AgentType, Agent, IdleAgent
  <2> QED BY <2>1, <2>2 DEF BeginMaintenance, EndMaintenance
<1>3. jobs' \in 0..MaxJobs
  BY <1>1, BoundsAssumption DEF BeginMaintenance, EndMaintenance, Counters
<1>4. Counters'
  BY <1>1, <1>3 DEF Counters
<1> QED BY <1>1, <1>2, <1>4, PartsNext

\* Teardown begins.
LEMMA UnloadStep ==
  ASSUME IInv, Unload
  PROVE  IInv'
<1> DEFINE stale == [d EXCEPT !.attempt.stale = "yes"]
<1>1. /\ Sound(goal, commands) /\ d \in Driver /\ AgentType /\ queue \in Seq(Message)
      /\ driver \in Drivers /\ Counters /\ commands \in Nat
      /\ UNCHANGED <<commands, humans, jobs>> /\ goal' = Disarmed(goal)
  BY Parts DEF Unload, Counters
<1>2. Sound(goal', commands') /\ driver' \in Drivers
  BY <1>1, GoalFacts DEF Unload, Drivers
<1>3. d.attempt # NoAttempt => stale \in Driver
  BY <1>1, DriverFacts
<1>4. d.attempt # NoAttempt => Discarded(stale, queue) \in Driver
  <2> HIDE DEF stale
  <2> QED BY <1>3, DriverFacts
<1>5. d' \in Driver
  BY <1>1, <1>3, <1>4 DEF Unload
<1>6. AgentType' /\ queue' \in Seq(Message)
  <2>1. CASE Cancelled(FALSE)
    BY <1>1, <2>1, CancelledFacts
  <2>2. CASE UNCHANGED <<agent, queue>>
    BY <1>1, <2>2 DEF AgentType
  <2> QED BY <2>1, <2>2 DEF Unload
<1>7. Counters'
  BY <1>1 DEF Counters
<1> QED BY <1>1, <1>2, <1>5, <1>6, <1>7, PartsNext

\* Teardown ends.
LEMMA UnloadedStep ==
  ASSUME IInv, Unloaded
  PROVE  IInv'
<1>1. /\ Sound(goal, commands) /\ AgentType /\ queue \in Seq(Message) /\ Counters
      /\ UNCHANGED <<goal, queue, agent, commands, humans, jobs>>
      /\ driver' = "gone" /\ d' = FreshDriver
  BY Parts DEF Unloaded
<1>2. d' \in Driver /\ driver' \in Drivers
  BY <1>1 DEF FreshDriver, Driver, Drivers
<1>3. AgentType' /\ Counters'
  BY <1>1 DEF AgentType, Counters
<1> QED BY <1>1, <1>2, <1>3, PartsNext

-----------------------------------------------------------------------------
(* The theorems *)

\* The initial states satisfy the invariant.
LEMMA InitHolds == Init => IInv
<1> SUFFICES ASSUME Init PROVE IInv
  OBVIOUS
<1>1. Sound(goal, commands)
  BY BoundsAssumption DEF Init, Sound, GoalShape, Live
<1>2. d \in Driver /\ AgentType /\ queue \in Seq(Message) /\ driver \in Drivers
  BY DEF Init, FreshDriver, Driver, AgentType, IdleAgent, Agent, Drivers
<1>3. Counters
  BY BoundsAssumption DEF Init, Counters
<1> QED BY <1>1, <1>2, <1>3, Parts

\* Every step keeps it.
LEMMA StepHolds == IInv /\ [Next]_vars => IInv'
<1> SUFFICES ASSUME IInv, [Next]_vars PROVE IInv'
  OBVIOUS
<1>1. CASE Turn
  BY <1>1, NotOpenedStep, PreStepStep, DecideStep, EnterStep, StepEndsStep, ReplayStep DEF Turn
<1>2. CASE Run
  BY <1>2, DriveStep, FlushedStep, FlushFailsStep, RetireStep DEF Run
<1>3. CASE Command \/ Prompt \/ Cancel
  BY <1>3, CommandStep, PromptStep, CancelStep
<1>4. CASE BeginMaintenance \/ EndMaintenance
  BY <1>4, MaintenanceStep
<1>5. CASE Unload \/ Unloaded
  BY <1>5, UnloadStep, UnloadedStep
<1>6. CASE UNCHANGED vars
  BY <1>6, Parts, DriverOnly DEF vars
<1> QED BY <1>1, <1>2, <1>3, <1>4, <1>5, <1>6 DEF Next

\* The inductive invariant holds of every reachable state.
THEOREM Invariance == Spec => []IInv
  BY InitHolds, StepHolds, PTL DEF Spec

\* Goal, driver, queue and agent keep their types, the revision included: a
\* command raises it once, and once more the driver that stops the goal.
THEOREM TypeAlways == Spec => []TypeOK
<1>1. IInv => TypeOK
  BY DEF IInv
<1> QED BY <1>1, Invariance, PTL

\* An aborted turn that ends leaves no live goal: the round it was in is dropped
\* with the goal, and a turn about something else disarms it.
LEMMA AbortStops ==
  ASSUME d \in Driver, Listening, Ends("aborted", d, goal)
  PROVE  ~Live(goal')
<1> DEFINE ended == TurnEnded(d, "aborted")
           left == IF EndDisarms(d, "aborted") THEN Disarmed(goal) ELSE goal
<1>1. goal' = IF Dropped(ended, left) THEN Stopped(left, "paused") ELSE left
  BY DEF Ends, Rests
<1>2. ASSUME NEW g PROVE ~Live(Stopped(g, "paused"))
  BY DEF Stopped, Live
<1>3. CASE d.attempt.phase \in {"claimed", "admitted"}
  <2>1. d.attempt \in Attempt
    BY <1>3 DEF Driver, NoAttempt
  <2>2. ended = [d EXCEPT !.attempt = [d.attempt EXCEPT !.cancelled = "yes"]]
    BY <1>3 DEF TurnEnded
  <2>3. ended.attempt = [d.attempt EXCEPT !.cancelled = "yes"]
    BY <2>2 DEF Driver
  <2>4. ended.attempt.cancelled = "yes" /\ ended.attempt # NoAttempt
    BY <2>1, <2>3 DEF Attempt, NoAttempt
  <2> HIDE DEF ended, left
  <2>5. ~Dropped(ended, left) => ~Live(left)
    BY <2>4 DEF Dropped
  <2> QED BY <1>1, <1>2, <2>5
<1>4. CASE d.attempt.phase \notin {"claimed", "admitted"}
  <2>1. EndDisarms(d, "aborted")
    BY <1>4 DEF EndDisarms
  <2>2. left = Disarmed(goal)
    BY <2>1
  <2>3. ~Live(Disarmed(goal))
    BY DEF Disarmed, Live
  <2> HIDE DEF ended, left
  <2> QED BY <1>1, <1>2, <2>2, <2>3
<1> QED BY <1>3, <1>4

\* A round that was still queued when its turn was cancelled is dropped.
LEMMA QueuedStops ==
  ASSUME d \in Driver, Listening, d.attempt.phase = "queued", Rests(d, goal)
  PROVE  ~Live(goal')
<1>1. d.attempt # NoAttempt
  BY DEF NoAttempt
<1>2. Live(goal) => Dropped(d, goal)
  BY <1>1 DEF Dropped
<1> QED BY <1>2 DEF Rests, Stopped, Live

\* Cancellation never restarts a round, whatever the turn was about, unless the
\* turn was cancelled before its start and no queued round had opened it.
THEOREM CancelStops == Spec => CancelStopsRounds
<1>1. ASSUME TypeOK, [Next]_vars, CancelEnds,
             agent.at = "unopened" => d.attempt.phase = "queued"
      PROVE  ~Live(goal')
  <2> USE DEF CancelEnds
  <2>1. agent \in Agent /\ agent.status = "running" /\ d \in Driver /\ agent' # agent
    BY <1>1 DEF TypeOK
  <2>2. CASE Ends("aborted", d, goal)
    BY <1>1, <2>1, <2>2, AbortStops
  <2>3. CASE Turn
    <3>1. PreStep => Ends("aborted", d, goal)
      BY <1>1 DEF PreStep
    <3>2. Decide => Ends("aborted", d, goal)
      BY <1>1 DEF Decide
    <3>3. Enter => Ends("aborted", d, goal)
      BY <1>1 DEF Enter
    <3>4. StepEnds => Ends("aborted", d, goal)
      BY <1>1 DEF StepEnds
    <3>5. ~Replay
      BY <2>1 DEF Replay
    <3>6. CASE NotOpened
      BY <1>1, <2>1, <3>6, QueuedStops DEF NotOpened
    <3> QED BY <2>2, <2>3, <3>1, <3>2, <3>3, <3>4, <3>5, <3>6 DEF Turn
  <2>4. CASE Run
    BY <2>1, <2>4 DEF Run, Drive, Flushed, FlushFails, Retire, Ready
  <2>5. CASE Prompt \/ Cancel \/ Unload
    <3>1. CASE Prompt
      <4>1. agent' = [agent EXCEPT !.latch =
              IF agent.status = "maintenance" \/ agent.aborted = "yes"
              THEN "yes" ELSE @]
        BY <2>1, <3>1 DEF Prompt
      <4> QED BY <1>1, <2>1, <4>1 DEF Agent
    <3>2. ASSUME NEW keep, Cancelled(keep) PROVE agent'.status = "running"
      BY <2>1, <3>2 DEF Cancelled, Agent
    <3> QED BY <1>1, <2>1, <2>5, <3>1, <3>2 DEF Cancel, Unload
  <2>6. CASE Command \/ BeginMaintenance \/ EndMaintenance \/ Unloaded
    BY <2>1, <2>6 DEF Command, BeginMaintenance, EndMaintenance, Unloaded
  <2>7. CASE UNCHANGED vars
    BY <2>1, <2>7 DEF vars
  <2> QED BY <1>1, <2>3, <2>4, <2>5, <2>6, <2>7 DEF Next
<1>2. ASSUME TypeOK, [Next]_vars
      PROVE  [CancelEnds /\ (agent.at = "unopened" => d.attempt.phase = "queued")
                => ~Live(goal')]_vars
  BY <1>1, <1>2
<1> QED BY <1>2, TypeAlways, PTL DEF Spec, CancelStopsRounds
=============================================================================
