----------------------------- MODULE AgentLoop ------------------------------
(***************************************************************************)
(* One ReactLoopAgent: its durable inbox, its phase, and the driver that   *)
(* takes queued messages through turns and steps.                          *)
(*                                                                         *)
(* A step of the model is the synchronous code between two points where    *)
(* other code may run.  There are two kinds of such points.  At an await,  *)
(* and where the agent publishes its status, any caller may send, cancel,  *)
(* remove or dispose (Open).  Inside Session.append only the observers of  *)
(* the event run, and whatever they do that appends again is refused       *)
(* (Reentrant): they can abort, but not change a non-empty inbox.          *)
(***************************************************************************)
EXTENDS SessionTrace, FiniteSets

CONSTANTS Message,    \* messages callers and plugins may send, each once
          MaxSteps    \* bound: steps of one turn that end in tool calls

ASSUME StepBound == MaxSteps \in Nat

VARIABLES
  nextTurn, nextStep,  \* Inbox.state
  phase,     \* "idle", "maintenance" or "running"
  turn,      \* the running turn's number, or lastTurn
  step,      \* phase.step
  cause,     \* abort reason of the phase's controller, or "none"
  latch,     \* phase.wakeRequested: "none" or "set"
  pc,        \* where the driver stands, or "none"
  target,    \* which lists the next claim takes
  batch,     \* messages claimed for the proposed step
  decision,  \* preStep's answer: "none", "reject", "empty" or "some"
  result,    \* step()'s answer: "null", "completed", "max-tokens", "throw"
  turnEnds,  \* the turn's end reason so far, or "none"
  trace      \* the session's log, as the invariant companion folds it

VARIABLES    \* history: no action depends on it, but each message is sent once
  said,      \* messages logged as user/message, in order
  gone,      \* messages discarded, or claimed by a step that never began
  sent,      \* every message sent, in order, with its resolved target
  latched,   \* messages whose wake the current activity latched
  prompts,   \* next-turn messages entered in the current turn
  exit,      \* why the last driver stopped
  disposal   \* "none", "converging" while disposal is in whenIdle(), "quiet"

inboxVars == <<nextTurn, nextStep>>
phaseVars == <<phase, cause, latch>>
turnVars == <<turn, step, target, batch, decision, result, turnEnds, trace>>
turnHistory == <<said, prompts>>
vars == <<inboxVars, phaseVars, pc, turnVars, turnHistory, gone, sent, latched,
          exit, disposal>>

ToSet(q) == Seqs!ToSet(q)
HasPending == nextTurn # <<>> \/ nextStep # <<>>
Pending == ToSet(nextTurn) \cup ToSet(nextStep)
Sent == {sent[i].message : i \in DOMAIN sent}
Aborted == cause # "none"

Reentrant == pc \in {"opened", "stepped", "stepEnded", "closed"}
Open == ~Reentrant

Init ==
  /\ nextTurn = <<>> /\ nextStep = <<>>
  /\ phase = "idle" /\ cause = "none" /\ latch = "none" /\ pc = "none"
  /\ turn = 0 /\ step = 0 /\ target = "next-turn" /\ batch = <<>>
  /\ decision = "none" /\ result = "null" /\ turnEnds = "none"
  /\ trace = FreshTrace
  /\ said = <<>> /\ gone = {} /\ sent = <<>> /\ latched = {} /\ prompts = 0
  /\ exit = "none" /\ disposal = "none"

-----------------------------------------------------------------------------
(* Waking, sending and cancelling *)

\* A fresh running phase; kick() then enters the turn.
StartDriver ==
  /\ phase' = "running" /\ pc' = "starting" /\ cause' = "none"
  /\ latch' = "none" /\ step' = 0 /\ latched' = {}

\* wakeDriver on a busy agent: whether it latches the wake.
Latches(afterAbort) ==
  cause # "disposed" /\ (phase = "maintenance" \/ afterAbort)

WakeDriver(afterAbort, messages) ==
  \/ /\ phase = "idle"
     /\ StartDriver
  \/ /\ phase # "idle"
     /\ IF Latches(afterAbort)
        THEN latch' = "set" /\ latched' = latched \cup messages
        ELSE UNCHANGED <<latch, latched>>
     /\ UNCHANGED <<phase, pc, cause, step>>

Queue(list, m) == Append(list, m)

\* The refusal of an append inside an append reaches every caller of send.
Send(m, wanted, wakeup) ==
  LET afterAbort == wakeup /\ phase # "idle" /\ Aborted
      to == IF afterAbort THEN "next-turn" ELSE wanted
  IN  /\ Open /\ m \notin Sent
      /\ sent' = Append(sent, [message |-> m, to |-> to, wakeup |-> wakeup])
      /\ nextTurn' = IF to = "next-turn" THEN Queue(nextTurn, m) ELSE nextTurn
      /\ nextStep' = IF to = "next-step" THEN Queue(nextStep, m) ELSE nextStep
      /\ IF wakeup THEN WakeDriver(afterAbort, {m})
                   ELSE UNCHANGED <<phaseVars, pc, step, latched>>
      /\ UNCHANGED <<turn, target, batch, decision, result, turnEnds, trace,
                     turnHistory, gone, exit, disposal>>

Followup(m) == Send(m, "next-turn", TRUE)
Steer(m) == Send(m, "next-step", TRUE)
Inject(m) == Send(m, "next-step", FALSE)

\* Inbox.remove: one pending message is cancelled.
RemoveMessage(m) ==
  /\ Open
  /\ \/ /\ \E i \in DOMAIN nextTurn :
             nextTurn[i] = m /\ nextTurn' = Seqs!RemoveAt(nextTurn, i)
        /\ UNCHANGED nextStep
     \/ /\ \E i \in DOMAIN nextStep :
             nextStep[i] = m /\ nextStep' = Seqs!RemoveAt(nextStep, i)
        /\ UNCHANGED nextTurn
  /\ gone' = gone \cup {m}
  /\ UNCHANGED <<phaseVars, pc, turnVars, turnHistory, sent, latched, exit,
                 disposal>>

ClearLatch(keepInbox) ==
  IF keepInbox \/ phase = "idle" THEN UNCHANGED <<latch, latched>>
  ELSE latch' = "none" /\ latched' = {}

\* The first cause wins; an observer cannot clear a non-empty inbox, and its
\* cancel fails before it aborts.
CancelWith(reason, keepInbox) ==
  /\ Open \/ keepInbox \/ ~HasPending
  /\ IF keepInbox THEN UNCHANGED <<inboxVars, gone>>
     ELSE nextTurn' = <<>> /\ nextStep' = <<>> /\ gone' = gone \cup Pending
  /\ ClearLatch(keepInbox)
  /\ cause' = IF phase # "idle" /\ ~Aborted THEN reason ELSE cause
  /\ UNCHANGED <<phase, pc, turnVars, turnHistory, sent, exit>>

Cancel == \E keep \in BOOLEAN : CancelWith("user", keep) /\ UNCHANGED disposal

\* The lifecycle owner disposes the agent, once: a cancel, then whenIdle().
Dispose ==
  /\ disposal = "none"
  /\ CancelWith("disposed", FALSE)
  /\ disposal' = "converging"

\* whenIdle() returns once the activity it awaited has settled and no newer one
\* has begun in its place: a replay, or a driver started meanwhile, is followed.
WhenIdle ==
  /\ disposal = "converging" /\ phase = "idle" /\ pc = "none"
  /\ disposal' = "quiet"
  /\ UNCHANGED <<inboxVars, phaseVars, pc, turnVars, turnHistory, gone, sent,
                 latched, exit>>

\* runMaintenance from the idle phase; a wake being replayed is latched again.
StartMaintenance ==
  /\ phase = "idle"
  /\ phase' = "maintenance" /\ pc' = "none" /\ cause' = "none"
  /\ latch' = IF pc = "replay" /\ HasPending THEN "set" ELSE "none"
  /\ latched' = IF pc = "replay" /\ HasPending THEN latched ELSE {}
  /\ UNCHANGED <<inboxVars, turnVars, turnHistory, gone, sent, exit, disposal>>

\* Mutant: whatever is still queued is replayed, latched or not.
RetireReplaying(why) ==
  /\ phase' = "idle" /\ cause' = "none" /\ latch' = "none" /\ exit' = why
  /\ pc' = IF HasPending THEN "replay" ELSE "none"

\* The activity retires: idle is published first, a latched wake replays next.
Retire(why) ==
  /\ phase' = "idle" /\ cause' = "none" /\ latch' = "none" /\ exit' = why
  /\ pc' = IF latch = "set" THEN "replay" ELSE "none"

EndMaintenance ==
  /\ phase = "maintenance"
  /\ Retire(IF cause = "disposed" THEN "aborted" ELSE exit)
  /\ UNCHANGED <<inboxVars, turnVars, turnHistory, gone, sent, latched, disposal>>

\* Mutant: the replay is forgotten.
ReplaySkipped == pc' = "none" /\ UNCHANGED <<phase, cause, latch, latched, step>>

ReplayWake ==
  IF HasPending THEN StartDriver
  ELSE pc' = "none" /\ UNCHANGED <<phase, cause, latch, latched, step>>

Replay ==
  /\ pc = "replay"
  /\ ReplayWake
  /\ UNCHANGED <<inboxVars, turn, target, batch, decision, result, turnEnds,
                 trace, turnHistory, gone, sent, exit, disposal>>

-----------------------------------------------------------------------------
(* The driver *)

\* turn(): nothing is opened once the signal is aborted.
EnterTurn ==
  /\ pc = "starting"
  /\ \/ /\ Aborted
        /\ pc' = "exiting" /\ exit' = "aborted"
        /\ UNCHANGED <<turn, target, turnEnds, trace, turnHistory>>
     \/ /\ ~Aborted
        /\ turn' = turn + 1
        /\ trace' = Record(trace, TurnStart(turn + 1))
        /\ target' = "next-turn" /\ turnEnds' = "none" /\ pc' = "opened"
        /\ prompts' = 0
        /\ UNCHANGED <<said, exit>>
  /\ UNCHANGED <<inboxVars, phaseVars, step, batch, decision, result, gone,
                 sent, latched, disposal>>

\* Mutant: a claim takes the newest queued prompt.
PromptsNewest(to) ==
  IF to = "next-turn" /\ nextTurn # <<>> THEN <<nextTurn[Len(nextTurn)]>> ELSE <<>>

\* The queued prompt a turn boundary consumes, if any.
Prompts(to) ==
  IF to = "next-turn" /\ nextTurn # <<>> THEN <<Head(nextTurn)>> ELSE <<>>

\* preStep begins: the whole next-step list, then at a turn boundary one prompt.
Claim(to) ==
  /\ batch' = nextStep \o Prompts(to)
  /\ nextStep' = <<>>
  /\ nextTurn' = IF Prompts(to) = <<>> THEN nextTurn ELSE Tail(nextTurn)
  /\ pc' = "preStep" /\ target' = to
  /\ UNCHANGED <<turn, turnEnds, trace, gone>>

\* The finally of turn(): turn/end is logged whatever happened.
Close(reason) ==
  /\ trace' = Record(trace, TurnEnd(turn, reason))
  /\ turnEnds' = reason
  /\ gone' = gone \cup ToSet(batch) /\ batch' = <<>>
  /\ pc' = "closed"
  /\ UNCHANGED <<inboxVars, turn, target>>

\* A failure is published (agent/error) before the turn closes.
Failing ==
  /\ pc' = "failing"
  /\ UNCHANGED <<inboxVars, turn, target, batch, turnEnds, trace, gone>>

closing == <<step, decision, result, said, prompts>>

Opened ==
  /\ pc = "opened"
  /\ IF Aborted THEN Close("aborted") ELSE Claim("next-turn")
  /\ UNCHANGED <<phaseVars, closing, sent, latched, exit, disposal>>

\* Assembly and the agent/pre-step waterfall: listeners may reject, throw, or
\* replace the messages; a changed runtime context adds a message of its own,
\* here at most in a turn's first step.
PreStep ==
  /\ pc = "preStep"
  /\ \/ Aborted /\ Close("aborted") /\ UNCHANGED decision
     \/ ~Aborted /\ Failing /\ UNCHANGED decision
     \/ /\ ~Aborted
        /\ pc' = "decided"
        /\ \/ decision' = "reject" /\ UNCHANGED <<batch, gone>>
           \/ \E kept \in {batch, <<>>}, context \in BOOLEAN :
                /\ context => step = 0
                /\ batch' = kept
                /\ gone' = gone \cup (ToSet(batch) \ ToSet(kept))
                /\ decision' = IF kept # <<>> \/ context THEN "some" ELSE "empty"
        /\ UNCHANGED <<inboxVars, turn, target, turnEnds, trace>>
  /\ UNCHANGED <<phaseVars, step, result, said, prompts, sent, latched,
                 exit, disposal>>

\* What the turn makes of the decision, ending in step/start.
Decided ==
  /\ pc = "decided"
  /\ \/ /\ decision = "reject"
        /\ Close("blocked") /\ UNCHANGED step
     \/ /\ decision = "empty" /\ turnEnds # "none"
        /\ Close(turnEnds) /\ UNCHANGED step
     \/ /\ decision = "empty" /\ turnEnds = "none" /\ step = 0
        /\ Close("completed") /\ UNCHANGED step
     \/ /\ decision = "some" \/ (decision = "empty" /\ turnEnds = "none" /\ step # 0)
        /\ \/ Aborted /\ Close("aborted") /\ UNCHANGED step
           \/ /\ ~Aborted
              /\ step' = step + 1
              /\ trace' = Record(trace, StepStart(turn, step + 1))
              /\ pc' = "stepped"
              /\ UNCHANGED <<inboxVars, turn, target, batch, turnEnds, gone>>
  /\ UNCHANGED <<phaseVars, decision, result, said, prompts, sent,
                 latched, exit, disposal>>

ToPrompt(m) == \E i \in DOMAIN sent : sent[i].message = m /\ sent[i].to = "next-turn"

\* The admitted messages are logged even under an abort; then step() starts.  A
\* user message advances nothing: all are checked against the same trace.
Stepped ==
  /\ pc = "stepped"
  /\ said' = said \o batch
  /\ prompts' = prompts + Cardinality({i \in DOMAIN batch : ToPrompt(batch[i])})
  /\ batch' = <<>>
  /\ trace' = [trace EXCEPT !.ok = @ /\ \A m \in ToSet(batch) :
                                             Accepts(trace, UserMessage(m))]
  /\ IF Aborted THEN pc' = "stepDone" /\ result' = "throw"
                ELSE pc' = "model" /\ UNCHANGED result
  /\ UNCHANGED <<inboxVars, phaseVars, turn, step, target, decision, turnEnds,
                 gone, sent, latched, exit, disposal>>

\* The request and its stream.  A retry of a failed request starts over here.
Model ==
  /\ pc = "model"
  /\ \/ /\ Aborted
        /\ pc' = "stepDone" /\ result' = "throw"
        /\ trace' \in {trace, Record(trace, AssistantMessage(turn, step, <<>>))}
     \/ /\ ~Aborted
        /\ pc' = "stepDone" /\ result' = "throw"
        /\ UNCHANGED trace
     \/ /\ ~Aborted
        /\ trace' = Record(trace, AssistantMessage(turn, step, <<>>))
        /\ \/ pc' = "stepDone" /\ result' \in {"completed", "max-tokens"}
           \/ pc' = "tools" /\ UNCHANGED result
  /\ UNCHANGED <<inboxVars, phaseVars, turn, step, target, batch, decision,
                 turnEnds, turnHistory, gone, sent, latched, exit, disposal>>

\* executeToolCalls, of which this keeps one call and at most one context
\* message for the next step; an abort pairs its calls and returns normally.
Tools ==
  /\ pc = "tools"
  /\ pc' = "stepDone"
  /\ \E outcome \in {"null", "completed", "throw"} :
       /\ outcome = "null" => Aborted \/ step < MaxSteps
       /\ result' = outcome
       /\ trace' = LET called == Record(trace, ToolCall(turn, step, "call"))
                   IN  IF outcome = "throw" THEN called
                       ELSE Record(called, ToolResult(turn, step, "call", "none"))
  /\ \/ UNCHANGED <<nextStep, sent>>
     \/ \E m \in Message \ Sent :
          /\ nextStep' = Append(nextStep, m)
          /\ sent' = Append(sent, [message |-> m, to |-> "next-step",
                                   wakeup |-> FALSE])
  /\ UNCHANGED <<nextTurn, phaseVars, turn, step, target, batch, decision,
                 turnEnds, turnHistory, gone, latched, exit, disposal>>

\* max-tokens is sticky.
TurnEndAfter(stepEnd) == IF turnEnds = "max-tokens" THEN turnEnds ELSE stepEnd

\* Mutant: the step's end is logged only when step() returned.
StepEndUnlessThrown ==
  IF result = "throw" THEN trace ELSE Record(trace, StepEnd(turn, step))

StepEndLogged == Record(trace, StepEnd(turn, step))

StepDone ==
  /\ pc = "stepDone"
  /\ trace' = StepEndLogged
  /\ pc' = "stepEnded"
  /\ turnEnds' = CASE result = "throw" -> turnEnds
                   [] result = "null" -> TurnEndAfter("none")
                   [] OTHER -> TurnEndAfter(result)
  /\ UNCHANGED <<inboxVars, phaseVars, turn, step, target, batch, decision,
                 result, said, prompts, gone, sent, latched, exit,
                 disposal>>

StepEnded ==
  /\ pc = "stepEnded"
  /\ \/ Aborted /\ Close("aborted")
     \/ ~Aborted /\ result = "throw" /\ Failing
     \/ /\ ~Aborted /\ result # "throw"
        /\ IF turnEnds # "none" /\ nextStep = <<>>
           THEN /\ pc' = "stopping"
                /\ UNCHANGED <<inboxVars, turn, target, batch, turnEnds, trace,
                               gone>>
           ELSE Claim("next-step")
  /\ UNCHANGED <<phaseVars, closing, sent, latched, exit, disposal>>

\* agent/turn-stopping: its listeners may throw, or steer and keep the turn.
Stopping ==
  /\ pc = "stopping"
  /\ \/ Aborted /\ Close("aborted")
     \/ ~Aborted /\ Failing
     \/ ~Aborted /\ nextStep = <<>> /\ Close(turnEnds)
     \/ ~Aborted /\ nextStep # <<>> /\ Claim("next-step")
  /\ UNCHANGED <<phaseVars, closing, sent, latched, exit, disposal>>

CloseFailed ==
  /\ pc = "failing"
  /\ Close("error")
  /\ UNCHANGED <<phaseVars, closing, sent, latched, exit, disposal>>

\* A failed, aborted, blocked or empty turn stops the driver at once.
Stops == turnEnds \in {"aborted", "error", "blocked"} \/ step = 0

\* A turn that went well: the driver stops only when the inbox is empty.
Closed ==
  /\ pc = "closed"
  /\ \/ /\ Stops \/ ~HasPending
        /\ pc' = "exiting"
        /\ exit' = IF turnEnds \in {"aborted", "error", "blocked"} THEN turnEnds
                   ELSE IF HasPending THEN "empty" ELSE "drained"
        /\ UNCHANGED <<phaseVars, step, latched>>
     \/ /\ ~Stops /\ HasPending
        /\ StartDriver
        /\ UNCHANGED exit
  /\ UNCHANGED <<inboxVars, turn, target, batch, decision, result, turnEnds,
                 trace, turnHistory, gone, sent, disposal>>

\* Mutant: the exiting driver never gives up its phase.
ExitSilently ==
  /\ pc = "exiting" /\ pc' = "none"
  /\ UNCHANGED <<inboxVars, phaseVars, turnVars, turnHistory, gone, sent,
                 latched, exit, disposal>>

\* The finally of kick(), some microtasks after the turn returned.
Exit ==
  /\ pc = "exiting"
  /\ Retire(IF exit = "drained" /\ HasPending THEN "late" ELSE exit)
  /\ UNCHANGED <<inboxVars, turnVars, turnHistory, gone, sent, latched, disposal>>

Driver ==
  \/ EnterTurn \/ Opened \/ PreStep \/ Decided \/ Stepped \/ Model \/ Tools
  \/ StepDone \/ StepEnded \/ Stopping \/ CloseFailed \/ Closed \/ Exit
  \/ Replay

Callers ==
  \/ \E m \in Message : Followup(m) \/ Steer(m) \/ Inject(m) \/ RemoveMessage(m)
  \/ Cancel \/ Dispose \/ StartMaintenance

Next == Driver \/ EndMaintenance \/ WhenIdle \/ Callers

Spec == Init /\ [][Next]_vars

\* Every await of the driver and every maintenance job settles.
FairSpec ==
  Spec /\ WF_vars(Driver) /\ WF_vars(EndMaintenance) /\ WF_vars(WhenIdle)

-----------------------------------------------------------------------------
(* Properties *)

Target == {"next-turn", "next-step"}
EndReason == {"completed", "max-tokens", "blocked", "aborted", "error"}

\* Every variable keeps its type, and the driver stands somewhere exactly when
\* the phase is running.
TypeOK ==
  /\ nextTurn \in Seq(Message) /\ nextStep \in Seq(Message)
  /\ phase \in {"idle", "maintenance", "running"}
  /\ turn \in Nat /\ step \in Nat
  /\ cause \in {"none", "user", "disposed"} /\ latch \in {"none", "set"}
  /\ pc \in {"none", "replay", "starting", "opened", "preStep", "decided",
             "stepped", "model", "tools", "stepDone", "stepEnded", "stopping",
             "failing", "closed", "exiting"}
  /\ pc \notin {"none", "replay"} <=> phase = "running"
  /\ target \in Target /\ batch \in Seq(Message)
  /\ decision \in {"none", "reject", "empty", "some"}
  /\ result \in {"null", "completed", "max-tokens", "throw"}
  /\ turnEnds \in EndReason \cup {"none"}
  /\ said \in Seq(Message) /\ gone \subseteq Message /\ latched \subseteq Message
  /\ sent \in Seq([message : Message, to : Target, wakeup : BOOLEAN])
  /\ trace \in [openTurn : Nat, openStep : Nat, nextTurn : Nat, nextStep : Nat,
                calls : SUBSET {"call"}, ok : BOOLEAN]
  /\ prompts \in Nat
  /\ exit \in {"none", "aborted", "error", "blocked", "empty", "drained", "late"}
  /\ disposal \in {"none", "converging", "quiet"}

\* Between two turns no step or turn is open, and the next driver (also one built
\* on the turnBoundary projection of the log) opens the turn the log expects.
AtRest ==
  trace.openTurn = 0 /\ trace.openStep = 0 /\ trace.nextTurn = turn + 1

\* Whatever is cancelled, thrown or sent in between, every event the driver logs
\* passes the invariant companion (turns and steps nest, are numbered
\* consecutively, and tool events fall into their open step), and a retired
\* driver leaves the log balanced.
GrammarHolds == trace.ok /\ (phase # "running" => AtRest)

Once(q) == \A i, j \in DOMAIN q : q[i] = q[j] => i = j

OneFate ==
  /\ Once(said) /\ Once(nextTurn) /\ Once(nextStep) /\ Once(batch)
  /\ Sent = Pending \cup ToSet(batch) \cup ToSet(said) \cup gone
  /\ ToSet(nextTurn) \cap ToSet(nextStep) = {}
  /\ Pending \cap (ToSet(batch) \cup ToSet(said) \cup gone) = {}
  /\ ToSet(batch) \cap (ToSet(said) \cup gone) = {}
  /\ ToSet(said) \cap gone = {}

OnePromptPerTurn == prompts <= 1

PromptsInOrder ==
  \A i, j \in DOMAIN sent :
    /\ i < j /\ sent[i].to = "next-turn" /\ sent[j].to = "next-turn"
    /\ sent[j].message \in ToSet(said)
    => sent[i].message \in ToSet(said) \cup gone

\* A message has one fate (still pending, claimed for the step being prepared,
\* logged once as a user message, or withdrawn); each followup is the sole
\* ordinary message of its own turn; and prompts enter the log in the order they
\* were queued, whatever is claimed, removed or cancelled in between.
MessagesAreKept == OneFate /\ OnePromptPerTurn /\ PromptsInOrder

LatchedWakesRun ==
  phase = "idle" /\ pc = "none" => latched \cap Pending = {}

Waking == {s.message : s \in {s \in ToSet(sent) : s.wakeup}}

ParkedForAReason ==
  phase = "idle" /\ pc = "none" /\ Pending \cap Waking # {} =>
    exit \in {"aborted", "error", "blocked", "empty", "late"}

\* wakeDriver: a wake that arrives while a maintenance task or an aborted turn is
\* still converging runs unless its message is withdrawn first, and other waking
\* input stays parked only after a turn that was cancelled, failed, was blocked
\* or spent no step, or when it arrived after the driver's last look at the inbox.
WakesAreKept == LatchedWakesRun /\ ParkedForAReason

ComesToRest == <>[](phase = "idle" /\ pc = "none")
DisposalReturns == disposal = "converging" ~> disposal = "quiet"

\* wakeDriver and whenIdle: as long as nobody starts maintenance for ever, the
\* agent does not only pass through idle between an activity and its replay: it
\* stops there for good once the messages are sent, even if callers go on
\* cancelling, and a disposal that waits in whenIdle() returns, because a cancel,
\* a late wake or a replay can make it follow another activity only finitely often.
Quiesces ==
  <>[][~StartMaintenance]_vars => ComesToRest /\ DisposalReturns
=============================================================================
