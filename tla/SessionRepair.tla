---------------------------- MODULE SessionRepair ---------------------------
(***************************************************************************)
(* Crash recovery of a session log.  A driver appends the events of turns, *)
(* steps and tool calls; a crash keeps a prefix of them, and the next      *)
(* process appends the synthetic closers of interruptedTurnClosers before  *)
(* the driver resumes.  A second crash may strike before those are stored. *)
(***************************************************************************)
EXTENDS SessionTrace, FiniteSets

CONSTANTS Call,        \* tool-call ids
          MaxTurns,    \* bound: turns in one log
          MaxSteps,    \* bound: steps of one turn
          MaxEvents,   \* bound: length of the log the driver writes
          MaxCrashes   \* bound: crashes of one behaviour

ASSUME RepairBounds == {MaxTurns, MaxSteps, MaxEvents, MaxCrashes} \subseteq Nat

VARIABLES
  events,   \* the session's events
  turn,     \* the driver's open turn, or 0
  step,     \* the driver's open step, or 0
  lastTurn, \* the driver's last turn number
  lastStep, \* the last step of the open turn
  calls,    \* tool calls of the open step not yet started, in model order
  underway, \* started calls without a recorded result
  answered, \* whether the model has answered in the open step
  crashes   \* bound

driverVars == <<turn, step, lastTurn, lastStep, calls, underway, answered>>
repairVars == <<events, driverVars, crashes>>

-----------------------------------------------------------------------------
(* interruptedTurnClosers *)

NothingOpen == [turn |-> 0, step |-> 0, pending |-> <<>>]

Registered(pending, c) == \E i \in DOMAIN pending : pending[i].call = c

\* Setting a key of a JavaScript Map that is present keeps its place.
SetEntry(pending, entry) ==
  IF Registered(pending, entry.call)
  THEN [i \in DOMAIN pending |->
          IF pending[i].call = entry.call THEN entry ELSE pending[i]]
  ELSE Append(pending, entry)

\* The call blocks of an assistant message, in its order.
Register(pending, e) ==
  Seqs!FoldLeft(SetEntry, pending,
    [i \in DOMAIN e.calls |->
       [call |-> e.calls[i], step |-> e.step, started |-> FALSE]])

MarkStarted(pending, c) ==
  [i \in DOMAIN pending |->
     IF pending[i].call = c THEN [pending[i] EXCEPT !.started = TRUE]
                            ELSE pending[i]]

\* Mutant: an answered call stays pending.
AnswerIgnored(pending, c) == pending

DropEntry(pending, c) ==
  IF Registered(pending, c)
  THEN Seqs!RemoveAt(pending, CHOOSE i \in DOMAIN pending : pending[i].call = c)
  ELSE pending

\* One event of the fold over the loaded log.
Scan(tail, e) ==
  CASE e.type = "turn/start" -> [NothingOpen EXCEPT !.turn = e.turn]
    [] e.type = "turn/end" -> NothingOpen
    [] e.type = "step/start" -> [tail EXCEPT !.step = e.step]
    [] e.type = "step/end" -> [tail EXCEPT !.step = 0, !.pending = <<>>]
    [] e.type = "assistant/message" ->
         [tail EXCEPT !.pending = Register(@, e)]
    [] e.type = "tool/call" -> [tail EXCEPT !.pending = MarkStarted(@, e.call)]
    [] e.type = "tool/result" -> [tail EXCEPT !.pending = DropEntry(@, e.call)]
    [] OTHER -> tail

\* What a log leaves open.
OpenTail(log) == Seqs!FoldLeft(Scan, NothingOpen, log)

SyntheticResult(t, p) ==
  ToolResult(t, p.step, p.call, IF p.started THEN OutcomeUnknown ELSE NotStarted)

\* Mutant: the turn is closed under its step.
TurnBeforeStep(tail) ==
  <<TurnEnd(tail.turn, "interrupted"), StepEnd(tail.turn, tail.step)>>

BoundaryClosers(tail) ==
  (IF tail.step = 0 THEN <<>> ELSE <<StepEnd(tail.turn, tail.step)>>)
    \o <<TurnEnd(tail.turn, "interrupted")>>

Closers(log) ==
  LET tail == OpenTail(log)
  IN  IF tail.turn = 0 THEN <<>>
      ELSE [i \in DOMAIN tail.pending |->
              SyntheticResult(tail.turn, tail.pending[i])]
           \o BoundaryClosers(tail)

Repaired(log) == log \o Closers(log)

\* The turnBoundary projection a resumed driver numbers its turns from.
TurnOf(n, e) == IF e.type = "turn/start" THEN e.turn ELSE n
LastTurn(log) == Seqs!FoldLeft(TurnOf, 0, log)

-----------------------------------------------------------------------------
(* The driver that writes the log *)

RepairInit ==
  /\ events = <<>>
  /\ turn = 0 /\ step = 0 /\ lastTurn = 0 /\ lastStep = 0
  /\ calls = <<>> /\ underway = {} /\ answered = FALSE
  /\ crashes = 0

Logs(e) ==
  /\ Len(events) < MaxEvents
  /\ events' = Append(events, e)
  /\ UNCHANGED crashes

StartTurn ==
  /\ turn = 0 /\ lastTurn < MaxTurns
  /\ turn' = lastTurn + 1 /\ lastTurn' = turn' /\ lastStep' = 0
  /\ Logs(TurnStart(turn'))
  /\ UNCHANGED <<step, calls, underway, answered>>

StartStep ==
  /\ turn # 0 /\ step = 0 /\ lastStep < MaxSteps
  /\ step' = lastStep + 1 /\ lastStep' = step' /\ answered' = FALSE
  /\ Logs(StepStart(turn, step'))
  /\ UNCHANGED <<turn, lastTurn, calls, underway>>

\* The model's answer, with the tool calls it asks for in model order.
Answer ==
  /\ step # 0 /\ ~answered
  /\ answered' = TRUE
  /\ \E asked \in UNION {[1..n -> Call] : n \in 0..Cardinality(Call)} :
       /\ \A i, j \in DOMAIN asked : i # j => asked[i] # asked[j]
       /\ calls' = asked
       /\ Logs(AssistantMessage(turn, step, asked))
  /\ UNCHANGED <<turn, step, lastTurn, lastStep, underway>>

BeginCall ==
  /\ calls # <<>>
  /\ calls' = Tail(calls)
  /\ underway' = underway \cup {Head(calls)}
  /\ Logs(ToolCall(turn, step, Head(calls)))
  /\ UNCHANGED <<turn, step, lastTurn, lastStep, answered>>

FinishCall(c) ==
  /\ c \in underway
  /\ underway' = underway \ {c}
  /\ Logs(ToolResult(turn, step, c, "none"))
  /\ UNCHANGED <<turn, step, lastTurn, lastStep, calls, answered>>

\* A step ends with calls left over when the tool scheduler fails.
EndStep ==
  /\ step # 0
  /\ step' = 0 /\ calls' = <<>> /\ underway' = {}
  /\ Logs(StepEnd(turn, step))
  /\ UNCHANGED <<turn, lastTurn, lastStep, answered>>

EndTurn ==
  /\ turn # 0 /\ step = 0
  /\ turn' = 0
  /\ Logs(TurnEnd(turn, "completed"))
  /\ UNCHANGED <<step, lastTurn, lastStep, calls, underway, answered>>

\* The process dies.  Storage holds some prefix of the log: the write-behind
\* commits in order (WriteBehind), and how far it got does not matter here.  The
\* next process loads that prefix, repairs it and resumes; a further crash may
\* come before the closers are stored.
CrashAndResume ==
  /\ crashes < MaxCrashes
  /\ crashes' = crashes + 1
  /\ \E n \in 0..Len(events) : events' = Repaired(SubSeq(events, 1, n))
  /\ lastTurn' = LastTurn(events')
  /\ turn' = 0 /\ step' = 0 /\ calls' = <<>> /\ underway' = {}
  /\ UNCHANGED <<lastStep, answered>>

RepairNext ==
  \/ StartTurn \/ StartStep \/ Answer \/ BeginCall \/ EndStep \/ EndTurn
  \/ \E c \in Call : FinishCall(c)
  \/ CrashAndResume

RepairSpec == RepairInit /\ [][RepairNext]_repairVars

-----------------------------------------------------------------------------
(* Properties *)

\* Events as the driver and the repair write them.
Turns == 1..MaxTurns
Steps == 1..MaxSteps
Event ==
  [type : {"turn/start"}, turn : Turns]
    \cup [type : {"turn/end"}, turn : Turns,
          reason : {"completed", "interrupted"}]
    \cup [type : {"step/start", "step/end"}, turn : Turns, step : Steps]
    \cup [type : {"assistant/message"}, turn : Turns, step : Steps,
          calls : Seq(Call)]
    \cup [type : {"tool/call"}, turn : Turns, step : Steps, call : Call]
    \cup [type : {"tool/result"}, turn : Turns, step : Steps, call : Call,
          code : {"none", NotStarted, OutcomeUnknown}]

\* Every variable keeps its type; the log holds well-formed events only.
RepairTypeOK ==
  /\ events \in Seq(Event)
  /\ turn \in 0..MaxTurns /\ lastTurn \in 0..MaxTurns
  /\ step \in 0..MaxSteps /\ lastStep \in 0..MaxSteps
  /\ calls \in Seq(Call) /\ underway \subseteq Call
  /\ answered \in BOOLEAN /\ crashes \in 0..MaxCrashes

\* interruptedTurnClosers: whatever prefix a crash leaves, also after earlier
\* crashes and repairs of the same log, the repaired log passes the companion's
\* check of every event and leaves nothing open, and the next turn a driver
\* opens on it (numbered by the turnBoundary projection) is the one the grammar
\* expects.  All of its events are well formed, the synthetic ones included.
RepairCompletes ==
  /\ RepairTypeOK
  /\ Balanced(Repaired(events))
  /\ LastTurn(Repaired(events)) + 1 = Trace(Repaired(events)).nextTurn

ResultsIn(log, first, c) ==
  {j \in first..Len(log) : log[j].type = "tool/result" /\ log[j].call = c}

EveryCallAnswered ==
  \A i \in DOMAIN events :
    /\ events[i].type = "assistant/message"
    /\ \A j \in i..Len(events) : events[j].type # "step/end"
    => \A k \in DOMAIN events[i].calls :
         Cardinality(ResultsIn(Repaired(events), i, events[i].calls[k])) = 1

CodesAreHonest ==
  \A i \in DOMAIN Closers(events) :
    LET e == Closers(events)[i]
    IN  e.type = "tool/result" =>
          (e.code = OutcomeUnknown <=>
             \E j \in DOMAIN events :
               /\ events[j].type = "tool/call" /\ events[j].call = e.call
               /\ events[j].turn = e.turn /\ events[j].step = e.step)

\* In the step a crash interrupts each call block of the assistant message has
\* exactly one result after the repair, recorded or synthetic, none before its
\* message; and the synthetic codes tell the model the truth: "not started,
\* retry it" only for a call the open step never recorded as started, "outcome
\* unknown" only for one it did.
CallsAreAnswered == EveryCallAnswered /\ CodesAreHonest
=============================================================================
