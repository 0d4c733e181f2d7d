---------------------------- MODULE SessionTrace ----------------------------
(***************************************************************************)
(* The grammar of a session's event log: the events of a turn, and the     *)
(* relational check that the session's invariant companion makes of every  *)
(* event before it is committed.  Pure operators; number 0 stands for null *)
(* (turns and steps count from 1).                                         *)
(***************************************************************************)
EXTENDS Naturals, Sequences
Seqs == INSTANCE SequencesExt

NotStarted == "TOOL_NOT_STARTED"
OutcomeUnknown == "TOOL_OUTCOME_UNKNOWN"

TurnStart(t) == [type |-> "turn/start", turn |-> t]
TurnEnd(t, reason) == [type |-> "turn/end", turn |-> t, reason |-> reason]
StepStart(t, s) == [type |-> "step/start", turn |-> t, step |-> s]
StepEnd(t, s) == [type |-> "step/end", turn |-> t, step |-> s]
UserMessage(m) == [type |-> "user/message", message |-> m]
RequestHeader == [type |-> "request/header"]
AssistantMessage(t, s, calls) ==
  [type |-> "assistant/message", turn |-> t, step |-> s, calls |-> calls]
ToolCall(t, s, c) == [type |-> "tool/call", turn |-> t, step |-> s, call |-> c]
ToolResult(t, s, c, code) ==
  [type |-> "tool/result", turn |-> t, step |-> s, call |-> c, code |-> code]

-----------------------------------------------------------------------------
(* The companion's bookkeeping; ok turns FALSE at the first rejected event. *)

FreshTrace == [openTurn |-> 0, openStep |-> 0, nextTurn |-> 1, nextStep |-> 1,
               calls |-> {}, ok |-> TRUE]

NamesOpenStep(trace, e) == trace.openTurn = e.turn /\ trace.openStep = e.step

\* validateEvent: whether the event may follow the trace.
Accepts(trace, e) ==
  \/ e.type = "turn/start" /\ trace.openTurn = 0 /\ e.turn = trace.nextTurn
  \/ e.type = "turn/end" /\ trace.openTurn = e.turn /\ trace.openStep = 0
  \/ /\ e.type = "step/start"
     /\ trace.openTurn = e.turn /\ trace.openStep = 0 /\ e.step = trace.nextStep
  \/ /\ e.type \in {"step/end", "assistant/message", "tool/call"}
     /\ NamesOpenStep(trace, e)
  \/ /\ e.type = "tool/result"
     /\ NamesOpenStep(trace, e)
     /\ e.call \in trace.calls \/ e.code = NotStarted
  \/ e.type = "request/header" /\ trace.openTurn # 0
  \/ e.type = "user/message"

\* applyTransition: what an accepted event changes.
Advance(trace, e) ==
  CASE e.type = "turn/start" ->
         [trace EXCEPT !.openTurn = e.turn, !.nextStep = 1]
    [] e.type = "turn/end" -> [trace EXCEPT !.openTurn = 0, !.nextTurn = @ + 1]
    [] e.type = "step/start" -> [trace EXCEPT !.openStep = e.step]
    [] e.type = "step/end" ->
         [trace EXCEPT !.openStep = 0, !.nextStep = @ + 1, !.calls = {}]
    [] e.type = "tool/call" -> [trace EXCEPT !.calls = @ \cup {e.call}]
    [] e.type = "tool/result" -> [trace EXCEPT !.calls = @ \ {e.call}]
    [] OTHER -> trace

Record(trace, e) ==
  IF Accepts(trace, e) THEN Advance(trace, e) ELSE [trace EXCEPT !.ok = FALSE]

RecordAll(trace, events) == Seqs!FoldLeft(Record, trace, events)

Trace(log) == RecordAll(FreshTrace, log)

\* The log is well formed and leaves nothing open.
Balanced(log) ==
  LET trace == Trace(log)
  IN  trace.ok /\ trace.openTurn = 0 /\ trace.openStep = 0
=============================================================================
