# A verification of dshagent's session core and visitor bridge

dshagent runs LLM agents over durable, event-sourced sessions. Its core
(`src/packages`) keeps an append-only log per session, drives agents through
turns and steps, runs tool calls, and writes the log to storage behind the
agent's back. The customer-service application (`src/customer-service`) puts an
HTTP bridge for anonymous visitors in front of that core.

This directory holds TLA+ models of the parts where ordering, failure and
interleaving decide correctness, TLC configurations that check them on small
instances, and TLAPS proofs that the safety properties of nine of them hold on
instances of every size. Each definition is read from the source; `PROJECT.json`
maps it to its lines, lists every run, the mutants that show each property can be
broken, the hazards the properties are aimed at, and the findings.

To repeat a run: `tlc -config <X>.cfg <MC module>`; to repeat the proofs about a
module `M`: `tlapm MProofs.tla` (`SessionLogProofs.tla`
for `ToolScheduler` and `SessionRepair`).

## 1. The system

One Node.js process. Everything below runs on a single event loop: a handler is
atomic between two awaits, and other handlers, timers, I/O completions and
promise reactions run in between. That is the source of nearly all the hard
behaviour; the rest is crashes, failed writes and aborted work.

| part | source | state it keeps | operations |
| --- | --- | --- | --- |
| session log, surface | `packages/core/session` | event list, derived state, surface projection | append (with veto by invariant companions), replace, attach |
| log grammar | `core/session/src/invariant.ts` | open turn, open step, pending calls, numbering | check one event |
| crash repair | `core/session/src/repair.ts` | none (a fold) | compute closers for an interrupted tail |
| write-behind | `session/session-persistence/src/write-behind.ts` | queue, timer, active write, barrier, flags | enqueue, flush, cancel timer, onDeadline |
| persistence coordinator | `session-persistence/src/coordinator.ts`, `preparations.ts` | per-session chains, prepared sessions, live states | load, reserve, attach, release, flush, invalidate |
| JSONL backend | `session/session-persistence-jsonl` | one file per session | materialise, append, roll back, read |
| inbox | `core/agent/src/inbox.ts` | next-turn and next-step lists, derived from the log | followup, steer, inject, claim, remove, clear |
| agent driver | `core/agent-loop/src/agent.ts` | phase, abort controller, wake latch, turn and step numbers | send, cancel, maintenance, kick, turn, step, whenIdle |
| agent factory | `core/agent-loop/src/index.ts` | registry of live agents | create, resume, dispose |
| tool-call scheduler | `core/agent-loop/src/tool-calls.ts` | pool, slots, cursor, failure | run the calls of one message |
| tool pipeline | `core/tools` | registered tools and policies | prepare, dispatch, finalize |
| request retry | `llm/llm-retry` | attempts, back-off | retry a failed step |
| background jobs | `jobs/jobs-local` | jobs, waiters, owners | start, kill, wait, settle, tear down |
| approvals, questions | `interaction` | open requests, audit events | ask, decide, withdraw |
| goals, schedules, subagents | `goal`, `schedule`, `subagent` | goal state, timers, child runs | rounds, ticks, continuation |
| compaction | `compaction` | regions of the surface | choose and replace a region |
| session controller | `api/session-controller` | subscriptions, cursors | subscribe, command |
| visitor bridge | `customer-service/plugins/guest-server` | guest map, in-flight set, history cache, subscriptions | create, chat, stream, history, delete |
| output gate | `customer-service/plugins/output-gate` | blocks of live turns, verdicts | gate, report, evict |

Settings, storage, workspaces, model providers, user interfaces, host tools,
vendored and build code are listed in `PROJECT.json` as not modelled: they are
I/O, data or presentation from the core's point of view.

How the parts meet:

- A caller's `followup`, `steer` or `inject` appends an inbox event and may wake
  the driver. The driver claims inbox messages, opens a turn and steps, calls the
  model, and hands tool calls to the scheduler. Everything each of them does is
  an event appended to the session.
- `Session.append` is synchronous. Invariant companions may veto an event;
  observers run inside the append and may not append themselves.
- The coordinator copies each accepted event into the session's write-behind
  queue. The queue writes batches to the backend after a delay, or at once when
  somebody flushes.
- After a crash the coordinator reads what the backend holds, appends the closers
  that repair computes, and the factory builds a driver that numbers its turns on
  from that log.
- A tool may start a background job; the registry settles it and a listener tells
  the owner with an inbox message. The goal driver listens to goal changes, inbox
  and turn events, and sends its rounds with `followup` like any caller.
- The visitor bridge maps visitor sessions to agents. A chat request is one
  `followup`, `whenIdle`, and a look at the log.

### Hard behaviours, and what makes each part correct

*Write-behind.* A deadline, a flush, an append and the three promise reactions
of a finishing write may come in any order; writes fail. It is correct when no
event is lost, duplicated or reordered, when a resolved flush really means
durable, when one write at a time is in flight, and when nothing is left in the
queue with nobody to write it.

*Repair.* A crash keeps any prefix of the log, also one inside an earlier repair.
It is correct when the repaired log satisfies the grammar and is balanced (so that
it needs no second repair), answers every call of the interrupted step exactly
once, and says "not started" only of what did not start.

*Driver and inbox.* Input, cancellation, maintenance and disposal arrive at
every await and at every status publication; any hook may throw. It is correct
when the log always satisfies the grammar, when every message has exactly one
fate, when a turn has one prompt, when a wake that the driver promised to replay
is replayed, and when the agent comes to rest for good, so that a disposal ends.

*Tool-call scheduler.* Bodies settle in any order; the signal may abort, a
dispatch may reject, a call may change its mode while it queues. It is correct
when results are logged in model order, every started call is drained, every call
is answered unless the scheduler failed, the pool is bounded and an exclusive
call runs alone.

*Visitor bridge.* Requests for one session overlap; agents are resumed, adopted
and disposed across awaits; turns fail. It is correct when markers and
subscriptions never leak, a chat gets its own answer, the cache is never behind,
and the map of sessions agrees with the live agents.

*Preparation pool.* Cold reads are shared, a resume reserves an entry
exclusively, leases pin entries against the LRU, writes invalidate, callers abort
in the queue or while they run, and other processes write the same log. It is
correct when a granted reservation is exact and exclusive, when no read goes back
behind what the process knew when it was called, when pins and capacity agree, and
when every call ends.

*One log file.* The process may die between any two file operations, an operation
may fail, a torn record may be the last, and a repair may be cut short by the next
crash. It is correct when what was acknowledged is what every later reader finds
first, and when a session can always be loaded again.

*Background jobs.* The deadline of a wait, its caller's abort, the settlement, a
kill and two kinds of teardown race. It is correct when a completion is reported
once, or claimed, and never swallowed, when outcomes are final, when teardown announces
nothing and ends.

*Goal rounds.* The driver checks, awaits a checkpoint, queues a prompt, and checks
again twice while the prompt is claimed and decided; goals are edited, prompts
arrive and turns are cancelled in between. It is correct when a round that enters
is the next one of the live goal, when a cancel ends automatic work, and when an
armed goal does not stall.

`PROJECT.json` lists the hazards one by one, each at its line, with the
properties that would catch it; those without a property say why.

## 2. The modules

| module | models | form |
| --- | --- | --- |
| `DurableLog` | what persistence promises of one session | abstract specification |
| `WriteBehind` | the write-behind controller, the coordinator's flush, one backend batch | detailed specification, refines `DurableLog` |
| `WriteBehindProofs` | theorems about `WriteBehind` | TLAPS proofs |
| `SessionTrace` | events and the companion's grammar check | operators |
| `SessionRepair` | `interruptedTurnClosers` over the logs a driver writes and crashes cut | state machine over pure folds, uses `SessionTrace` |
| `AgentLoop` | one agent: inbox, phase, driver | state machine, checked against `SessionTrace` |
| `ToolScheduler` | `executeToolCalls` for one assistant message | state machine, checked against `SessionTrace` |
| `GuestServer` | the bridge's sessions, chats, history and streams | state machine |
| `StoredSession` | what a backend promises of one session's log over crashes | abstract specification |
| `JsonlLog` | the JSONL backend's file and the coordinator's cursor over it | detailed specification, refines `StoredSession` |
| `SessionPreparations` | the preparation pool and the coordinator operations that use it | state machine |
| `JobRegistry` | background jobs, waits and teardown | state machine |
| `GoalRounds` | the goal service, its round driver and the turns of one agent | state machine |
| `SessionLogProofs` | theorems about `ToolScheduler` and `SessionRepair`, and the lemmas about the companion's fold that both rest on | TLAPS proofs |
| `JsonlLogProofs`, `JobRegistryProofs`, `GuestServerProofs`, `AgentLoopProofs`, `GoalRoundsProofs`, `SessionPreparationsProofs` | theorems about the module they are named after | TLAPS proofs |
| `MC*` | small instances | symmetry sets |

Conventions. A variable has the name of the field it models where there is one.
Comments over VARIABLES say which variables are *history*: no guard reads them,
only properties do. A definition whose comment begins with "Mutant" is never used
by the specification; it is the plausible mistake that its neighbour is tested
with. CONSTANTS marked "bound" cap a run and appear only in the guards named
below.

### WriteBehind

State is that of `SessionWriteBehind` (`pending`, `timer`, `active`, `barrier`,
`deadlineExpired`, `automaticPaused`) plus the coordinator's `init` and the
callers of its `flush` that await it, and the backend's content `durable`.
`scheduled` counts the timeouts that the event loop really holds, which is how a
leaked one shows. Flags are strings rather than Booleans, since the SMT backend
reasons about those better.

A step is one job of the event loop. A write that settles passes through the
`catch` handler (`Fail`), the `finally` handler (`Finish`) and then the reaction
of whoever awaits it (`Continue` for a background write, `DrainWritten` for the
barrier's, `DrainOverlapped` for a barrier that waited for someone else's write).
Appends and flushes may come between those; timers and I/O completions may not,
because Node drains its microtasks first (`Quiet`).

A controller starts with what its initialisation is to store, the `seed` (the
events of a new session or the suffix of a prepared one, here one event or none),
or with nothing to store. `InitSettles` stores it or fails for good. When the
notification of that very event made the controller, the event is also queued, and
`Fresh`, the filter of `appendLiveBatch` on the cursor, keeps it from being stored
twice. `durable` counts from the prefix that was stored before; `DurableLog`
therefore starts with nothing durable and any log accepted.

`Commit` and `Fail` are the backend's append as a transaction: all of the batch
or none of it. That is what `appendLines` in the JSONL backend does by truncating
to the old length after a failure; `JsonlLog` looks into it, and at what happens
when the truncation fails too.

### SessionTrace and SessionRepair

`SessionTrace` is `validateEvent` and `applyTransition` of the invariant
companion as one fold with an `ok` flag that turns false at the first event the
companion would reject. It is the common reference: `SessionRepair`, `AgentLoop`
and `ToolScheduler` are each checked to write only logs it accepts.

`SessionRepair` writes a log as a driver may (a tool scheduler failure may end
a step with calls left over), and at any point `CrashAndResume` keeps any prefix,
appends the closers and lets a new driver take its turn number from the
`turnBoundary` projection. Reordering or loss in the middle is excluded, because
`WriteBehind` shows that storage holds a prefix. Its specification, types and some
variables carry names of their own (`RepairSpec`, `RepairTypeOK`, `events`,
`underway`): `SessionLogProofs` extends it beside `ToolScheduler`, so that the
lemmas about `SessionTrace` are proved once.

### AgentLoop

`phase`, `cause` (the abort reason), `latch` (`wakeRequested`) and `step` are
those of `ReactLoopAgent`; `nextTurn` and `nextStep` are the inbox; `pc` says at
which await or publication the driver stands. Two kinds of interruption points
are told apart, because the code treats them differently. At an await any caller
may do anything. Inside `Session.append` only observers run, and an append of
theirs is refused: they can abort, but `clear()` on a non-empty inbox throws
before `abort()` is reached (`CancelWith`'s first conjunct).

The model, the tools and every plugin hook are nondeterministic: a request may
succeed, be cut off by the token limit, ask for tools or throw; pre-step may keep
the messages, drop them, reject the step or throw. A retry of a failed request
changes neither phase nor inbox and is a stutter.

`Dispose` is the lifecycle owner's: it happens once, cancels, and waits in
`whenIdle()`. That follows one activity after another (a latched wake is replayed
right after idle is published, and a message may start a driver of its own), and
`WhenIdle` returns only when the activity it awaited was not replaced. `Quiesces`
says that the agent comes to rest *for good*, not merely that it passes through
idle, and that the disposal returns. Its premise is that maintenance is not started
for ever, which nothing in the code prevents; cancels may go on for ever.

Left out: `Inbox.prepend` and `replace` (used by the goal driver and the UI; of
`splice` the model has the append at the end and the removal), request building,
request headers and chunk streaming.

### ToolScheduler

Indices of calls are absolute where the code's are relative to their group. The
pool of promises is `inFlight`; `running` are those whose body has not settled.
The mode a call would have now is chosen at each look, except for a group's first
call, which the group was classified by. `prepare` may answer at once, be
dispatched, or throw; a dispatched body returns a result, or rejects. Any result may
throw while it is committed: before it is logged, when it is finished or its
post-execute hooks run, or behind that, when its context is accepted.

### GuestServer

Handlers are cut at their awaits. Of the agent underneath only what a request can
tell apart is kept: a queue, the running turn, answers in the log, and whether it
is live, being disposed, or gone. A disposal first cancels and waits for quiet
(`closing`, left by `AgentQuiet`), then unwinds its scope without another look
(`unwinding`, left by `AgentGone`): a followup accepted in that time starts a turn
that nobody waits for, and messages stay in the log for the next agent. The model
starts where a process starts, with some sessions left in storage, some of them with
a message that an earlier process left parked in the inbox (`"earlier"`). At most one
DELETE per session is under way at a time, and a visitor deletes only sessions that
exist. Each chat happens once, so
that the state space is finite, and the system may then stop: `CHECK_DEADLOCK` is
FALSE. A message of a chat that failed, in this process or an earlier one, may stay
parked, and is answered before the message of a later chat: `LoneChats` says that the later chat still gets its own
answer. After a failed turn of its own a chat gets whatever is newest (section 5).

Left out: HTTP parsing, extraction of sources, language notes, text gating, render
reports.

### StoredSession and JsonlLog

`StoredSession` is the promise: `acknowledged` is always a prefix of `stored`; an
unacknowledged tail may come and go. `JsonlLog` is one file: its `rows`, how many
of them are `synced`, and whether its directory entry is; `pc` is the file
operation under way. The refinement mapping takes `stored` to the prefix a reader
decodes (`Good`) and `acknowledged` to what an append or a load last returned.

Records are a kind (an event, or one that ends a turn) and a number. A record cut
short is a `cut`, and bytes behind it join it. `Remains` says what a write that is
cut short leaves: whole lines and then a part of one for plain text, or a torn
frame, of which the reader recovers the first records, for Zstandard. A crash keeps
any such part of the unsynced rows, and may lose a directory entry that was not
synced. `Throws` is the scanner's rule for damage that is an error rather than a
tail. Loads repair: truncate, write the recovered records and the closers again. A
file that cannot be opened or measured leaves nothing to roll back (`OpenFails`),
and a repair's truncation may have taken effect when its sync fails; that a later
crash undoes such a truncation is left out.

### SessionPreparations

`entry`, `recency` and `states` are the fields of `SessionPreparations` and of the
coordinator; `chain` is its per-id promise chain, whose head is running; a client's
`call` stands at the await its code stands at. A stored log is a length and whether
its last turn is open, its length is also its revision. Entries have a tag, which is
the promise their waiters hold, so that a waiter can outlive its entry. An
operation on the chain takes effect when it completes. An append has two steps, as
`assertWritable` and `takeReady` come before its awaits and the contiguity check
after them (`AppendStarts`, `AppendDone`): an id reserved in between does not stop
the write. A published session with a suffix has an initial write, and when that
fails the session is `broken`: no later flush of it succeeds. Batches leave out what
the cursor has passed. A resume aborted in front of its commit gives up the entry.

`known` is history: how much of each log this process has read or written. A call
notes it (`floor`), and `served` turns "stale" when a read answers with less. The
code lends a reader the source that a resume or load retains, though another process
has extended the log ("inspection may borrow its immutable view"), so that nothing
*durable* is missed cannot be claimed; `ReadsNeverGoBack` claims that nothing is
missed that this process knew. No guard of the model says so: it rests on which
entries leave the pool when.

Other processes may write shared ids, while this process neither writes nor holds them: the backend has no
lock for more (the two agree on nothing then).

Left out: `create`, `list`, `readFrom`, adoption of live sessions when the plugin
is reloaded, and refusals of formats. `append` is a caller that continues the log
where it stood when it called.

### JobRegistry

`job` is the registry's record, `producer` the work behind it, `wait` one caller's
`wait`. `told` is history: by which way the completion of a job was reported; the
answer to a wait that was pending at the settlement ("awaited") is told apart from
that to a later read, wait or kill ("answer"), since only the first takes the place
of a notice. A
teardown may find that a `cancel` throws (`thrown`) and forces that record. An
aborted wait leaves the count at once, one that timed out only when it continues:
both as in the code, and the difference decides whether the owner is told.

Left out: `list` and `get`, the session fence, nested scopes (there is one
controller and one listener), change notifications, output streams, the wake
budget of the notices. A completion while `tool-jobs` is unloaded is announced to
nobody, which the model calls "unheard".

### GoalRounds

`goal` is the projection with its activation, `d` the driver's state of one agent,
`agent` and `queue` the turn and the prompts. Everything the driver does between
two awaits is one step; `Window` says whether listeners outside the driver's own
may await between its last check and the step ("awaits"), as they do in the base
bundle, or not ("sync"). A prompt is a round or a human's. A turn is opened by
`Claims`, or is cancelled first (`CancelledFirst`): before its turn/start, which then
has no turn/end either (`NotOpened`), or by an observer of turn/start. Outer
listeners may throw, reject the step, or rewrite it to an empty one.

Left out: the next-step list and `restoreOtherClaimed`, edits of the round cap,
deduplication by message id, a drive begun by a handler inside another drive's
synchronous part, and rendering.

## 3. What the runs check and show

| run | instance | what it shows |
| --- | --- | --- |
| `write_behind` | 4 events, 2 flush callers, fair | types; one write at a time; nothing lost, duplicated or reordered; flush means durable; no orphan timer; every event is stored unless writes fail or initialisation was refused, and flushes end (`Progress`); `DurableLog` is implemented; no deadlock |
| `session_repair` | 2 calls, 2 turns of 2 steps, 12 events, 2 crashes | a repaired log is well formed, balanced and numbered on (`RepairCompletes`); it answers each call of the interrupted step once and tells the truth about it (`CallsAreAnswered`) |
| `agent_loop` | 2 messages, 2 tool steps a turn, fair | the grammar; one fate per message, one prompt per turn, prompts in order (`MessagesAreKept`); the latch, and why input is ever parked (`WakesAreKept`); lasting rest, and a disposal that ends (`Quiesces`); no deadlock |
| `tool_scheduler` | 4 calls, pool of 2, fair | tool events satisfy the companion's check (`EventsAreTied`); starts and results in model order, a result behind its start (`LogIsOrdered`); completeness and drained failures (`EndsClean`); bounds and exclusivity (`PoolIsSound`); the scheduler returns or throws |
| `guest_server` | 2 sessions, 2 chats, 1 history reader, ceiling 1, cache 1 | no leak, no snapshot in flight (`MarkersHold`); marker and reply of a chat alone in its session, behind parked messages too (`LoneChats`); owned agents are live |
| `jsonl_log` | 3 records, 2 crashes, 2 failing operations, both encodings, fair; rollbacks succeed | only the last record can be damaged (`WellFormed`); `StoredSession` is implemented; a stored session can be loaded again (`Recovers`) |
| `session_preparations` | 2 sessions, one written from outside, 3 clients with one call each, pool of 1, logs of 2, 1 failure, fair | reservations are exact and exclusive; reads never go back; pins and capacity agree; every call ends (`Settles`) |
| `job_registry` | 2 jobs of one agent, 2 waits, limit 2, 1 reload, fair | completions are reported once, or claimed; settlements are final and teardown is silent; teardown ends |
| `goal_rounds` | 2 rounds, 2 commands, 2 human prompts, 1 maintenance activity, `Window` = "sync", fair | rounds are exact; cancellation stops them; an armed goal does not stall |

The other three runs each check one statement of the repository that the code does
not keep (section 5).

### Bounds, and why they are enough

- *WriteBehind.* A batch in flight, a failed batch put back before a newer event
  and one more event for the next batch take three events; the fourth lets a
  barrier loop once more. Two callers let one join the barrier the other opened. A
  seed of one event is enough for the filter: only the event that made the
  controller can be in both.
  `MaxEvents` guards `Enqueue`, `MaxCallers` guards `FlushCall`. The proofs cover
  every other value.
- *SessionRepair.* Two calls give one started and one not; two turns and two steps
  let a call id reappear in a later step or turn; two crashes let the second one
  cut the closers of the first. `MaxEvents` = 12 holds a whole turn with two steps
  and the start of another; it guards `Logs`, and the closers come on top.
- *AgentLoop.* Two messages let one be claimed while the other is queued, steered
  or latched. `MaxSteps` bounds only steps that end in tool calls without an abort
  (in `Tools`): two let a third step run after the token limit was hit in an
  earlier one. Turns are bounded by the messages.
- *ToolScheduler.* With N greater than MaxParallel by two the pool refills twice,
  and an exclusive call may stand first, in the middle or last, with parallel ones
  on either side.
- *GuestServer.* Two chats are every pair of overlapping handlers, two sessions
  fill a map and a cache of one, and one reader is enough since readers do not
  affect each other except through the cache. A lone chat has parked messages in front
  of it when an earlier process left one, when the other chat failed or was cut off
  before it came, or both, over a deletion and a resume as well.
- *JsonlLog.* Three records make two batches and a tail; two crashes let the
  second cut the repair of the first; two failures let the rollback's retry fail
  again. `MaxEvents` guards `Emit` and `Closers`, `MaxCrashes` guards `Crash`,
  `MaxFailures` the failing steps. `RollbackFates` is what a rollback may do; the
  passing run assumes that it truncates, the violation run drops that.
- *SessionPreparations.* One ready entry is the smallest pool in which two
  sessions compete; one client prepares `a` or inspects `b`, the second borrows
  `a`, the third appends to `a` or loads it: each pair of operations that the pool
  has to tell apart meets on `a`, and `b` evicts. Logs start with one record and
  grow to two: one repair, local write or write from outside makes a source stale
  while it is queued, read, held or reserved, and what a reader sees is stale or
  not. `MaxCalls` guards `Ask`, `MaxLength` the three kinds of append, `MaxFailures`
  `OperationFails`. The proofs cover logs of any length.
- *JobRegistry.* Two jobs let a teardown find one that throws beside one that
  stops slowly; two waits let one abort while the other stays. `Limit` is the
  code's own, `MaxReloads` guards `Unload`.
- *GoalRounds.* Two rounds reach the cap; two commands edit and resume, or
  complete and create; two prompts let one be queued while another's turn is
  cancelled. A command raises the revision once, and makes the goal live
  at most once, so the driver stops it at most once in between: `MaxRevision`
  (proved in `TypeAlways`). `MaxCommands`, `MaxHumans` and `MaxJobs` guard
  `Command`, `Prompt` (and the prompt an observer queues in `Reserve`) and
  `BeginMaintenance`. `MaxRounds` is the goal's own cap, `maxGoalRounds`.

Symmetry is used only where no liveness is checked, over interchangeable calls, chats
and sessions, none of which an action or property orders or names.

### Fairness, and why the code justifies it

Weak fairness throughout, of what the event loop or a settled promise brings
about, never of callers.

- *WriteBehind.* Queued reactions and due timers run; initialisation and writes
  settle one way or the other. Producers need not act, and nothing is assumed of
  which way a write settles.
- *AgentLoop.* Each await of the driver and each maintenance job settles, and the
  await of `whenIdle()` resumes once its activity has ended. The first is
  an assumption about hooks and providers: one that never settles and ignores its
  signal does hang the agent, and nothing in the driver prevents that.
- *ToolScheduler.* The scheduler's own steps, and each tool body separately.
- *JsonlLog.* File operations that were begun return, and a session left on disk is
  loaded again; which way they end is open up to `MaxFailures`.
- *SessionPreparations.* Chain operations complete, reactions run, a retiring
  session is drained, and a resume publishes or rolls back what it holds. Callers
  and other processes need not act; that the latter stop writing (`MaxLength`) is
  what the code's comment asks for: "continuous external writers may delay
  completion".
- *JobRegistry.* Settlements are processed, deadlines expire, waits continue. A
  producer ends only once it has been asked to stop, which is `cancel`'s contract.
- *GoalRounds.* Turns, checkpoints and maintenance end; `MaxJobs` also says that
  maintenance activities are finitely many, without which one could follow another
  for ever. Strong fairness is needed nowhere.

`SessionRepair` and `GuestServer` are checked for safety only and assume no
fairness. `CHECK_DEADLOCK` is FALSE where bounds exhaust the callers and the
system may rest.

## 4. What is proved

Nine modules have theorems for every value of their constants: any sets of
events, messages, calls, sessions, clients and jobs, any bounds. For each there is
an inductive invariant, `IInv` (`SchedulerInv` and `RepairInv` in
`SessionLogProofs`); the proof module shows `Init => IInv` and `IInv /\ [Next]_vars
=> IInv'` with one lemma or step per action, and takes the properties of the runs
from it; refinements and action properties add an argument over one step. TLC
checked every invariant on a small instance before it was proved. Every safety
property of a passing run is a theorem, `RoundsAreExact` excepted.

| module | theorem | states | beyond the module's own ASSUMEs |
| --- | --- | --- | --- |
| `WriteBehindProofs` | `TypeCorrect` | `TypeOK`, and `active` is the write that runs | |
| | `SingleWriter` | at most one backend write in flight | |
| | `EventsAccounted` | stored, in-flight and queued events, in this order, are the accepted log | |
| | `FlushDurability` | a flush that resolved has made durable what was accepted by then | |
| | `TimerOwnership` | the event loop holds exactly the timeout that `this.timer` names | |
| | `Implementation` | every behaviour is one of `DurableLog` | |
| `JsonlLogProofs` | `WellFormedAlways` | only the last record can be damaged, the others are numbered from zero | `RollbackHolds` |
| | `LogKeepsItsPromise` | every behaviour is one of `StoredSession` | `RollbackHolds` |
| | `AppendsAreDurable` | `AppendIsDurable`: a reader finds what an append returned | `RollbackHolds` |
| `SessionLogProofs` | `TypeAlways` | `ToolScheduler`: `TypeOK` | |
| | `OrderAlways` | starts and results once each, in model order, a result behind its start | |
| | `PoolAlways` | the pool is bounded, an exclusive call runs alone | |
| | `EndsCleanAlways` | at the end every started call has settled, and every call is answered unless the scheduler threw | |
| | `TiedAlways` | the companion accepts every tool event, the synthetic pairs of an abort included | |
| | `RepairAlways` | `SessionRepair`: any prefix of a log, of any driver and after any crashes, is completed to one that the companion accepts, with nothing open and the turns numbered on | |
| | `AnswersAlways` | after the repair each call of the interrupted step has exactly one result, and its code is the truth | |
| `JobRegistryProofs` | `TypeAlways` | `TypeOK`, with the count of waits | |
| | `CompletionAlways` | `CompletionIsHeard`: reported once, or claimed, never swallowed | |
| | `SettlementFinal` | `SettlementIsFinal` (action property) | |
| `GuestServerProofs` | `TypeAlways` | `TypeOK` | |
| | `MarkersAlways` | no leaked marker or subscription, no snapshot in flight | |
| | `LoneChatsAlways` | a chat alone in its session is marked and, once answered, gets its own answer, behind any parked messages | |
| | `OwnedAlways` | an owned entry has a live agent | |
| `AgentLoopProofs` | `TypeAlways` | `TypeOK` | |
| | `GrammarAlways` | the companion never rejects an append, turns and steps are numbered on | |
| | `MessagesAlways` | one fate per message, one prompt per turn, prompts in the order sent | |
| | `WakesAlways` | a latched wake is replayed; why input may stay parked | |
| `GoalRoundsProofs` | `TypeAlways` | `TypeOK`, with the bound of the revision | |
| | `CancelStops` | `CancelStopsRounds` (action property), for every `Window` | |
| `SessionPreparationsProofs` | `TypeAlways` | `TypeOK`, with the eviction order and at most one pin per client | |
| | `ReservationAlways` | one holder for each reserved entry, and what it holds is the stored, closed, unowned log | |
| | `ReadsAlways` | a cold read misses nothing that this process knew when it was asked, from whichever source | |
| | `PoolAlways` | pins count leases, the capacity is exceeded by pinned entries only, no leased entry is evicted | |

### Assumptions

The ASSUMEs of the modules say that bounds are natural numbers (capacities and
limits not zero), that the outcomes of jobs are terminal, that a registry's
callers and a pool's clients and ids are finitely many, and that the names the
models write for "nobody" name no owner, session or chat. One hypothesis says more:
`RollbackHolds`, a rollback that runs does truncate the log (`RollbackFates \subseteq
{"undone"}`). `jsonl_rollback` is the behaviour in which it does not, and shows that
`AppendsAreDurable` fails without it.

### The inductive invariants

*WriteBehind.* `IInv == TimeInv /\ ControlInv /\ LedgerInv`. `TimeInv` (types,
timeout ownership, and `TimerInv`: a timeout is armed only for a non-empty queue,
with no barrier, in automatic mode) shows that a deadline never fires under a
barrier. `ControlInv` ties the promise structure together: there is one write
record at most (`SingleInv`), `active` mirrors an unfinished write (`ActiveInv`), a
barrier that awaits a write of its own has one and vice versa (`BarrierInv`), a
settled write lives on only for a barrier (`AwaitedInv`), and while
`continueAutomatic` is queued there is no write, or only one that a flush has just
begun (`ContinuationInv`). The last is the delicate one: in that window a flush may
start a write before the continuation of the previous one has run, and without it
one cannot exclude that the continuation starts a second. `HistoryInv` says that no
event is accepted twice and that a flush goes past its initialisation, which leaves
no seed: what `Fresh` drops is then exactly what is stored. `LedgerInv` is
`NothingLost` and `FlushIsDurable`; it needs the other two, since a second write
would take the queue out of order and a drain that resolves early would do so
beside a write in flight. `Implementation` adds that a commit extends the stored
log to a longer prefix (`PrefixOfConcat`) and that every other step is an append or
a stutter.

*JsonlLog.* That damage is last (`DamageIsLast`) is not inductive: a write after a
cut would bury it. So `TaskInv` says where the file ends at each file operation
(`before` is its decodable length when a write begins, a rollback's cut starts
there, a repair truncates first), `FileInv` that nothing is acknowledged before the
directory entry is durable and that only the part behind `synced` can be lost,
`QueueInv` that queue and cursor continue what was acknowledged, and `ShownInv`
that this is a prefix of the decodable part. `Good`, a CHOOSE, is then the
decodable part (`GoodIsBody`). The refinement needs one more argument for a crash:
what `Remains` keeps of the unsynced rows starts with all that was acknowledged.

*ToolScheduler.* Ordered results are not inductive without the reason: `CommitInv`
says that a started call is in the pool, waits with its result in its slot, or is
committed, and that the next one to commit waits only where `commitReady` is about
to run. `PoolInv` says that a pool holds calls of one group, all started under its
mode, which is why an exclusive call, a group of its own, runs alone. `LogInv`
says that the log holds exactly the started and the committed calls. What the
companion makes of the log (`EventsTied`) is then an induction over its prefixes:
the calls open in the companion's record are those started and not yet answered, so
each result finds its call open.

*SessionRepair.* Three folds read the same log: the companion's record, the scan of
`interruptedTurnClosers` and the `turnBoundary` projection. `Sound` says, of one
log, that they agree on what is open and on the numbers to come (`StepsMatch`,
`NumbersMatch`), that the pending map holds the unanswered calls of the open step,
once each, marked as started exactly when the log says so (`PendingMatch`), and that
such a call has no result yet while every other call of the step has one
(`ResultsMatch`). A crash may leave any prefix, so the invariant asks it of each
prefix (`AllSound`), beside the driver's own counters (`DriverMatch`); that calls of
earlier turns and steps cannot be mistaken for those of the open step needs
`NumbersMatch`, because ids may come back. `SoundKept` adds one event, the driver's
or the repair's. `RepairWorks` closes a log by induction on the number of its
closers: appending the first closer leaves a sound log whose closers are the others
(`CloseOne`), so a crash among them is nothing new.

*Folds and induction.* The prover has no induction over data: no backend takes the
library's induction theorems, whose parameter is an operator. `Inductive` is the
induction over the natural numbers for a *set* of them, from the well-foundedness of
`<` (a least counterexample); `FoldExists` and `FoldFacts` use it to show what a fold
from left to right computes, for a step *function*. `RecordFold`, `ScanFold`,
`TurnFold` and `EntryFold` carry this to `FoldLeft` over the four step operators of
the models, one lemma each for the same reason.

*JobRegistry.* `JobInv` says that before its settlement a record is reported
exactly when it was claimed, and that an active job of an owner in teardown is
claimed; `WaitInv` that a wait counts until it is rejected. With the count in
`TypeOK` (the number of waits of a job, a cardinality) a settlement that finds
`waiters > 0` finds a caller that will answer, and `ReportInv` says what has been
told once a job is settled, so that no answer joins a notice. `SettlementFinal` follows from
`IInv` by one step per action.

*GuestServer.* A marker is taken off by whoever opened it only if nobody else's
was meant: `MarkInv` gives each marker an open chat and each subscription its
maker. `OverlapInv` (two open chats of a session overlap) makes the history
variable `overlapped` mean what it says, whoever came first, and `LoneMarkInv` and
`MessageInv` then follow a lone chat's message, whatever is parked in front: queued
last, running with an empty queue, or answered with nothing behind it. `OwnerInv` keeps creation, adoption and
resumption of one session apart, which `OwnedIsLive` needs.

*AgentLoop.* `TraceInv` ties the companion's record to the driver's own counters at
every point of a turn, and `GrammarHolds` follows because the record accepts each
next event from there. `WakeInv` and `PhaseInv` follow the latch. For messages,
`OneFate` is inductive only with `ListInv` (a message waits in the list it was sent
to) and `BatchInv` (there is a batch only between claim and log); order needs
`OrderInv`: what is logged was sent before what is being prepared, and that before
what is queued.

*GoalRounds.* `RevInv` bounds the revision: a command adds one, and
the driver stops a goal only while it is live, which only a command restores.
`CancelStops` is an argument about one step from `TypeOK`: an abort of the round's
turn marks the attempt, which the idle edge drops together with the goal, an abort
of any other turn disarms the goal, and a turn that was never opened leaves the
attempt "queued", which the idle edge takes for dropped. That `RoundsAreExact` is not
proved is deliberate: with `Window` = "sync" the driver's last check and the entry are
one atomic stretch, and with "awaits" it is false.

*SessionPreparations.* A client acts on what it read before an await, so the
reservation is exact only because of what may and may not be queued in between.
`ChainInv` says that an operation on a session's promise chain is the one its
caller stands at, that no two queued operations clash (two commits, two operations
of one client, two loads of one entry), and that the entry of a queued commit is
committing. `EntryInv` and `CallOK` say that an entry and a caller hold the stored
log or a shorter one, `EntryInv` also that a session that is live here has no entry:
with lengths that only grow, a source of the stored length *is* the stored log,
which is all that `isPreparedSourceCurrent` tests. `ReservedInv` (the property) then
survives the appends that are queued behind a reservation because `assertWritable`
refuses them, and a live session's writes because there is none. `PinsInv` counts
pins as a cardinality, through waiters that outlive their entry: a tag stands for
the identity of an entry, and a new one is unlike any in use (`FreshTag`), so a pin
is taken off the entry that it was put on. `Order` makes the entries and the
eviction order agree, which `Bounded` needs when `touch` drops one entry. The parts
take the state as arguments, and the lemmas follow an action change by change: the
operation leaves the chain, the entry changes, its waiters go on, the caller
finishes. `PoolAlways` adds one step per action for `LeaseIsKept`: eviction takes an
entry without pins, and a leased one has some.

`ReadsAlways` needs a second layer over `IInv`, for it is not true that an entry is
ever up to date: it must have been read after all that this process knew, and the
entry must go when that grows. `Layer` says, of each session, that what is known is in
the log and in every entry that holds a source (`KnownAt`); that the load of the
present entry is the last one queued, so that an older result cannot fill it
(`LoadsAt`); and that an append under way stands at the head of its queue and, when it
will adopt its session, finds no entry there that was loaded before it (`WritesAt`,
where `takeReady` matters). Of each call it says that its floor was known and that
the source it has taken is no shorter (`CallKnown`). `StepInv` and `StepLayer` keep
the layers separately, one lemma per action.

### Only model-checked

- `RoundsAreExact`, with `Window` = "sync" (see above).
- Liveness: `Progress`, `Quiesces`, `Settles`, `Recovers`, `TeardownEnds`,
  `GoalNeverStalls`; fairness and ENABLED are out of the prover's reach.
- The violations of section 5, which are counterexamples.

## 5. Where the code and its words part

Each of these is a run that TLC ends with a counterexample; `PROJECT.json` quotes
the lines.

| run | the words | what happens |
| --- | --- | --- |
| `jsonl_rollback` | "`append` resolves only after the batch is durable, so a resolved write survives an OS crash or power loss" | writing a batch fails, its rollback fails too; the retry is written behind the partial record, is acknowledged, and no reader finds it |
| `goal_rounds_stale` | "a stale, cancelled, or competing prompt is rejected before its step enters" | the driver's second check passes, a listener outside it awaits, the goal is edited: the old round enters and the strict goal fold fails for good |
| `guest_ensure` | "Ensure a guest agent is live" | a chat adopts an agent under disposal; its entry stays and later chats fail |

Other divergences that the models have and no run is kept for:

- *Guest ceiling* (guest-server 83, 400): "Process-wide ceiling of live guest
  sessions"; the size is tested two awaits before the entry is made.
- *Guest history* (789, 799): "never receives a snapshot older than the turn it is
  waiting for"; a read begun in a turn and served after its end stores the old list.
- *Guest reply* (34, 509): after a failed turn the newest older answer is sent as
  the reply of the chat.
- *Parked input* (agent.ts 184, 283): "Live drivers claim queued work themselves";
  a driver whose turn turns out empty stops with a followup in its inbox that
  arrived meanwhile and was not latched.
- *Latch under disposal* (agent.ts 185): "disposal never latches"; after a user's
  cancel the first abort reason stands, a followup is latched, and dispose waits for
  its turn.
- *Refused retry* (JSONL 576, 613): when the fsync of the directory fails behind the
  link, the append is rejected and every retry is refused because the log exists,
  which the comment takes for "unreachable-in-practice".
- *Cancel before turn/start* (agent.ts 261): the driver's README says (line 53)
  that "a cancellation unrelated to a goal attempt only disarms continuation". A
  human prompt's turn that is cancelled before its turn/start logs no turn/end, from
  which alone the driver would learn it, so the idle agent gets the next round:
  `CancelStopsRounds` excepts it by name.
- *Cursor behind closers* (coordinator 721, 1027): "`append`'s first `seq` must equal
  the stored next-seq" (README.md:73 of session-persistence); a load stores the
  closers of an open turn without moving the cursor of the session that an append
  left tracked, and an append queued in between is accepted with a number already
  used. `AppendDone` has both cursors, the log's and the tracked session's.
- *Goals and maintenance* (goal driver 107): an agent in maintenance has status
  idle, so the driver queues rounds behind the activity, and none of its status
  edges marks the end of it. A goal edited there gets a second round queued behind
  the first; the first is rejected when it is claimed, and the idle edge then pauses
  the edited goal because the second is still "queued". An unload there leaves the
  round in the inbox with no fence over it. And after a cancel there no idle edge
  follows that would pause the goal or clear the competing prompt, so an armed goal
  may stall; `GoalNeverStalls` excepts the last by name.
- *Cancel from an observer* (agent.ts 145): inside an append with a non-empty inbox
  `clear()` throws before `abort()` is reached, so it cancels nothing.

The passing properties beside them state what does hold: `WakesAreKept` lists every
way input stays parked, `LoneChats` holds for chats that share their session with no
other, `OwnedIsLive` of owned entries, `MarkersHold` while a turn is marked,
`ImplementsStoredSession` as long as rollbacks succeed, `RoundsAreExact` as long as
outer listeners do not await, `CancelStopsRounds` for every turn that was opened.

## 6. What is not modelled, and the plan

Of the modelled components, section 2 names what each leaves out. Components with
no module:

- *Agent factory and registry*: create, resume and dispose of one lifecycle.
  `GuestServer` and `GoalRounds` keep the few states of it that they can observe.
- *Session store and surface*, *compaction*: veto, publication and the replacement
  of regions. The grammar of the log is in `SessionTrace`; regions are data to every
  model here.
- *Request retry*, *approvals and questions*, *schedules*, *subagents*, *session
  controller*, *output gate*: each a protocol of its own around the core. A retry
  changes neither phase nor inbox and is a stutter of `AgentLoop`.
- *Tool pipeline*: `ToolScheduler` takes prepare, dispatch and finalize as
  nondeterministic answers.
- *Abuse guard of the visitor bridge*: a sequential counter of one address, with
  nothing that an ordinary test does not reach.
- Providers, host tools, settings, storage, workspaces and UI are I/O and
  presentation; text algorithms of the output gate and the knowledge search are data;
  vendored and generated code is not this system's.

The models cover a small share of a repository that is mostly UI, tools, adapters,
catalogues and tests: the part that decides ordering, durability and cancellation.
