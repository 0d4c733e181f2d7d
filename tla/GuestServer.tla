---------------------------- MODULE GuestServer -----------------------------
(***************************************************************************)
(* The visitor bridge: its map of guest sessions, the chat requests that   *)
(* run one turn each, the in-flight marker and history cache behind        *)
(* GET /history, and the stream subscriptions.                             *)
(*                                                                         *)
(* Handlers are interleaved at their awaits.  Of the agent underneath only *)
(* what a request can tell apart is kept: an inbox, one running turn, and  *)
(* a log of answers (AgentLoop has the rest).  The process has just        *)
(* started; some sessions are left in storage by an earlier one, perhaps   *)
(* with a message of an earlier chat parked in the inbox.                  *)
(***************************************************************************)
EXTENDS Naturals, Sequences, FiniteSets

Seqs == INSTANCE SequencesExt

CONSTANTS Session,     \* guest session ids
          Chat,        \* chat requests, each with a message of its own
          Reader,      \* history pollers, each one request at a time
          MaxSessions, \* config.maxSessions
          CacheMax     \* HISTORY_CACHE_MAX

ASSUME GuestBounds == MaxSessions \in Nat \ {0} /\ CacheMax \in Nat \ {0}
ASSUME NoneIsNoId == "none" \notin Session \cup Chat /\ "earlier" \notin Chat

\* A chat's message, or one that an earlier process left parked.
Message == Chat \cup {"earlier"}

VARIABLES
  guests,      \* per session: its entry, "none", "owned" or "adopted"
  creating,    \* sessions whose agents.create is under way
  dropping,    \* sessions whose DELETE awaits the disposal
  activeTurns, \* sessions marked as in flight
  cache,       \* historyCache, oldest entry first
  streamers    \* per session: the subscribed chat, or "none"

VARIABLES      \* the core: registry, storage, inbox, running turn and log
  agents,      \* "none", "live", "closing" while a disposal awaits its quiet,
               \* or "unwinding" while it awaits its scope
  stored,      \* sessions storage knows
  queue, running, log

VARIABLES      \* chat and history requests
  pc,          \* where the chat's handler stands
  at,          \* the chat's session, or "none"
  streamed,    \* whether the chat came in on chat/stream
  reply,       \* the message whose answer the handler read, or "none"
  rpc, rat,    \* where a history poller stands, and its session or "none"
  snapshot     \* how much of the log it has read

VARIABLES      \* history, read by no action
  overlapped   \* chats that shared their session with another chat or a DELETE

serverVars == <<guests, creating, dropping, activeTurns, cache, streamers>>
coreVars == <<agents, stored, queue, running, log>>
chatVars == <<pc, at, streamed, reply>>
readVars == <<rpc, rat, snapshot>>
vars == <<serverVars, coreVars, chatVars, readVars, overlapped>>

Entries == {s \in Session : guests[s] # "none"}
Underway == {"resolving", "resuming", "resumed", "ensured", "waiting",
             "reading", "read"}
OpenChats(s) == {r \in Chat : pc[r] \in Underway /\ at[r] = s}

Init ==
  /\ guests = [s \in Session |-> "none"] /\ creating = {} /\ dropping = {}
  /\ activeTurns = {} /\ cache = <<>>
  /\ streamers = [s \in Session |-> "none"]
  /\ agents = [s \in Session |-> "none"] /\ stored \in SUBSET Session
  /\ \E parked \in SUBSET stored :
       queue = [s \in Session |-> IF s \in parked THEN <<"earlier">> ELSE <<>>]
  /\ running = [s \in Session |-> "none"]
  /\ log = [s \in Session |-> <<>>]
  /\ pc = [r \in Chat |-> "new"] /\ at = [r \in Chat |-> "none"]
  /\ streamed = [r \in Chat |-> FALSE] /\ reply = [r \in Chat |-> "none"]
  /\ rpc = [h \in Reader |-> "rest"] /\ rat = [h \in Reader |-> "none"]
  /\ snapshot = [h \in Reader |-> 0]
  /\ overlapped = {}

-----------------------------------------------------------------------------
(* The in-flight marker and the history cache *)

Cached(s) == \E i \in DOMAIN cache : cache[i].session = s

\* The cache maps a session to one snapshot: this takes the one of s out.
Without(s) ==
  IF Cached(s)
  THEN Seqs!RemoveAt(cache, CHOOSE i \in DOMAIN cache : cache[i].session = s)
  ELSE cache

BeginTurn(s) == activeTurns' = activeTurns \cup {s} /\ cache' = Without(s)

EndTurn(s) == activeTurns' = activeTurns \ {s} /\ cache' = Without(s)

\* Mutant: a full cache keeps its oldest entry.
StoredUnbounded(s, n) == Append(Without(s), [session |-> s, upTo |-> n])

\* A snapshot enters the cache; a full cache evicts its oldest entry.
Stored(s, n) ==
  LET added == Append(Without(s), [session |-> s, upTo |-> n])
  IN  IF Len(added) > CacheMax THEN Tail(added) ELSE added

-----------------------------------------------------------------------------
(* Guest sessions *)

\* A random id: no visitor has named it, and none knows it before it is created.
Fresh(s) ==
  /\ s \notin stored \cup creating
  /\ \A r \in Chat : at[r] # s

\* createGuest up to its first await; over the ceiling it answers 503.
CreateGuest(s) ==
  /\ Fresh(s)
  /\ Cardinality(Entries) < MaxSessions
  /\ creating' = creating \cup {s}
  /\ UNCHANGED <<guests, dropping, activeTurns, cache, streamers, coreVars,
                 chatVars, readVars, overlapped>>

\* The preset or the agent fails, or the new session enters the map.
Created(s) ==
  /\ s \in creating
  /\ creating' = creating \ {s}
  /\ \/ UNCHANGED <<guests, agents, stored>>
     \/ /\ guests' = [guests EXCEPT ![s] = "owned"]
        /\ agents' = [agents EXCEPT ![s] = "live"]
        /\ stored' = stored \cup {s}
  /\ UNCHANGED <<dropping, activeTurns, cache, streamers, queue, running, log,
                 chatVars, readVars, overlapped>>

\* Mutant: the entry outlives its agent.
EntryKept(s) == guests

EntryRemoved(s) == [guests EXCEPT ![s] = "none"]

\* dropGuest: the entry goes at once, then the owner disposes its agent.
DropGuest(s) ==
  /\ s \in stored \ dropping
  /\ dropping' = dropping \cup {s}
  /\ guests' = EntryRemoved(s)
  /\ IF guests[s] = "owned" /\ agents[s] = "live"
     THEN /\ agents' = [agents EXCEPT ![s] = "closing"]
          /\ queue' = [queue EXCEPT ![s] = <<>>]
     ELSE UNCHANGED <<agents, queue>>
  /\ overlapped' = overlapped \cup OpenChats(s)
  /\ UNCHANGED <<creating, activeTurns, cache, streamers, stored, running, log,
                 chatVars, readVars>>

\* The disposal has settled, or there was none; the snapshot goes last.
Dropped(s) ==
  /\ s \in dropping /\ agents[s] \notin {"closing", "unwinding"}
  /\ dropping' = dropping \ {s}
  /\ cache' = Without(s)
  /\ UNCHANGED <<guests, creating, activeTurns, streamers, coreVars, chatVars,
                 readVars, overlapped>>

-----------------------------------------------------------------------------
(* The agent underneath *)

\* A driver claims the oldest queued message.
Claims(s, waiting) ==
  IF waiting = <<>>
  THEN /\ running' = [running EXCEPT ![s] = "none"]
       /\ queue' = [queue EXCEPT ![s] = <<>>]
  ELSE /\ running' = [running EXCEPT ![s] = Head(waiting)]
       /\ queue' = [queue EXCEPT ![s] = Tail(waiting)]

\* A driver that a disposal has cancelled stops with its turn; one woken since
\* claims on, like any other.
TurnAnswers(s) ==
  /\ running[s] # "none"
  /\ log' = [log EXCEPT ![s] = Append(@, running[s])]
  /\ \/ Claims(s, queue[s])
     \/ /\ agents[s] = "closing"
        /\ running' = [running EXCEPT ![s] = "none"] /\ UNCHANGED queue
  /\ UNCHANGED <<serverVars, agents, stored, chatVars, readVars, overlapped>>

\* A turn that fails or is cancelled stops its driver; what is queued is parked.
TurnFails(s) ==
  /\ running[s] # "none"
  /\ running' = [running EXCEPT ![s] = "none"]
  /\ UNCHANGED <<serverVars, agents, stored, queue, log, chatVars, readVars,
                 overlapped>>

\* A disposal has met a quiet agent and goes on to unwind its scope.  It does not
\* look again: a message that comes now starts a turn it will not wait for.
AgentQuiet(s) ==
  /\ agents[s] = "closing" /\ running[s] = "none"
  /\ agents' = [agents EXCEPT ![s] = "unwinding"]
  /\ UNCHANGED <<serverVars, stored, queue, running, log, chatVars, readVars,
                 overlapped>>

\* The end of a disposal: agent and session leave their registries.  Messages
\* that came after its cancel stay in the stored log, parked for the next agent.
\* A turn under way goes on in a session nobody records: all that is left to see
\* of it is when the chats that wait for it go on to read, now or later.
AgentGone(s) ==
  /\ agents[s] = "unwinding"
  /\ agents' = [agents EXCEPT ![s] = "none"]
  /\ running' = [running EXCEPT ![s] = "none"]
  /\ pc' = [r \in Chat |-> IF pc[r] = "waiting" /\ at[r] = s THEN "reading" ELSE pc[r]]
  /\ UNCHANGED <<serverVars, stored, queue, log, at, streamed, reply, readVars,
                 overlapped>>

-----------------------------------------------------------------------------
(* A chat request: runChat, and runChatStream when streamed *)

Goes(r, to) == pc' = [pc EXCEPT ![r] = to] /\ UNCHANGED <<at, streamed, reply>>

\* The handler, up to the first await of ensureGuest.
Ask(r, s, stream) ==
  /\ pc[r] = "new" /\ s \notin creating
  /\ pc' = [pc EXCEPT ![r] = IF guests[s] # "none" THEN "ensured" ELSE "resolving"]
  /\ at' = [at EXCEPT ![r] = s]
  /\ streamed' = [streamed EXCEPT ![r] = stream]
  /\ IF stream THEN UNCHANGED <<activeTurns, cache>> ELSE BeginTurn(s)
  /\ overlapped' = IF OpenChats(s) = {} /\ s \notin dropping THEN overlapped
                   ELSE overlapped \cup OpenChats(s) \cup {r}
  /\ UNCHANGED <<reply, guests, creating, dropping, streamers, coreVars, readVars>>

\* Whether the handler is inside the try whose finally ends the turn.
Opened(r) == ~streamed[r] \/ pc[r] \in {"waiting", "reading", "read"}

\* The handler responds, through its finally.
Ends(r, outcome) ==
  /\ pc' = [pc EXCEPT ![r] = outcome] /\ UNCHANGED at
  /\ streamed' = [streamed EXCEPT ![r] = FALSE]
  /\ reply' = [reply EXCEPT ![r] = "none"]
  /\ IF Opened(r) THEN EndTurn(at[r]) ELSE UNCHANGED <<activeTurns, cache>>
  /\ streamers' = IF Opened(r) /\ streamed[r]
                  THEN [streamers EXCEPT ![at[r]] = "none"] ELSE streamers
  /\ UNCHANGED <<guests, creating, dropping, coreVars, readVars, overlapped>>

\* The preset is resolved: a live agent is adopted, a stored one resumed.
Resolved(r) ==
  LET s == at[r]
  IN  /\ pc[r] = "resolving"
      /\ \/ Ends(r, "failed")
         \/ /\ agents[s] # "none"
            /\ guests' = [guests EXCEPT ![s] = "adopted"]
            /\ Goes(r, "ensured")
            /\ UNCHANGED <<creating, dropping, activeTurns, cache, streamers,
                           coreVars, readVars, overlapped>>
         \/ /\ agents[s] = "none"
            /\ Goes(r, "resuming")
            /\ UNCHANGED <<serverVars, coreVars, readVars, overlapped>>

\* agents.resume refuses a session that is unknown, or live by now.
Resume(r) ==
  LET s == at[r]
  IN  /\ pc[r] = "resuming"
      /\ \/ Ends(r, "failed")
         \/ /\ agents[s] = "none" /\ s \in stored
            /\ agents' = [agents EXCEPT ![s] = "live"]
            /\ Goes(r, "resumed")
            /\ UNCHANGED <<serverVars, stored, queue, running, log, readVars,
                           overlapped>>

Resumed(r) ==
  /\ pc[r] = "resumed"
  /\ guests' = [guests EXCEPT ![at[r]] = "owned"]
  /\ Goes(r, "ensured")
  /\ UNCHANGED <<creating, dropping, activeTurns, cache, streamers, coreVars,
                 readVars, overlapped>>

\* A stream subscribes and marks its turn only here.
Subscribe(r) ==
  IF streamed[r]
  THEN streamers' = [streamers EXCEPT ![at[r]] = r] /\ BeginTurn(at[r])
  ELSE UNCHANGED <<streamers, activeTurns, cache>>

\* The message goes to the live agent; a missing entry or agent fails the chat.
Followup(r) ==
  LET s == at[r]
  IN  /\ pc[r] = "ensured"
      /\ \/ /\ guests[s] = "none" \/ agents[s] = "none"
            /\ Ends(r, "failed")
         \/ /\ guests[s] # "none" /\ agents[s] # "none"
            /\ Subscribe(r)
            /\ IF running[s] = "none" THEN Claims(s, Append(queue[s], r))
               ELSE /\ queue' = [queue EXCEPT ![s] = Append(@, r)]
                    /\ UNCHANGED running
            /\ Goes(r, "waiting")
            /\ UNCHANGED <<guests, creating, dropping, agents, stored, log,
                           readVars, overlapped>>

\* Mutant: the turn of a message whose chat is over does not count as activity.
IdleButForParked(s) ==
  \A r \in Chat : running[s] = r => pc[r] \in {"done", "failed"}

Idle(s) == running[s] = "none"

WhenIdle(r) ==
  /\ pc[r] = "waiting" /\ Idle(at[r])
  /\ Goes(r, "reading")
  /\ UNCHANGED <<serverVars, coreVars, readVars, overlapped>>

\* readLatestAssistantText.
LatestAnswer(s) == IF log[s] = <<>> THEN "none" ELSE log[s][Len(log[s])]

ReadReply(r) ==
  /\ pc[r] = "reading"
  /\ \/ Ends(r, "failed")
     \/ /\ reply' = [reply EXCEPT ![r] = LatestAnswer(at[r])]
        /\ pc' = [pc EXCEPT ![r] = "read"]
        /\ UNCHANGED <<at, streamed, serverVars, coreVars, readVars, overlapped>>

Answered(r) == pc[r] = "read" /\ Ends(r, "done")

-----------------------------------------------------------------------------
(* A history request: readHistory *)

\* A cached list is served at once while no turn is marked: nothing changes.
StartRead(h, s) ==
  /\ rpc[h] = "rest" /\ s \in stored
  /\ s \in activeTurns \/ ~Cached(s)
  /\ rpc' = [rpc EXCEPT ![h] = "loading"]
  /\ rat' = [rat EXCEPT ![h] = s]
  /\ UNCHANGED <<snapshot, serverVars, coreVars, chatVars, overlapped>>

Load(h) ==
  /\ rpc[h] = "loading"
  /\ \/ /\ rpc' = [rpc EXCEPT ![h] = "rest"] /\ rat' = [rat EXCEPT ![h] = "none"]
        /\ UNCHANGED snapshot
     \/ /\ rpc' = [rpc EXCEPT ![h] = "gating"]
        /\ snapshot' = [snapshot EXCEPT ![h] = Len(log[rat[h]])]
        /\ UNCHANGED rat
  /\ UNCHANGED <<serverVars, coreVars, chatVars, overlapped>>

\* Mutant: reads taken during a turn are stored too.
MayStoreAlways(s) == TRUE

MayStore(s) == s \notin activeTurns

\* Every answer has passed the gate: the list is stored, unless a turn is
\* marked by now, and served.
Serve(h) ==
  LET s == rat[h]
  IN  /\ rpc[h] = "gating"
      /\ rpc' = [rpc EXCEPT ![h] = "rest"] /\ rat' = [rat EXCEPT ![h] = "none"]
      /\ cache' = IF MayStore(s) THEN Stored(s, snapshot[h]) ELSE cache
      /\ snapshot' = [snapshot EXCEPT ![h] = 0]
      /\ UNCHANGED <<guests, creating, dropping, activeTurns,
                     streamers, coreVars, chatVars, overlapped>>

Next ==
  \/ \E s \in Session :
       \/ CreateGuest(s) \/ Created(s) \/ DropGuest(s) \/ Dropped(s)
       \/ TurnAnswers(s) \/ TurnFails(s)
       \/ AgentQuiet(s) \/ AgentGone(s)
  \/ \E r \in Chat :
       \/ \E s \in Session, stream \in BOOLEAN : Ask(r, s, stream)
       \/ Resolved(r) \/ Resume(r) \/ Resumed(r) \/ Followup(r)
       \/ WhenIdle(r) \/ ReadReply(r) \/ Answered(r)
  \/ \E h \in Reader :
       (\E s \in Session : StartRead(h, s)) \/ Load(h) \/ Serve(h)

Spec == Init /\ [][Next]_vars

-----------------------------------------------------------------------------
(* Properties *)

\* Every variable keeps its type; the cache holds each session once and no more
\* than CacheMax of them.
TypeOK ==
  /\ guests \in [Session -> {"none", "owned", "adopted"}]
  /\ creating \subseteq Session /\ dropping \subseteq Session
  /\ activeTurns \subseteq Session /\ stored \subseteq Session
  /\ cache \in Seq([session : Session, upTo : Nat]) /\ Len(cache) <= CacheMax
  /\ \A i, j \in DOMAIN cache : i # j => cache[i].session # cache[j].session
  /\ streamers \in [Session -> Chat \cup {"none"}]
  /\ agents \in [Session -> {"none", "live", "closing", "unwinding"}]
  /\ queue \in [Session -> Seq(Message)] /\ log \in [Session -> Seq(Message)]
  /\ running \in [Session -> Message \cup {"none"}]
  /\ at \in [Chat -> Session \cup {"none"}] /\ streamed \in [Chat -> BOOLEAN]
  /\ pc \in [Chat -> {"new", "done", "failed"} \cup Underway]
  /\ reply \in [Chat -> Message \cup {"none"}]
  /\ rpc \in [Reader -> {"rest", "loading", "gating"}]
  /\ rat \in [Reader -> Session \cup {"none"}] /\ snapshot \in [Reader -> Nat]
  /\ \A h \in Reader : rpc[h] # "rest" <=> rat[h] \in Session
  /\ overlapped \subseteq Chat

NothingLeaks ==
  \A s \in Session :
    OpenChats(s) = {} => s \notin activeTurns /\ streamers[s] = "none"

NoSnapshotInFlight == \A s \in activeTurns : ~Cached(s)

\* The in-flight marker is neither leaked nor ignored: whatever fails on the way
\* (preset, resume, missing agent, log read) a chat leaves no marker and no
\* stream subscription behind, and while a turn is marked no snapshot of its
\* session is cached, whatever reads began before it (readHistory: "those reads
\* parse fresh and store nothing").
MarkersHold == NothingLeaks /\ NoSnapshotInFlight

InTurn(r) == pc[r] \in {"waiting", "reading", "read"}

LoneTurnIsMarked ==
  \A r \in Chat \ overlapped :
    InTurn(r) =>
      at[r] \in activeTurns /\ (streamed[r] => streamers[at[r]] = r)

LoneReply ==
  \A r \in Chat \ overlapped :
    pc[r] = "read" /\ (\E i \in DOMAIN log[at[r]] : log[at[r]][i] = r)
      => reply[r] = r

\* A chat that shares its session with no other is marked as in flight, and its
\* stream subscribed, from before its message is sent until its reply is read;
\* and when its turn has answered it returns that answer and no other, also when
\* messages of earlier chats were parked in front of it and are answered first,
\* by this agent or by one that resumes the session.  Of a chat whose own turn
\* failed it says nothing: that one returns whatever answer is the newest.
LoneChats == LoneTurnIsMarked /\ LoneReply

\* An entry that owns its agent never outlives it: a chat that finds one talks
\* to a live agent, also while a DELETE of the session is under way.
OwnedIsLive == \A s \in Session : guests[s] = "owned" => agents[s] = "live"

\* What ensureGuest says of itself, "Ensure a guest agent is live for `sessionId`,
\* creating it on first sight or resuming it from persistence": a session in the
\* map has an agent to talk to.
EnsuredIsLive == \A s \in Entries : agents[s] # "none"
=============================================================================
