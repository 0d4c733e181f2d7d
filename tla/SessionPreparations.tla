------------------------ MODULE SessionPreparations -------------------------
(***************************************************************************)
(* The coordinator's pool of prepared sessions: cold reads shared between  *)
(* callers, the exclusive reservation a resume holds, leases that pin an   *)
(* entry, the LRU of ready entries, and the per-id chain on which loads,   *)
(* commits, revision checks and writes run one after the other.            *)
(*                                                                         *)
(* A stored log is its length and whether its last turn is open; a log     *)
(* only grows, so the length is its revision too.  An operation on the     *)
(* chain takes effect when it completes; callers go on afterwards, in any  *)
(* order.  Other processes write only while this one neither holds the     *)
(* session nor writes it.                                                  *)
(***************************************************************************)
EXTENDS Naturals, Sequences, FiniteSets

Seqs == INSTANCE SequencesExt

CONSTANTS Id, Client,
          Asks,        \* the calls a client makes: [Client -> SUBSET (Kind \X Id)]
          Shared,      \* the ids other processes write too
          Capacity,    \* the pool's capacity of ready entries
          MaxCalls,    \* bound: calls of one client
          MaxLength,   \* bound: records of one log, closers apart
          MaxFailures  \* bound: failing backend operations in one behaviour

Kind == {"inspect", "borrow", "prepare", "load", "append"}

ASSUME BoundsAssumption ==
  /\ Asks \in [Client -> SUBSET (Kind \X Id)]
  /\ Shared \subseteq Id /\ Capacity \in Nat \ {0}
  /\ MaxCalls \in Nat /\ MaxLength \in Nat /\ MaxFailures \in Nat
ASSUME ActorsAssumption ==
  /\ Id # {} /\ IsFiniteSet(Id) /\ IsFiniteSet(Client) /\ "none" \notin Client

VARIABLES
  log,       \* what the backend stores
  chain,     \* chains: the operations queued per id, the head running
  entry,     \* SessionPreparations.entries
  recency,   \* the ids of the entries, least recently touched first
  states,    \* the coordinator's states: cursor and owner
  live,      \* the live session of an id, and its retirement
  call,      \* the call each client is in
  calls,     \* history: calls made per client
  failures,  \* history: backend operations that failed
  known,     \* history: how much of each log this process has read or written
  served     \* history: "fresh", or "stale" once a read missed a record this
             \*   process knew of when it was called

vars == <<log, chain, entry, recency, states, live, call, calls, failures,
          known, served>>

-----------------------------------------------------------------------------
(* Types *)

Log == [len : Nat, turn : {"open", "closed"}]
Tag == Nat \ {0}   \* names of entries in use

NoLog == [len |-> 0, turn |-> "closed"]
NoEntry == [tag |-> 0, phase |-> "absent", source |-> NoLog, pins |-> 0]
Entry == [tag : Tag, phase : {"loading", "ready", "committing", "reserved"},
          source : Log, pins : 0..Cardinality(Client)]

\* An operation on the chain; tag is the entry a load fills, a commit takes.
Operation == [op : {"load", "commit", "check", "append", "init", "write", "detach"},
              client : Client \cup {"none"}, tag : {0} \cup Tag]

NoState == [cursor |-> 0, owner |-> "absent"]
State == [cursor : Nat, owner : {"none", "live"}]

\* next: the session's length; saved: its events handed to the backend.  A
\* broken session is published, but its initial write failed, and with it every
\* flush.
NoLive == [phase |-> "none", next |-> 0, saved |-> 0]
Live == [phase : {"live", "broken", "draining", "stuck"}, next : Nat, saved : Nat]

\* tag and source: the entry waited for and what it loaded; pinned: whether
\* this borrow counts in the entry's pins; floor: where an append continues the
\* log, and (history) what of the log was known when another call was made.
NoCall(i) == [kind |-> "inspect", id |-> i, step |-> "idle", tag |-> 0,
              source |-> NoLog, pinned |-> "no", floor |-> 0]
Call == [kind : Kind, id : Id, tag : {0} \cup Tag, source : Log,
         step : {"idle", "top", "loading", "loaded", "settling", "committing",
                 "holding", "checking", "leasing", "appending", "writing"},
         pinned : {"no", "yes"}, floor : Nat]

Listed(s, i) == \E k \in DOMAIN s : s[k] = i

TypeOK ==
  /\ log \in [Id -> Log] /\ entry \in [Id -> Entry \cup {NoEntry}]
  /\ chain \in [Id -> Seq(Operation)]
  /\ recency \in Seq(Id) /\ Seqs!IsInjective(recency)
  /\ \A i \in Id : entry[i] # NoEntry <=> Listed(recency, i)
  /\ states \in [Id -> State \cup {NoState}]
  /\ live \in [Id -> Live \cup {NoLive}]
  /\ call \in [Client -> Call] /\ calls \in [Client -> 0..MaxCalls]
  /\ failures \in 0..MaxFailures /\ known \in [Id -> Nat]
  /\ served \in {"fresh", "stale"}

-----------------------------------------------------------------------------
(* The pool.  Each operator gives the entries and their order after it. *)

\* A pool is the pair of entries and recency.
Pool == [entry |-> entry, recency |-> recency]
Without(s, i) ==
  IF Listed(s, i) THEN Seqs!RemoveAt(s, CHOOSE k \in DOMAIN s : s[k] = i) ELSE s

Remove(pool, i) == [entry |-> [pool.entry EXCEPT ![i] = NoEntry],
                    recency |-> Without(pool.recency, i)]

ReadyIds(entries) == { i \in Id : entries[i].phase = "ready" }

\* Mutant: eviction takes the oldest ready entry, whoever holds a lease on it.
EvictableAny(pool) ==
  { k \in DOMAIN pool.recency : pool.entry[pool.recency[k]].phase = "ready" }

\* The places of the entries that may be evicted.
Evictable(pool) ==
  { k \in DOMAIN pool.recency : /\ pool.entry[pool.recency[k]].phase = "ready"
                                /\ pool.entry[pool.recency[k]].pins = 0 }

Oldest(places) == CHOOSE k \in places : \A l \in places : k <= l

\* touch: the entry becomes the most recent, and one ready entry too many goes.
Touch(pool, i) ==
  LET moved == [pool EXCEPT !.recency = Append(Without(@, i), i)]
  IN IF Cardinality(ReadyIds(moved.entry)) <= Capacity \/ Evictable(moved) = {}
     THEN moved ELSE Remove(moved, moved.recency[Oldest(Evictable(moved))])

MakeReady(pool, i) == Touch([pool EXCEPT !.entry[i].phase = "ready"], i)

TouchReady(pool, i) ==
  IF pool.entry[i].phase = "ready" THEN Touch(pool, i) ELSE pool

\* Mutant: the pin goes from whatever entry the id has by then.
UnpinAny(pool, c) ==
  IF call[c].pinned = "yes"
  THEN [pool EXCEPT !.entry[call[c].id].pins = @ - 1] ELSE pool

\* dispose of a lease: the pin goes if the entry is still the one borrowed.
Unpin(pool, c) ==
  LET i == call[c].id IN
  IF call[c].pinned = "yes" /\ pool.entry[i].tag = call[c].tag
  THEN TouchReady([pool EXCEPT !.entry[i].pins = @ - 1], i) ELSE pool

SetPool(pool) == entry' = pool.entry /\ recency' = pool.recency

\* The entry the client waits for is still the one in the pool.
Current(c) == entry[call[c].id] # NoEntry /\ entry[call[c].id].tag = call[c].tag

\* An entry's name: the promise its waiters hold, unlike any other in use.
FreshTag(i) ==
  CHOOSE t \in 1..Len(chain[i]) + Cardinality(Client) + 1 :
    /\ \A k \in DOMAIN chain[i] : chain[i][k].tag # t
    /\ \A c \in Client : call[c].id = i => call[c].tag # t

-----------------------------------------------------------------------------
(* Calls *)

Head1(i) == Head(chain[i])
Runs(i, op) == chain[i] # <<>> /\ Head1(i).op = op

Enqueue(i, op, c, tag) ==
  chain' = [chain EXCEPT ![i] = Append(@, [op |-> op, client |-> c, tag |-> tag])]
Dequeue(i) == chain' = [chain EXCEPT ![i] = Tail(@)]

Go(c, step) == call' = [call EXCEPT ![c].step = step, ![c].pinned = "no",
                                    ![c].tag = 0, ![c].source = NoLog]
Finish(c) == call' = [call EXCEPT ![c] = NoCall(@.id)]

\* The session of the id is published, and answers reads itself.
Attached(i) == live[i].phase \in {"live", "broken"}

\* A read of a cold session answers with what the pool holds of the log.
Answer(c, len) ==
  served' = IF len < call[c].floor THEN "stale" ELSE served

Ask(c) ==
  /\ call[c].step = "idle" /\ calls[c] < MaxCalls
  /\ \E kind \in Kind, i \in Id :
       /\ <<kind, i>> \in Asks[c]
       /\ kind = "append" => ~Attached(i) /\ log[i].len < MaxLength
       /\ call' = [call EXCEPT ![c] = [NoCall(i) EXCEPT
            !.kind = kind, !.step = IF kind = "append" THEN "appending" ELSE "top",
            !.floor = IF kind = "append" THEN log[i].len ELSE known[i]]]
       /\ IF kind = "append" THEN Enqueue(i, "append", c, 0) ELSE UNCHANGED chain
  /\ calls' = [calls EXCEPT ![c] = @ + 1]
  /\ UNCHANGED <<log, entry, recency, states, live, failures, known, served>>

\* A published session answers reads itself, a load flushes it first (or fails
\* like the flush), and a resume of it is refused.
MeetLive(c) ==
  /\ call[c].step = "top" /\ Attached(call[c].id)
  /\ LET l == live[call[c].id] IN
     call[c].kind = "load" => l.saved = l.next \/ l.phase = "broken"
  /\ Finish(c)
  /\ UNCHANGED <<log, chain, entry, recency, states, live, calls, failures,
                 known, served>>

\* entryFor: join the entry of the id, or start the load that fills a new one.
Enter(c) ==
  LET i == call[c].id
      pin == IF call[c].kind = "borrow" THEN 1 ELSE 0
      tag == IF entry[i] = NoEntry THEN FreshTag(i) ELSE entry[i].tag
      loaded == entry[i].phase \in {"ready", "committing", "reserved"}
  IN /\ call[c].step = "top" /\ live[i].phase \in {"none", "stuck"}
     /\ IF entry[i] = NoEntry
        THEN /\ entry' = [entry EXCEPT ![i] =
                  [NoEntry EXCEPT !.tag = tag, !.phase = "loading", !.pins = pin]]
             /\ recency' = Append(recency, i)
             /\ Enqueue(i, "load", "none", tag)
        ELSE /\ entry' = [entry EXCEPT ![i].pins = @ + pin]
             /\ UNCHANGED <<recency, chain>>
     /\ call' = [call EXCEPT
          ![c].step = IF loaded THEN "loaded" ELSE "loading",
          ![c].tag = tag, ![c].source = IF loaded THEN entry[i].source ELSE NoLog,
          ![c].pinned = IF pin = 1 THEN "yes" ELSE "no"]
     /\ UNCHANGED <<log, states, live, calls, failures, known, served>>

-----------------------------------------------------------------------------
(* Loads *)

\* Mutant: a load whose entry was invalidated meanwhile answers nobody.
WaitersPresent(i, tag) ==
  { c \in Client : call[c].id = i /\ call[c].step = "loading" /\ Current(c) }
Waiters(i, tag) ==
  { c \in Client : call[c].id = i /\ call[c].step = "loading" /\ call[c].tag = tag }

\* prepareCore read the log: the entry becomes ready if it is still in the
\* pool, and every caller that waits for it goes on either way.
LoadDone(i) ==
  LET tag == Head1(i).tag IN
  /\ Runs(i, "load") /\ Dequeue(i)
  /\ IF entry[i] # NoEntry /\ entry[i].tag = tag
     THEN SetPool(MakeReady([Pool EXCEPT !.entry[i].source = log[i]], i))
     ELSE UNCHANGED <<entry, recency>>
  /\ call' = [c \in Client |->
       IF c \in Waiters(i, tag)
       THEN [call[c] EXCEPT !.step = "loaded", !.source = log[i]] ELSE call[c]]
  /\ known' = [known EXCEPT ![i] = log[i].len]
  /\ UNCHANGED <<log, states, live, calls, failures, served>>

-----------------------------------------------------------------------------
(* inspect and borrow *)

\* The waiting caller touches the entry it finds ready.
Touched(c) == IF Current(c) THEN TouchReady(Pool, call[c].id) ELSE Pool

\* The source is there: touch the entry and queue the revision check.
Check(c) ==
  LET i == call[c].id IN
  /\ call[c].step = "loaded" /\ call[c].kind \in {"inspect", "borrow"}
  /\ IF Attached(i)
     THEN SetPool(Unpin(Touched(c), c)) /\ Finish(c) /\ UNCHANGED chain
     ELSE /\ SetPool(Touched(c))
          /\ Enqueue(i, "check", c, 0)
          /\ call' = [call EXCEPT ![c].step = "checking"]
  /\ UNCHANGED <<log, states, live, calls, failures, known, served>>

\* The read answers; a borrow keeps its pin until the lease ends.
Deliver(c) ==
  /\ SetPool(Pool) /\ Answer(c, call[c].source.len)
  /\ IF call[c].kind = "borrow" THEN call' = [call EXCEPT ![c].step = "leasing"]
     ELSE Finish(c)

UpToDate(i, source) == source.len = log[i].len

\* The check is back: a published session or a current source answers.  So does
\* a stale source that a resume or load retains; another is discarded and the
\* log read again.
CheckDone(i) ==
  LET c == Head1(i).client IN
  /\ Runs(i, "check") /\ Dequeue(i)
  /\ \/ Attached(i) /\ SetPool(Unpin(Pool, c)) /\ Finish(c) /\ UNCHANGED served
     \/ ~Attached(i) /\ UpToDate(i, call[c].source) /\ Deliver(c)
     \/ /\ ~Attached(i) /\ ~UpToDate(i, call[c].source)
        /\ Current(c) /\ entry[i].phase # "ready" /\ Deliver(c)
     \/ /\ ~Attached(i) /\ ~UpToDate(i, call[c].source)
        /\ ~Current(c) \/ entry[i].phase = "ready"
        /\ SetPool(IF Current(c) THEN Remove(Pool, i) ELSE Pool)
        /\ Go(c, "top") /\ UNCHANGED served
  /\ UNCHANGED <<log, states, live, calls, failures, known>>

EndLease(c) ==
  /\ call[c].step = "leasing"
  /\ SetPool(Unpin(Pool, c)) /\ Finish(c)
  /\ UNCHANGED <<log, chain, states, live, calls, failures, known, served>>

-----------------------------------------------------------------------------
(* prepare and load *)

\* reserve: take the ready entry for a commit, or wait for who holds it.
Reserve(c) ==
  LET i == call[c].id IN
  /\ call[c].kind \in {"prepare", "load"}
  /\ \/ /\ call[c].step \in {"loaded", "settling"} /\ ~Current(c)
        /\ Go(c, "top") /\ UNCHANGED <<entry, chain>>
     \/ /\ call[c].step = "loaded" /\ Current(c) /\ entry[i].phase # "ready"
        /\ call' = [call EXCEPT ![c].step = "settling"]
        /\ UNCHANGED <<entry, chain>>
     \/ /\ call[c].step \in {"loaded", "settling"} /\ Current(c)
        /\ entry[i].phase = "ready"
        /\ entry' = [entry EXCEPT ![i].phase = "committing"]
        /\ Enqueue(i, "commit", c, call[c].tag)
        /\ call' = [call EXCEPT ![c].step = "committing",
                                ![c].source = entry[i].source]
  /\ UNCHANGED <<log, recency, states, live, calls, failures, known, served>>

\* The committed entry is reserved for a resume, or discarded by a load; a
\* caller that gave up meanwhile leaves it ready.
Grant(c, i) ==
  LET len == call[c].source.len IN
  \/ /\ call[c].kind = "prepare"
     /\ SetPool([Pool EXCEPT !.entry[i].phase = "reserved"])
     /\ call' = [call EXCEPT ![c].step = "holding"] /\ UNCHANGED served
  \/ /\ call[c].kind = "prepare"
     /\ SetPool(MakeReady(Pool, i)) /\ Finish(c) /\ UNCHANGED served
  \/ /\ call[c].kind = "load"
     /\ SetPool(Remove(Pool, i)) /\ Finish(c) /\ Answer(c, len)

\* commitPrepared: refuse an owned session, drop a stale source, store the
\* closers of an open turn and read again, or move the cursor to the source.
CommitDone(i) ==
  LET c == Head1(i).client
      dropped == IF Current(c) THEN Remove(Pool, i) ELSE Pool
  IN /\ Runs(i, "commit") /\ Dequeue(i)
     /\ \/ /\ states[i].owner = "live"
           /\ SetPool(dropped) /\ Finish(c) /\ UNCHANGED <<log, states, known, served>>
        \/ /\ states[i].owner # "live" /\ ~UpToDate(i, call[c].source)
           /\ SetPool(dropped) /\ Go(c, "top") /\ UNCHANGED <<log, states, known, served>>
        \/ /\ states[i].owner # "live" /\ UpToDate(i, call[c].source)
           /\ call[c].source.turn = "open"
           /\ log' = [log EXCEPT ![i] = [len |-> @.len + 1, turn |-> "closed"]]
           /\ known' = [known EXCEPT ![i] = log[i].len + 1]
           /\ SetPool(dropped) /\ Go(c, "top") /\ UNCHANGED <<states, served>>
        \/ /\ states[i].owner # "live" /\ UpToDate(i, call[c].source)
           /\ call[c].source.turn = "closed"
           /\ states' = [states EXCEPT ![i] =
                [cursor |-> call[c].source.len, owner |-> "none"]]
           /\ IF Current(c) THEN Grant(c, i)
              ELSE Go(c, "top") /\ UNCHANGED <<entry, recency, served>>
           /\ UNCHANGED <<log, known>>
     /\ UNCHANGED <<live, calls, failures>>

\* attachPrepared: the resume publishes its session, perhaps with an event of
\* its setup, which is written at once.
Publish(c) ==
  LET i == call[c].id
      len == call[c].source.len
  IN /\ call[c].step = "holding"
     /\ states[i] = [cursor |-> len, owner |-> "none"]
     /\ states' = [states EXCEPT ![i].owner = "live"]
     /\ SetPool(Remove(Pool, i))
     /\ \/ /\ live' = [live EXCEPT ![i] =
                [phase |-> "live", next |-> len, saved |-> len]]
           /\ UNCHANGED chain
        \/ /\ len < MaxLength
           /\ live' = [live EXCEPT ![i] =
                [phase |-> "live", next |-> len + 1, saved |-> len]]
           /\ Enqueue(i, "init", "none", 0)
     /\ Finish(c)
     /\ UNCHANGED <<log, calls, failures, known, served>>

\* The resume rolls back: an unchanged session goes back to the ready entries.
Release(c) ==
  LET i == call[c].id IN
  /\ call[c].step = "holding"
  /\ \/ states[i].owner = "none" /\ SetPool(MakeReady(Pool, i))
     \/ SetPool(Remove(Pool, i))
  /\ Finish(c)
  /\ UNCHANGED <<log, chain, states, live, calls, failures, known, served>>

-----------------------------------------------------------------------------
(* Callers that give up, operations that fail *)

Place(c) == CHOOSE k \in DOMAIN chain[call[c].id] : chain[call[c].id][k].client = c
Queued(c) == \E k \in 2..Len(chain[call[c].id]) : chain[call[c].id][k].client = c
Unqueued(c) == [chain EXCEPT ![call[c].id] = Seqs!RemoveAt(@, Place(c))]

\* The caller's signal aborts.  A waiting caller leaves at once, or touches the
\* entry, or takes it for a commit, when its wait is over already; a caller
\* whose operation has not started leaves too.  A commit given up gives up its
\* entry.
Abort(c) ==
  LET i == call[c].id IN
  /\ call[c].kind \in {"inspect", "borrow", "prepare"}
  /\ \/ /\ call[c].step \in {"top", "loading", "loaded", "settling"}
        /\ SetPool(Unpin(Pool, c)) /\ UNCHANGED chain
     \/ /\ call[c].step = "loaded" /\ call[c].kind # "prepare"
        /\ SetPool(Unpin(Touched(c), c)) /\ UNCHANGED chain
     \/ /\ call[c].step \in {"loaded", "settling"} /\ call[c].kind = "prepare"
        /\ Current(c) /\ entry[i].phase = "ready"
        /\ SetPool(Remove(Pool, i)) /\ UNCHANGED chain
     \/ call[c].step = "checking" /\ Queued(c)
        /\ SetPool(Unpin(Pool, c)) /\ chain' = Unqueued(c)
     \/ call[c].step = "committing" /\ Queued(c)
        /\ SetPool(IF Current(c) THEN Remove(Pool, i) ELSE Pool)
        /\ chain' = Unqueued(c)
  /\ Finish(c)
  /\ UNCHANGED <<log, states, live, calls, failures, known, served>>

\* A session whose initial write fails is broken; one whose final flush fails
\* keeps its state and its ownership.
Strand(i, op) ==
  live' = CASE live[i].phase = "draining" -> [live EXCEPT ![i].phase = "stuck"]
            [] live[i].phase # "draining" /\ op = "init" ->
                 [live EXCEPT ![i].phase = "broken"]
            [] OTHER -> live

\* The backend rejects the running operation.
OperationFails(i) ==
  LET o == Head1(i) IN
  /\ chain[i] # <<>> /\ o.op # "detach" /\ Dequeue(i)
  /\ failures < MaxFailures /\ failures' = failures + 1
  /\ CASE o.op = "load" ->
            /\ SetPool(IF entry[i].tag = o.tag THEN Remove(Pool, i) ELSE Pool)
            /\ call' = [c \in Client |->
                 IF c \in Waiters(i, o.tag) THEN NoCall(i) ELSE call[c]]
            /\ UNCHANGED live
       [] o.op = "commit" ->
            /\ SetPool(IF Current(o.client) THEN Remove(Pool, i) ELSE Pool)
            /\ Finish(o.client) /\ UNCHANGED live
       [] o.op = "check" ->
            SetPool(Unpin(Pool, o.client)) /\ Finish(o.client) /\ UNCHANGED live
       [] o.op = "append" ->
            /\ call[o.client].step = "writing" /\ Finish(o.client)
            /\ UNCHANGED <<entry, recency, live>>
       [] o.op \in {"init", "write"} ->
            Strand(i, o.op) /\ UNCHANGED <<entry, recency, call>>
  /\ UNCHANGED <<log, states, calls, known, served>>

-----------------------------------------------------------------------------
(* Writes *)

\* assertWritable; mutant: the reservation is not looked at.
WritableAlways(i) == TRUE
Writable(i) == entry[i].phase \notin {"committing", "reserved"}

\* invalidate: what the pool read before the write is not to be used again.
Invalidate(i) == SetPool(Remove(Pool, i))

\* What adopting an unknown id leaves: the repaired log and its cursor.
Adopted(i) ==
  IF states[i] # NoState THEN log[i]
  ELSE [len |-> log[i].len + (IF log[i].turn = "open" THEN 1 ELSE 0),
        turn |-> "closed"]

\* Mutant: the prepared source is read where it is.
TakeReadyPeeked(i) == Pool

\* takeReady: an unknown id is adopted from its ready entry, which leaves.
TakeReady(i) ==
  IF states[i] = NoState /\ entry[i].phase = "ready" THEN Remove(Pool, i) ELSE Pool

\* appendCore starts: a reserved id is refused; what is reserved afterwards does
\* not stop the write.
AppendStarts(i) ==
  LET c == Head1(i).client IN
  /\ Runs(i, "append") /\ call[c].step = "appending"
  /\ \/ ~Writable(i) /\ Dequeue(i) /\ Finish(c) /\ UNCHANGED <<entry, recency>>
     \/ /\ Writable(i) /\ SetPool(TakeReady(i))
        /\ call' = [call EXCEPT ![c].step = "writing"] /\ UNCHANGED chain
  /\ UNCHANGED <<log, states, live, calls, failures, known, served>>

\* appendCore ends: an unknown id is read, repaired and tracked; an event that
\* does not continue the cursor is refused, another written, and what the pool
\* holds by then of the log is invalidated.
AppendDone(i) ==
  LET c == Head1(i).client
      cursor == IF states[i] = NoState THEN Adopted(i).len ELSE states[i].cursor
      owner == IF states[i] = NoState THEN "none" ELSE states[i].owner
  IN /\ Runs(i, "append") /\ call[c].step = "writing" /\ Dequeue(i) /\ Finish(c)
     /\ \/ /\ cursor # call[c].floor
           /\ log' = [log EXCEPT ![i] = Adopted(i)]
           /\ known' = IF states[i] = NoState
                       THEN [known EXCEPT ![i] = Adopted(i).len] ELSE known
           /\ states' = [states EXCEPT ![i] = [cursor |-> cursor, owner |-> owner]]
           /\ UNCHANGED <<entry, recency>>
        \/ /\ cursor = call[c].floor
           /\ \E turn \in {"open", "closed"} :
                log' = [log EXCEPT ![i] = [len |-> Adopted(i).len + 1, turn |-> turn]]
           /\ known' = [known EXCEPT ![i] = Adopted(i).len + 1]
           /\ states' = [states EXCEPT ![i] = [cursor |-> cursor + 1, owner |-> owner]]
           /\ Invalidate(i)
     /\ UNCHANGED <<live, calls, failures, served>>

LiveAppend(i) ==
  /\ live[i].phase = "live" /\ live[i].next < MaxLength
  /\ live' = [live EXCEPT ![i].next = @ + 1]
  /\ UNCHANGED <<log, chain, entry, recency, states, call, calls, failures, known, served>>

Unwritten(i) ==
  /\ live[i].saved < live[i].next
  /\ \A k \in DOMAIN chain[i] : chain[i][k].op \notin {"init", "write"}

\* The write-behind of a live or retiring session writes what it holds, once
\* the initial write is done.
Flush(i) ==
  /\ live[i].phase \in {"live", "draining"} /\ Unwritten(i)
  /\ Enqueue(i, "write", "none", 0)
  /\ UNCHANGED <<log, entry, recency, states, live, call, calls, failures, known, served>>

\* The initial write of one event, or a batch of all later ones.  The batch
\* leaves out what the cursor has passed, an append before it perhaps; the
\* initial write is rejected then.
WriteDone(i) ==
  LET first == Runs(i, "init")
      last == IF first THEN live[i].saved + 1 ELSE live[i].next
      cursor == states[i].cursor
  IN /\ first \/ Runs(i, "write")
     /\ Dequeue(i)
     /\ \/ /\ IF first THEN cursor = live[i].saved ELSE cursor < last
           /\ log' = [log EXCEPT ![i] =
                [len |-> @.len + (last - cursor), turn |-> "closed"]]
           /\ known' = [known EXCEPT ![i] = log[i].len + (last - cursor)]
           /\ states' = [states EXCEPT ![i].cursor = last]
           /\ live' = [live EXCEPT ![i].saved = last]
           /\ Invalidate(i)
        \/ /\ ~first /\ cursor >= last
           /\ live' = [live EXCEPT ![i].saved = last]
           /\ UNCHANGED <<log, states, entry, recency, known>>
        \/ /\ first /\ cursor # live[i].saved
           /\ Strand(i, "init") /\ UNCHANGED <<log, states, entry, recency, known>>
     /\ UNCHANGED <<call, calls, failures, served>>

\* session/disposed: readers wait from here on until the session is detached; a
\* broken session cannot be flushed.
Retire(i) ==
  /\ Attached(i)
  /\ live' = [live EXCEPT ![i].phase =
       IF @ = "broken" THEN "stuck" ELSE "draining"]
  /\ UNCHANGED <<log, chain, entry, recency, states, call, calls, failures, known, served>>

Detach(i) ==
  /\ live[i].phase = "draining" /\ live[i].saved = live[i].next
  /\ \A k \in DOMAIN chain[i] : chain[i][k].op # "detach"
  /\ Enqueue(i, "detach", "none", 0)
  /\ UNCHANGED <<log, entry, recency, states, live, call, calls, failures, known, served>>

DetachDone(i) ==
  /\ Runs(i, "detach") /\ Dequeue(i)
  /\ live' = [live EXCEPT ![i] = NoLive]
  /\ states' = [states EXCEPT ![i] = NoState]
  /\ UNCHANGED <<log, entry, recency, call, calls, failures, known, served>>

\* Another process extends the log, while this one leaves it alone.
WriteElsewhere(i) ==
  /\ i \in Shared /\ live[i] = NoLive /\ entry[i].phase # "reserved"
  /\ \A k \in DOMAIN chain[i] : chain[i][k].op # "append"
  /\ log[i].len < MaxLength
  /\ \E turn \in {"open", "closed"} :
       log' = [log EXCEPT ![i] = [len |-> @.len + 1, turn |-> turn]]
  /\ UNCHANGED <<chain, entry, recency, states, live, call, calls, failures, known, served>>

-----------------------------------------------------------------------------
Init ==
  /\ log \in [Id -> { [len |-> 1, turn |-> t] : t \in {"open", "closed"} }]
  /\ chain = [i \in Id |-> <<>>]
  /\ entry = [i \in Id |-> NoEntry] /\ recency = <<>>
  /\ states = [i \in Id |-> NoState] /\ live = [i \in Id |-> NoLive]
  /\ call = [c \in Client |-> NoCall(CHOOSE i \in Id : TRUE)]
  /\ calls = [c \in Client |-> 0]
  /\ failures = 0 /\ known = [i \in Id |-> 0] /\ served = "fresh"

Goes(c) ==
  MeetLive(c) \/ Enter(c) \/ Check(c) \/ EndLease(c) \/ Reserve(c)

Completes(i) ==
  \/ LoadDone(i) \/ CheckDone(i) \/ CommitDone(i)
  \/ AppendStarts(i) \/ AppendDone(i) \/ WriteDone(i) \/ DetachDone(i)

Next ==
  \/ \E c \in Client : Ask(c) \/ Goes(c) \/ Publish(c) \/ Release(c) \/ Abort(c)
  \/ \E i \in Id : \/ Completes(i) \/ OperationFails(i)
                   \/ LiveAppend(i) \/ Flush(i) \/ Retire(i) \/ Detach(i)
                   \/ WriteElsewhere(i)

Spec == Init /\ [][Next]_vars

\* Operations on the chain complete, promise reactions run, a retiring session
\* is drained, and a resume publishes or releases what it holds.
Fairness ==
  /\ \A c \in Client : WF_vars(Goes(c)) /\ WF_vars(Publish(c) \/ Release(c))
  /\ \A i \in Id : WF_vars(Completes(i)) /\ WF_vars(Flush(i)) /\ WF_vars(Detach(i))

FairSpec == Spec /\ Fairness

-----------------------------------------------------------------------------
(* Properties *)

Holders(i) == { c \in Client : call[c].step = "holding" /\ call[c].id = i }

\* A granted reservation is exclusive and exact until it is used: one caller
\* holds it, the session it prepared is the stored log, the cursor stands at
\* its end and nobody owns the id - whatever reads, appends, evictions and
\* aborts were queued before and after it.
ReservationHolds ==
  \A i \in Id :
    /\ (entry[i].phase = "reserved") <=> (Holders(i) # {})
    /\ \A c \in Holders(i) :
         /\ Holders(i) = {c} /\ Current(c)
         /\ call[c].source = log[i] /\ log[i].turn = "closed"
         /\ states[i] = [cursor |-> log[i].len, owner |-> "none"]
         /\ live[i].phase = "none"

\* A read never goes back: what it answers with, shared with others, taken from
\* the pool or lent by a commit under way, holds every record that this process
\* had read or written when the call was made.  What another process stored
\* since may be missing.
ReadsNeverGoBack == served = "fresh"

PinsAreCounted ==
  \A i \in Id : entry[i] # NoEntry =>
    entry[i].pins = Cardinality({ c \in Client :
      call[c].id = i /\ call[c].pinned = "yes" /\ Current(c) })

PoolIsBounded ==
  Cardinality(ReadyIds(entry)) > Capacity =>
    \A i \in ReadyIds(entry) : entry[i].pins > 0

LeaseIsKept ==
  \A i \in ReadyIds(entry) :
    (\E c \in Client : /\ call[c].pinned = "yes" /\ call[c].id = i /\ Current(c)
                     /\ call'[c] = call[c])
    /\ entry'[i] = NoEntry =>
      \/ entry[i].source # log[i] \/ log'[i] # log[i]
      \/ \E c \in Client : /\ call[c].id = i /\ call'[c] # call[c]
                           /\ call[c].kind = "prepare" \/ call[c].step = "appending"

\* Leases and the LRU agree: pins count the leases and the waiting borrows
\* exactly, the pool exceeds its capacity only by entries that all are pinned,
\* and a ready entry under a pin goes only when its own session is written,
\* found stale, adopted for an append or given up by a resume, never to make
\* room for another.  (An entry that is not ready also goes, pinned or not, when
\* its load or commit fails or is aborted, and when its session is repaired,
\* published or was loaded.)
PoolIsSound ==
  []PinsAreCounted /\ []PoolIsBounded /\ [][LeaseIsKept]_vars

\* Every call ends, by an answer or an error, though reads, repairs and
\* reservations of others make it start over: a client calls finitely often, so
\* that all of them rest again and again says no call stays open for ever.
Settles == []<>(\A c \in Client : call[c].step = "idle")
=============================================================================
