------------------------------ MODULE JsonlLog ------------------------------
(***************************************************************************)
(* The JSONL backend's file of one session: publishing it with its first   *)
(* batch, appending and syncing a batch, rolling a failed append back,     *)
(* losing unsynced bytes in a crash, and reading, repairing and extending  *)
(* what is left.  The coordinator's part of it is the cursor, the          *)
(* materialized flag and a queue that is retried until it is acknowledged. *)
(*                                                                         *)
(* The file is a sequence of records.  A record that was cut short is a    *)
(* "cut": bytes behind it join it, so neither it nor what follows it can   *)
(* be decoded.  Both encodings are modelled: plain JSONL lines, and one    *)
(* Zstandard frame per batch, of which a torn frame still yields its       *)
(* complete first records.                                                 *)
(***************************************************************************)
EXTENDS Naturals, Sequences

CONSTANTS MaxEvents,     \* bound: records of one log
          MaxCrashes,    \* bound: crashes in one behaviour
          MaxFailures,   \* bound: failing file operations in one behaviour
          RollbackFates  \* what a rollback may do: "undone", "kept" or both

ASSUME BoundsAssumption ==
  /\ MaxEvents \in Nat /\ MaxCrashes \in Nat /\ MaxFailures \in Nat
  /\ RollbackFates \subseteq {"undone", "kept"}

VARIABLES
  encoding,      \* configuration: "none" or "zstd"
  file,          \* "absent", "linked" (its entry not yet synced), "durable"
  rows,          \* the content of the file
  synced,        \* how many of the rows a crash cannot take
  pc,            \* what the backend is doing; "down" without a live session
  task,          \* "none", or whose batch it writes: "append", "repair"
  batch,         \* that batch
  before,        \* the size of the file to go back to
  queue,         \* the session's events not yet acknowledged
  cursor,        \* SessionState.cursor
  materialized,  \* SessionState.materialized: "no" or "yes"
  life,          \* history: how often the process has crashed
  failures,      \* history: how many file operations have failed
  shown          \* history: the records acknowledged by an append or a load

fileVars == <<encoding, file, rows, synced>>
memoryVars == <<queue, cursor, materialized>>
vars == <<encoding, file, rows, synced, pc, task, batch, before, queue,
          cursor, materialized, life, failures, shown>>

\* Each life writes records of its own; seq of a cut is where its frame began.
Record == [kind : {"step", "end"}, seq : 0..MaxEvents, life : 0..MaxCrashes]
Cut == [kind : {"cut"}, seq : 0..MaxEvents, life : 0..MaxCrashes]

TypeOK ==
  /\ encoding \in {"none", "zstd"} /\ file \in {"absent", "linked", "durable"}
  /\ rows \in Seq(Record \cup Cut) /\ synced \in 0..Len(rows)
  /\ pc \in {"down", "idle", "publishing", "linking", "writing", "syncing",
             "rolling", "truncating"}
  /\ task \in {"none", "append", "repair"}
  /\ batch \in Seq(Record) /\ queue \in Seq(Record) /\ shown \in Seq(Record)
  /\ before \in 0..Len(rows) /\ cursor \in 0..MaxEvents
  /\ materialized \in {"no", "yes"}
  /\ life \in 0..MaxCrashes /\ failures \in 0..MaxFailures

-----------------------------------------------------------------------------
(* Reading: SessionLogScanner and the two prefix readers *)

InOrder(i) == rows[i].kind # "cut" /\ rows[i].seq = i - 1

\* The length of the contiguous prefix of decodable records.
Good == CHOOSE n \in 0..Len(rows) :
          /\ \A i \in 1..n : InOrder(i)
          /\ n < Len(rows) => ~InOrder(n + 1)

Prefix == SubSeq(rows, 1, Good)
Stored == IF file = "absent" THEN <<>> ELSE Prefix

\* A record that reads as damaged is an error only if a turn ends behind it
\* (plain), or unless it is the torn last frame (zstd).  What scanning finds
\* behind a torn frame depends on its bytes: it may throw or stop there.
Throws ==
  /\ Good < Len(rows)
  /\ IF encoding = "none"
     THEN \E i \in Good + 1..Len(rows) :
            rows[i].kind = "end" /\ (i > 1 => rows[i - 1].kind # "cut")
     ELSE rows[Good + 1].kind # "cut"

\* JsonlTornMarker: where to truncate and what to write again behind it.
TruncateTo ==
  IF Good = Len(rows) \/ encoding = "none" THEN Good ELSE rows[Good + 1].seq
Recovered == SubSeq(rows, TruncateTo + 1, Good)

\* The closers that repair computes for a turn the crash left open.
Closers ==
  IF Good > 0 /\ rows[Good].kind # "end" /\ Good < MaxEvents
  THEN <<[kind |-> "end", seq |-> Good, life |-> life]>> ELSE <<>>

RepairedForgetful == Closers  \* mutant: the recovered records are dropped
Repaired == Recovered \o Closers

\* What may be on disk of w when its last write is cut short: whole lines of
\* plain text, or any number of decodable records and then a cut one.
Remains(w) ==
  LET cut == [kind |-> "cut", seq |-> before, life |-> life]
  IN {<<>>, w} \cup { Append(SubSeq(w, 1, n - 1), cut) : n \in 1..Len(w) }
     \cup IF encoding = "none" THEN { SubSeq(w, 1, n) : n \in 0..Len(w) }
          ELSE IF w # <<>> /\ w[Len(w)].kind # "cut" THEN {Append(w, cut)}
          ELSE {}

-----------------------------------------------------------------------------
(* Effects shared by several steps *)

EndTask == task' = "none" /\ batch' = <<>>

\* The process keeps nothing of the session in memory.
Forget == queue' = <<>> /\ cursor' = 0 /\ materialized' = "no"

\* Mutant: an acknowledged batch stays in the queue.
AcknowledgeAgain ==
  /\ cursor' = IF task = "append" THEN cursor + Len(batch) ELSE Len(rows')
  /\ materialized' = "yes" /\ shown' = rows' /\ pc' = "idle"
  /\ EndTask /\ UNCHANGED queue

\* The batch or the repaired log is durable: the coordinator moves its cursor.
Acknowledge ==
  /\ cursor' = IF task = "append" THEN cursor + Len(batch) ELSE Len(rows')
  /\ queue' = IF task = "append" THEN SubSeq(queue, Len(batch) + 1, Len(queue))
              ELSE <<>>
  /\ materialized' = "yes" /\ shown' = rows' /\ pc' = "idle"
  /\ EndTask

\* A failed append keeps the queue; a failed load keeps nothing.
GiveUp ==
  /\ EndTask
  /\ IF task = "append" THEN pc' = "idle" /\ UNCHANGED memoryVars
     ELSE pc' = "down" /\ Forget

Fails == failures < MaxFailures /\ failures' = failures + 1

-----------------------------------------------------------------------------
(* The session and its queue *)

\* A live session appends an event.
Emit(kind) ==
  /\ pc # "down" /\ task # "repair"
  /\ cursor + Len(queue) < MaxEvents
  /\ queue' = Append(queue, [kind |-> kind, seq |-> cursor + Len(queue),
                             life |-> life])
  /\ UNCHANGED <<fileVars, pc, task, batch, before, cursor, materialized, life,
                 failures, shown>>

\* A new session takes an id that no file on disk holds.
Create ==
  /\ pc = "down" /\ file = "absent"
  /\ pc' = "idle"
  /\ UNCHANGED <<fileVars, memoryVars, task, batch, before, life, failures,
                 shown>>

\* appendBatch.  materialize refuses a path that exists: nothing changes then.
BeginAppend ==
  /\ pc = "idle" /\ queue # <<>>
  /\ task' = "append" /\ batch' = queue
  /\ \/ materialized = "yes" /\ pc' = "writing" /\ before' = Len(rows)
     \/ /\ materialized = "no" /\ file = "absent"
        /\ pc' = "publishing" /\ UNCHANGED before
  /\ UNCHANGED <<fileVars, memoryVars, life, failures, shown>>

-----------------------------------------------------------------------------
(* materializePosix: a synced temporary file, link, directory fsync *)

Publish ==
  /\ pc = "publishing"
  /\ file' = "linked" /\ rows' = batch /\ synced' = Len(batch)
  /\ pc' = "linking"
  /\ UNCHANGED <<encoding, memoryVars, task, batch, before, life, failures,
                 shown>>

\* A directory, the temporary file or the link fails: nothing is published.
PublishFails ==
  /\ pc = "publishing" /\ Fails /\ GiveUp
  /\ UNCHANGED <<fileVars, before, life, shown>>

SyncDir ==
  /\ pc = "linking"
  /\ file' = "durable" /\ UNCHANGED <<encoding, rows, synced>>
  /\ Acknowledge
  /\ UNCHANGED <<before, life, failures>>

\* The log is in place, but the append is rejected.
SyncDirFails ==
  /\ pc = "linking" /\ Fails /\ GiveUp
  /\ UNCHANGED <<fileVars, before, life, shown>>

-----------------------------------------------------------------------------
(* appendLines and rollbackAppend *)

Write ==
  /\ pc = "writing"
  /\ rows' = rows \o batch /\ pc' = "syncing"
  /\ UNCHANGED <<encoding, file, synced, memoryVars, task, batch, before, life,
                 failures, shown>>

WriteFails ==
  /\ pc = "writing" /\ Fails
  /\ \E part \in Remains(batch) : rows' = rows \o part
  /\ pc' = "rolling"
  /\ UNCHANGED <<encoding, file, synced, memoryVars, task, batch, before, life,
                 shown>>

\* The file cannot be opened or its size not read: there is nothing to roll back.
OpenFails ==
  /\ pc = "writing" /\ Fails /\ GiveUp
  /\ UNCHANGED <<fileVars, before, life, shown>>

Sync ==
  /\ pc = "syncing"
  /\ synced' = Len(rows) /\ UNCHANGED <<encoding, file, rows>>
  /\ Acknowledge
  /\ UNCHANGED <<before, life, failures>>

SyncFails ==
  /\ pc = "syncing" /\ Fails
  /\ pc' = "rolling"
  /\ UNCHANGED <<fileVars, memoryVars, task, batch, before, life, shown>>

\* Mutant: a failed append is rethrown without restoring the size.
RollbackNothing(fate) ==
  /\ pc = "rolling" /\ GiveUp
  /\ fate = "undone"
  /\ UNCHANGED <<fileVars, before, life, failures, shown>>

\* The truncation succeeds or fails; the append is rejected either way.
Rollback(fate) ==
  /\ pc = "rolling"
  /\ GiveUp
  /\ IF fate = "undone"
     THEN rows' = SubSeq(rows, 1, before) /\ synced' = before
     ELSE UNCHANGED <<rows, synced>>
  /\ UNCHANGED <<encoding, file, before, life, failures, shown>>

-----------------------------------------------------------------------------
(* Loading a stored session: loadStored, then commitRepair *)

Load ==
  /\ pc = "down" /\ file # "absent" /\ ~Throws
  /\ LET torn == TruncateTo < Len(rows) IN
     IF torn \/ Repaired # <<>>
     THEN /\ task' = "repair" /\ batch' = Repaired /\ before' = TruncateTo
          /\ pc' = IF torn THEN "truncating" ELSE "writing"
          /\ UNCHANGED <<memoryVars, shown>>
     ELSE /\ cursor' = Len(rows) /\ materialized' = "yes" /\ shown' = rows
          /\ pc' = "idle"
          /\ UNCHANGED <<task, batch, before, queue>>
  /\ UNCHANGED <<fileVars, life, failures>>

\* repair: truncate and sync, then append what was recovered and the closers.
Truncate ==
  /\ pc = "truncating"
  /\ rows' = SubSeq(rows, 1, before) /\ synced' = before
  /\ IF batch # <<>>
     THEN pc' = "writing" /\ UNCHANGED <<memoryVars, task, batch, shown>>
     ELSE Acknowledge
  /\ UNCHANGED <<encoding, file, before, life, failures>>

\* The truncation fails, or the sync of one that took effect.
TruncateFails ==
  /\ pc = "truncating" /\ Fails /\ GiveUp
  /\ \/ UNCHANGED <<rows, synced>>
     \/ rows' = SubSeq(rows, 1, before) /\ synced' = before
  /\ UNCHANGED <<encoding, file, before, life, shown>>

-----------------------------------------------------------------------------
(* Crashes *)

\* The process or the machine stops: memory is gone, of the unsynced rows
\* anything may be left, and an unsynced directory entry may be gone too.
Crash ==
  /\ pc # "down" /\ life < MaxCrashes
  /\ life' = life + 1
  /\ pc' = "down" /\ Forget /\ EndTask
  /\ \/ /\ file = "linked"
        /\ file' = "absent" /\ rows' = <<>> /\ synced' = 0
     \/ /\ file' = IF file = "linked" THEN "durable" ELSE file
        /\ \E part \in Remains(SubSeq(rows, synced + 1, Len(rows))) :
             rows' = SubSeq(rows, 1, synced) \o part
        /\ synced' = Len(rows')
  /\ before' = 0
  /\ UNCHANGED <<encoding, failures, shown>>

-----------------------------------------------------------------------------
Init ==
  /\ encoding \in {"none", "zstd"}
  /\ file = "absent" /\ rows = <<>> /\ synced = 0
  /\ pc = "idle" /\ task = "none" /\ batch = <<>> /\ before = 0
  /\ queue = <<>> /\ cursor = 0 /\ materialized = "no"
  /\ life = 0 /\ failures = 0 /\ shown = <<>>

Next ==
  \/ \E kind \in {"step", "end"} : Emit(kind)
  \/ Create \/ BeginAppend
  \/ Publish \/ PublishFails \/ SyncDir \/ SyncDirFails
  \/ Write \/ WriteFails \/ OpenFails \/ Sync \/ SyncFails
  \/ \E fate \in RollbackFates : Rollback(fate)
  \/ Load \/ Truncate \/ TruncateFails
  \/ Crash

Spec == Init /\ [][Next]_vars

\* A file operation that was started returns, and a stored session is loaded.
Fairness ==
  /\ WF_vars(Load) /\ WF_vars(Truncate) /\ WF_vars(Write) /\ WF_vars(Sync)
  /\ \A fate \in RollbackFates : WF_vars(Rollback(fate))

FairSpec == Spec /\ Fairness

-----------------------------------------------------------------------------
(* Properties *)

DamageIsLast ==
  \A i \in 1..Len(rows) : InOrder(i) \/ (i = Len(rows) /\ rows[i].kind = "cut")

\* Of a log on disk only the last record can be damaged, and what is before
\* it is numbered from zero: a rolled back append, a crash or an interrupted
\* repair never leaves something behind a damaged record, where the next
\* append would hide it from every reader.
WellFormed == TypeOK /\ DamageIsLast

\* The log keeps its promise: what an append or a load has acknowledged is a
\* prefix of what readers find, through failed appends, their rollback and
\* retry, crashes, and repairs cut short by another crash.
Promise == INSTANCE StoredSession WITH
             stored <- Stored, acknowledged <- shown, Row <- Record

ImplementsStoredSession == Promise!Spec

\* After the last crash and the last failing operation, the session can be
\* loaded again: no crash leaves a log that every load rejects.
Recovers == (pc = "down" /\ file # "absent") ~> (pc = "idle")

\* appendBatch "returns once the batch is durable": what it acknowledged, a
\* reader finds.
AppendIsDurable ==
  Len(shown) <= Len(Stored) /\ SubSeq(Stored, 1, Len(shown)) = shown
=============================================================================
