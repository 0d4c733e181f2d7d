--------------------------- MODULE StoredSession ----------------------------
(***************************************************************************)
(* What a storage backend promises of one session log, whatever fails and  *)
(* whenever the process dies: everything it has acknowledged is what a     *)
(* reader finds first, in order and for ever.  A tail that was never       *)
(* acknowledged may appear, and may be gone again.                         *)
(***************************************************************************)
EXTENDS Naturals, Sequences

CONSTANT Row

VARIABLES stored,        \* the records a reader of the log would return
          acknowledged   \* the records some append or load has vouched for

vars == <<stored, acknowledged>>

Init == stored = <<>> /\ acknowledged = <<>>

\* Some records of a batch reach the log.
Extend ==
  /\ Len(stored') > Len(stored)
  /\ SubSeq(stored', 1, Len(stored)) = stored
  /\ \A i \in Len(stored) + 1..Len(stored') : stored'[i] \in Row
  /\ UNCHANGED acknowledged

\* An unacknowledged tail is rolled back, cut off, or lost in a crash.
Lose ==
  /\ stored' \in { SubSeq(stored, 1, n) : n \in Len(acknowledged)..Len(stored) }
  /\ UNCHANGED acknowledged

\* An append or a load succeeds: from now on every record must stay.
Acknowledge ==
  /\ acknowledged' = stored
  /\ UNCHANGED stored

Next == Extend \/ Lose \/ Acknowledge

Spec == Init /\ [][Next]_vars
=============================================================================
