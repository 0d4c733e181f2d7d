----------------------------- MODULE DurableLog -----------------------------
(***************************************************************************)
(* What session persistence promises of one live session, whatever batches *)
(* it writes and whichever writes fail: the stored log only ever grows,    *)
(* and it is always a prefix of the events the session has accepted.       *)
(***************************************************************************)
EXTENDS Naturals, Sequences

CONSTANT Event

VARIABLES accepted,   \* the session's events, in the order it appended them
          durable     \* the events the backend holds

vars == <<accepted, durable>>

\* The session may be created with events; what was stored before is not counted.
Init == accepted \in Seq(Event) /\ durable = <<>>

\* The session appends an event.
Accept(e) ==
  /\ accepted' = Append(accepted, e)
  /\ UNCHANGED durable

\* The backend commits some more of the accepted events.
Persist ==
  /\ UNCHANGED accepted
  /\ durable' \in { SubSeq(accepted, 1, n) : n \in Len(durable)..Len(accepted) }

Next == (\E e \in Event : Accept(e)) \/ Persist

Spec == Init /\ [][Next]_vars
=============================================================================
