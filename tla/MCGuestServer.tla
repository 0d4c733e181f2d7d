--------------------------- MODULE MCGuestServer ----------------------------
(* Small instances of GuestServer: interchangeable sessions, chats, readers. *)
EXTENDS GuestServer, TLC

Symmetry ==
  Permutations(Session) \cup Permutations(Chat) \cup Permutations(Reader)
=============================================================================
