------------------------ MODULE MCSessionPreparations ------------------------
(* Two ids and three clients: one resumes the first id or reads the second,  *)
(* which evicts the first; one borrows the first; one appends to it or loads *)
(* it, competing with the resume for its reservation.                        *)
EXTENDS SessionPreparations

CONSTANTS a, b, resumer, reader, third

MCAsks == [c \in {resumer, reader, third} |->
  CASE c = resumer -> {<<"prepare", a>>, <<"inspect", b>>}
    [] c = reader  -> {<<"borrow", a>>}
    [] c = third   -> {<<"append", a>>, <<"load", a>>}]
=============================================================================
