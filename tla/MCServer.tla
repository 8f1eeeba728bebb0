------------------------------ MODULE MCServer ------------------------------
(* Two batches of up to two rows, one row too many, and refused bodies.    *)
(* Of one row a slow body and a full turn just fit in the deadline, of two *)
(* they do not.                                                            *)
EXTENDS Server

CONSTANTS b1, b2

MCRequests == {b1, b2}
MCMaxStops == 2
MCReadTimeout == 1
MCWriteTimeout == 2
MCTurnTime == 1
A == "address"
B == "blank"
Body(f, addresses) == [form |-> f, rows |-> addresses]
MCBodies == {Body("malformed", <<>>)} \cup
  {Body("ok", rows) : rows \in {<<A>>, <<B, A>>, <<A, A>>, <<A, A, A>>}}
============================================================================
