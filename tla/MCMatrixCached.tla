--------------------------- MODULE MCMatrixCached ---------------------------
(* Three requests for one key: a leader, a follower of the same flight and *)
(* one that comes before, between or after them.                           *)
EXTENDS MatrixCached

CONSTANT k

MCKeys == {k}
============================================================================
