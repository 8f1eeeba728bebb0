------------------------------ MODULE MCSolver ------------------------------
(***************************************************************************)
(* Four stops: the six tours are visited through three depths.  The legs   *)
(* from stop 0 cost 1, all others 1 or 2, so that ties, reversed tours of  *)
(* different length and every ranking of the tours occur.  Invalid         *)
(* requests cross each limit by one.                                       *)
(***************************************************************************)
EXTENDS Solver

Leg(n) == {<<a, b>> \in (1..n - 1) \X (0..n - 1) : a # b}

Matrices(n, costs) ==
  {[a \in 0..n - 1 |-> [b \in 0..n - 1 |->
      IF <<a, b>> \in Leg(n) THEN c[<<a, b>>] ELSE IF a = b THEN 0 ELSE 1]] :
     c \in [Leg(n) -> costs]}

Request(n, m, ok, k) == [stops |-> n, matrix |-> m, wellFormed |-> ok, topK |-> k]

Flat(n) == [a \in 0..n - 1 |-> [b \in 0..n - 1 |-> IF a = b THEN 0 ELSE 1]]

MCInputs ==
  {Request(4, m, TRUE, k) : m \in Matrices(4, {1, 2}), k \in {1, 2, 4, 7}}
  \cup {Request(n, Flat(n), TRUE, k) : n \in 0..5, k \in {0, 1, 3, 8}}
  \cup {Request(3, Flat(3), FALSE, 2)}
==============================================================================
