--------------------------- MODULE MCRateLimited ---------------------------
(* Three requests and an interval of two ticks: a provider call or a sleep *)
(* under the mutex, a queue behind it, and slots abandoned in a row.       *)
EXTENDS RateLimited

CONSTANTS r1, r2, r3

MCRequests == {r1, r2, r3}
MCTwoRequests == {r1, r2}
============================================================================
