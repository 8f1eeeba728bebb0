----------------------------- MODULE MCFrontend -----------------------------
(* An address that is found at one of two places or not at all, a blank    *)
(* one, one label, and up to three rows on a server that allows fewer rows *)
(* and routes than the page assumes at first: it refuses the count typed.  *)
EXTENDS Frontend, TLC

CONSTANTS p, q

MCAddressKey == "home" :> "home" @@ "" :> ""
MCPlaces == {p, q}
MCPageLimits == [maxStops |-> 3, maxTopK |-> 2, defaultTopK |-> 2]
MCServerLimits == [maxStops |-> 2, maxTopK |-> 1, defaultTopK |-> 1]
MCLabels == {"", "work"}
MCCounts == {2}
MCDemo == <<[address |-> "home", label |-> "work"], [address |-> "", label |-> ""]>>
Symmetric == Permutations(MCPlaces)
============================================================================
